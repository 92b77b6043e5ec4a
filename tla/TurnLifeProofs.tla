--------------------------- MODULE TurnLifeProofs ---------------------------
(***************************************************************************)
(* The life of a message, proved for any number of lanes, calls, attempts   *)
(* and crashes: one live turn, one drive, endings that only a failure record or *)
(* a stored cancel under way rewrites. Two cases are left out, and runs show *)
(* why: routine messages (queue_on_lane does not take the job lock), and    *)
(* failing drives beside moves (record_turn_failure looks at the lane the   *)
(* job is on by then).                                                      *)
(***************************************************************************)
EXTENDS TurnLife, Induction, SequenceTheorems, FiniteSetTheorems

Calm == "routine" \notin Kinds /\ ~("move" \in Modes /\ "fail" \in Outcomes)

Used == Turns \ Unused
Begun == Open \cup Ended
Undone == {"asked", "queued", "started"}
Stopped == {"failed", "cancelled"}
Cancels == {"status", "interrupt", "await", "persist", "write"}
Locked == {"status", "interrupt", "await", "persist", "write", "mark", "park"}
OnBoard == {"drive", "persist", "unwind"}
Recording == {"look", "record"}
Active == {"drive", "persist", "unwind", "fail", "look", "record"}

(* Who is inside the job lock holds it.                                      *)
LockInv ==
    /\ \A c \in Callers : cPc[c] \in Locked => jobLock = c
    /\ \A a \in Agents : pc[Pump(a)] = "promote" => jobLock = a
    /\ dPc = "attach" => jobLock = "delivery"
    /\ dPc = "new" => /\ \A w \in Tasks : pc[w] = "off"
                      /\ \A c \in Callers : cPc[c] = "off"

(* The rows: one live turn, the newest one, on the job's lane, while the job *)
(* is to be done; an open one means that the job was started.                *)
RowInv ==
    /\ \A t, u \in With(Live) : t = u
    /\ \A t \in With(Live) : jobStatus \in Undone /\ turnAgent[t] = jobAgent
    /\ \A t \in With(Open) : jobStatus = "started"
    /\ \A t \in Used : turnAgent[t] \in Agents
    /\ \A t \in With(Live), u \in Used : u <= t
    /\ \A t \in Used, u \in Unused : t < u
    /\ dPc = "new" <=> jobStatus = "none"
    /\ jobStatus # "none" => jobAgent \in Agents
    /\ dPc = "attach" => jobStatus \in {"asked", "queued"}
    /\ dPc \in {"new", "attach"} => Used = {}

(* The message: one copy, with the newest turn; with the live one, or with    *)
(* the cancelled attempt that a move may take up.                            *)
MessageInv ==
    /\ msgs \subseteq Used
    /\ \A t, u \in msgs : t = u
    /\ \A t \in msgs, u \in Used : u <= t
    /\ jobStatus \in Undone => msgs \subseteq With(Live)
    /\ "move" \in Modes /\ jobStatus = "cancelled" =>
         msgs \subseteq {t \in With({"cancelled"}) : turnAgent[t] = jobAgent}

(* The tasks: one a lane at work, each on a turn of its lane and on the      *)
(* board for it.                                                            *)
TaskOK(w) ==
    /\ pc[w] \in Active \cup {"lock"} =>
         /\ taskTurn[w] \in Turns /\ turnStatus[taskTurn[w]] \in Begun
         /\ turnAgent[taskTurn[w]] = w[2]
    /\ pc[w] \in OnBoard => board[taskTurn[w]] = w
    /\ pc[w] = "drive" => turnStatus[taskTurn[w]] = "running"
    /\ pc[w] = "persist" => turnStatus[taskTurn[w]] \in {"running", "cancelled"}
    /\ pc[w] = "lock" => w[1] = "resume"
    /\ pc[w] \in {"claim", "promote"} => w[1] = "pump"
    /\ pc[w] \in {"fail", "look", "record"} \/ out[w] = "fail" => "fail" \in Outcomes

LaneInv ==
    \A w, v \in Tasks :
        w[2] = v[2] /\ pc[w] \notin {"off", "lock"} /\ pc[v] \notin {"off", "lock"} => w = v

PromoteInv ==
    \A a \in Agents : pc[Pump(a)] = "promote" =>
        jobStatus = "started" /\ jobAgent = a /\ With(Open) = {}

TaskInv ==
    /\ \A w \in Tasks : TaskOK(w)
    /\ LaneInv /\ PromoteInv
    /\ \A t \in calling : turnStatus[t] \in Begun

(* Without moves a task works on the newest turn and on the job's lane, and   *)
(* the job is over when that turn is.                                        *)
StayInv ==
    "move" \notin Modes =>
        \A w \in Tasks : pc[w] \in Active =>
            /\ jobAgent = w[2]
            /\ turnStatus[taskTurn[w]] \in Ended => jobStatus \in Ended
            /\ jobStatus = "done" => turnStatus[taskTurn[w]] = "done"
            /\ \A u \in Used : u <= taskTurn[w]

(* A failure record has read its own turn: one that it found open has at most *)
(* been cancelled since, and one that it found over, or did not find, is over. *)
RecordOK(w) ==
    LET t == taskTurn[w]
        r == reads[w]
    IN /\ r.as # "queued"
       /\ r.as # "none" => r.turn = t
       /\ r.as \in Open \/ r.job => turnStatus[t] \in Open \cup Stopped
       /\ r.as \in Ended => turnStatus[t] \in Ended
       /\ w[1] = "pump" /\ pc[w] = "look" => r.lane = w[2] /\ r.as = "none"
       /\ (w[1] = "pump" \/ pc[w] = "record") /\ ~r.job => turnStatus[t] \in Ended
       /\ pc[w] = "record" /\ r.as \notin Open => turnStatus[t] \in Ended
       /\ w[1] = "resume" => r.as # "none"

RecordInv == \A w \in Tasks : pc[w] \in Recording => RecordOK(w)

(* The calls: what a cancel has found stays the only live turn, and nobody   *)
(* works on it once the task was waited for; a failure record alone may end   *)
(* it before the cancel is written.                                          *)
CallOK(c) ==
    /\ cMode[c] # "none" => cMode[c] \in Modes
    /\ cMode[c] \in {"lane", "move"} => cAgent[c] \in Agents
    /\ cPc[c] \notin {"off", "end"} => cMode[c] \in Modes
    /\ cPc[c] = "lock" /\ cMode[c] = "turn" => cTurn[c] \in Used
    /\ cPc[c] \in Cancels => cTurn[c] \in Used
    /\ cPc[c] \in {"interrupt", "await"} => cTask[c] \in Tasks
    /\ cPc[c] \in Cancels /\ cMode[c] # "turn" => With(Live) \subseteq {cTurn[c]}
    /\ cPc[c] = "mark" => cMode[c] = "lane" /\ With(Live) = {}
    /\ cPc[c] = "park" => cMode[c] = "move" /\ With(Open) = {}

WriteOK(c) ==
    cPc[c] = "write" =>
        /\ turnStatus[cTurn[c]] \in Live \cup {"failed"}
        /\ \A u \in Used : u <= cTurn[c]
        /\ turnStatus[cTurn[c]] = "failed" => "move" \notin Modes /\ jobStatus \in Stopped

WaitOK(c) ==
    \A w \in Tasks : pc[w] \in OnBoard /\ taskTurn[w] = cTurn[c] =>
        /\ cPc[c] = "interrupt" => w = cTask[c]
        /\ cPc[c] = "await" => w = cTask[c] /\ w \in hit
        /\ cPc[c] \notin {"persist", "write"}

CallInv == \A c \in Callers : CallOK(c) /\ WaitOK(c)
WriteInv == \A c \in Callers : WriteOK(c)

IInv ==
    /\ TypeOK /\ LockInv /\ RowInv /\ MessageInv
    /\ TaskInv /\ StayInv /\ RecordInv /\ CallInv /\ WriteInv

-----------------------------------------------------------------------------
(* The least and the last turn of a set.                                     *)
LEMMA FirstIn ==
    ASSUME NEW S, S \subseteq Turns, S # {}
    PROVE  First(S) \in S /\ First(S) \in Turns /\ \A u \in S : First(S) <= u
<1>1. S \subseteq Nat
  BY TurnLifeAssumption DEF Turns
<1>2. \E t \in S : \A u \in S : t <= u
  BY <1>1, LeastElement
<1> QED
  BY <1>2 DEF First

LEMMA LastIn ==
    ASSUME NEW S, S \subseteq Turns, S # {}
    PROVE  LastTurn(S) \in S /\ LastTurn(S) \in Turns /\ \A u \in S : u <= LastTurn(S)
<1>1. S \subseteq 0..MaxTurns /\ MaxTurns \in Nat
  BY TurnLifeAssumption DEF Turns
<1>2. \E t \in S : \A u \in S : u <= t
  BY <1>1, GreatestElement
<1> QED
  BY <1>2 DEF LastTurn

LEMMA TaskNames ==
    /\ \A a \in Agents : Pump(a) \in Tasks /\ Resume(a) \in Tasks
    /\ \A a \in Agents : /\ Pump(a)[1] = "pump" /\ Pump(a)[2] = a
                         /\ Resume(a)[1] = "resume" /\ Resume(a)[2] = a
    /\ \A a, b \in Agents : Pump(a) # Resume(b)
    /\ \A w \in Tasks : /\ w[2] \in Agents
                        /\ w[1] = "pump" => w = Pump(w[2])
                        /\ w[1] = "resume" => w = Resume(w[2])
                        /\ w[1] \in {"pump", "resume"}
BY DEF Tasks, Pump, Resume

-----------------------------------------------------------------------------
(* Types.                                                                    *)
LEMMA ReadsStep == TypeOK /\ TaskInv /\ [Next]_vars => ReadsOK'
<1> SUFFICES ASSUME TypeOK, TaskInv, [Next]_vars PROVE ReadsOK'
  OBVIOUS
<1> DEFINE R == [job : BOOLEAN, lane : Agents \cup {Nobody}, turn : Turns \cup {Nobody},
                 as : Ended \cup Live \cup {"none"}]
<1>a. reads \in [Tasks -> R]
  BY DEF TypeOK, ReadsOK
<1>b. NoRead \in R
  BY DEF NoRead
<1>c. ASSUME NEW r \in R PROVE JobRead(r) \in R
  <2> DEFINE open == jobStatus \in {"queued", "started"}
  <2>1. open \in BOOLEAN
    OBVIOUS
  <2>2. JobRead(r) = [r EXCEPT !.job = open, !.lane = jobAgent]
    BY Zenon DEF JobRead
  <2> HIDE DEF open
  <2> QED
    BY <1>c, <2>1, <2>2 DEF TypeOK
<1>d. ASSUME NEW r \in R, NEW t \in Turns PROVE TurnRead(r, t) \in R
  BY <1>d DEF TurnRead, TypeOK
<1> HIDE DEF R
<1>1. CASE UNCHANGED reads
  BY <1>a, <1>1 DEF ReadsOK, R
<1>2. ASSUME NEW w \in Tasks, reads' = [reads EXCEPT ![w] = NoRead] PROVE ReadsOK'
  <2>1. reads' \in [Tasks -> R]
    BY <1>a, <1>b, <1>2
  <2> QED
    BY <2>1 DEF ReadsOK, R
<1>3. ASSUME NEW w \in Tasks, FailReads(w) PROVE ReadsOK'
  <2>1. taskTurn[w] \in Turns
    BY <1>3 DEF FailReads, TaskInv, TaskOK, Active
  <2>2. (IF w[1] = "resume" THEN TurnRead(NoRead, taskTurn[w]) ELSE JobRead(NoRead)) \in R
    BY <1>b, <1>c, <1>d, <2>1
  <2>3. reads' \in [Tasks -> R]
    BY <1>a, <1>3, <2>2 DEF FailReads
  <2> QED
    BY <2>3 DEF ReadsOK, R
<1>4. ASSUME NEW w \in Tasks, FailLooks(w) PROVE ReadsOK'
  <2> DEFINE mine == {t \in With(Open) : turnAgent[t] = reads[w].lane}
  <2>1. mine \subseteq Turns
    BY DEF With
  <2>2. mine # {} => First(mine) \in Turns
    <3> HIDE DEF mine
    <3> QED
      BY <2>1, FirstIn
  <2>3. reads[w] \in R
    BY <1>a
  <2> HIDE DEF mine
  <2>4. (IF w[1] = "resume" THEN JobRead(reads[w])
         ELSE IF mine = {} THEN reads[w] ELSE TurnRead(reads[w], First(mine))) \in R
    BY <1>c, <1>d, <2>2, <2>3
  <2>5. reads' \in [Tasks -> R]
    BY <1>a, <1>4, <2>4 DEF FailLooks, mine
  <2> QED
    BY <2>5 DEF ReadsOK, R
<1>5. CASE Crash
  <2>1. reads' \in [Tasks -> R]
    BY <1>b, <1>5 DEF Crash
  <2> QED
    BY <2>1 DEF ReadsOK, R
<1>6. ASSUME NEW w \in Tasks, Unwind(w) PROVE ReadsOK'
  BY <1>1, <1>2, <1>6 DEF Unwind, Gone
<1>7. ASSUME NEW a \in Agents,
             \/ \E k \in Kinds : Enqueue(k, a)
             \/ Attach(a) \/ PumpSelect(a) \/ PumpClaim(a) \/ PumpPromote(a) \/ ResumeClaim(a)
      PROVE  ReadsOK'
  BY <1>1, <1>7 DEF Enqueue, Attach, PumpSelect, PumpClaim, PumpPromote, ResumeClaim, tasks
<1>8. ASSUME NEW c \in Callers,
             \/ \E t \in Turns : CallTurn(c, t)
             \/ \E a \in Agents : CallLane(c, a) \/ CallMove(c, a)
             \/ CallLocks(c) \/ CallStep(c)
      PROVE  ReadsOK'
  BY <1>1, <1>8 DEF CallTurn, CallLane, CallMove, CallLocks, CallStep, CancelReads,
     CancelInterrupts, CancelAwaits, CancelFinds, CancelPersists, LaneMarks, Park, tasks
<1>9. ASSUME NEW w \in Tasks,
             \/ \E how \in Outcomes : DriveEnds(w, how)
             \/ Persist(w) \/ Interrupted(w) \/ Dies(w) \/ FailWrites(w)
      PROVE  ReadsOK'
  BY <1>1, <1>2, <1>9 DEF DriveEnds, Persist, Interrupted, Dies, FailWrites, Gone
<1>10. ASSUME NEW t \in Turns, Answer(t) \/ StartResume(t) PROVE ReadsOK'
  BY <1>1, <1>10 DEF Answer, StartResume, tasks
<1>11. CASE UNCHANGED vars
  BY <1>1, <1>11 DEF vars, tasks
<1> QED
  BY <1>3, <1>4, <1>5, <1>6, <1>7, <1>8, <1>9, <1>10, <1>11 DEF Next, TaskStep, Rest

LEMMA TypeStep == IInv /\ [Next]_vars => TypeOK'
<1> SUFFICES ASSUME IInv, [Next]_vars PROVE TypeOK'
  OBVIOUS
<1>a. TypeOK
  BY DEF IInv
<1>b. \A w \in Tasks : pc[w] \in Active \cup {"lock"} => taskTurn[w] \in Turns
  BY DEF IInv, TaskInv, TaskOK, PromoteInv
<1>c. \A c \in Callers : /\ cPc[c] \in Cancels => cTurn[c] \in Turns
                         /\ cMode[c] \in {"lane", "move"} => cAgent[c] \in Agents
                         /\ cPc[c] = "lock" /\ cMode[c] = "turn" => cTurn[c] \in Turns
                         /\ cPc[c] = "lock" => cMode[c] \in {"turn", "lane", "move"}
                         /\ cPc[c] = "park" => cMode[c] = "move"
  BY TurnLifeAssumption DEF IInv, CallInv, CallOK, Used
<1>e. \A c \in Callers : cPc[c] \in {"interrupt", "await"} => cTask[c] \in Tasks
  BY DEF IInv, CallInv, CallOK
<1>r. ReadsOK'
  BY ReadsStep DEF IInv
<1> USE <1>a, <1>r, TurnLifeAssumption, TaskNames
        DEF TypeOK, rows, watch, tasks, delivery, calls, Ended, Live, Open
<1>d. With({"none"}) \subseteq Turns /\ With({"queued"}) \subseteq Turns
  BY DEF With
<1>1. ASSUME NEW a \in Agents, NEW k \in Kinds, Enqueue(k, a) PROVE TypeOK'
  BY <1>1 DEF Enqueue
<1>2. ASSUME NEW a \in Agents, Attach(a) PROVE TypeOK'
  BY <1>2, <1>d, FirstIn DEF Attach, Unused
<1>3. ASSUME NEW a \in Agents, PumpSelect(a) PROVE TypeOK'
  BY <1>3 DEF PumpSelect
<1>4. ASSUME NEW a \in Agents, PumpClaim(a) PROVE TypeOK'
  <2>1. CASE jobStatus = "queued" /\ jobAgent = a
    BY <1>4, <2>1 DEF PumpClaim
  <2>2. CASE ~(jobStatus = "queued" /\ jobAgent = a)
    BY <1>4, <2>2 DEF PumpClaim
  <2> QED
    BY <2>1, <2>2
<1>5. ASSUME NEW a \in Agents, PumpPromote(a) PROVE TypeOK'
  <2> DEFINE S == IF With({"queued"}) # {} THEN With({"queued"}) ELSE Unused
  <2>1. S # {} /\ S \subseteq Turns
    BY <1>5 DEF PumpPromote, With, Unused
  <2>2. First(S) \in Turns
    BY <2>1, FirstIn
  <2> HIDE DEF S
  <2> QED
    BY <1>5, <2>2 DEF PumpPromote, S
<1>6. ASSUME NEW t \in Turns, Answer(t) PROVE TypeOK'
  BY <1>6 DEF Answer
<1>7. ASSUME NEW t \in Turns, StartResume(t) PROVE TypeOK'
  BY <1>7 DEF StartResume
<1>8. ASSUME NEW a \in Agents, ResumeClaim(a) PROVE TypeOK'
  BY <1>8, <1>b DEF ResumeClaim
<1>9. ASSUME NEW w \in Tasks, NEW how \in Outcomes, DriveEnds(w, how) PROVE TypeOK'
  BY <1>9 DEF DriveEnds
<1>10. ASSUME NEW w \in Tasks, Persist(w) PROVE TypeOK'
  <2>1. taskTurn[w] \in Turns
    BY <1>10, <1>b DEF Persist, Active, OnBoard
  <2> QED
    BY <1>10, <2>1 DEF Persist, EndTurn
<1>11. ASSUME NEW w \in Tasks, Unwind(w) PROVE TypeOK'
  <2>1. taskTurn[w] \in Turns
    BY <1>11, <1>b DEF Unwind, Active, OnBoard
  <2> QED
    BY SMTT(30), <1>11, <2>1 DEF Unwind, Gone
<1>12. ASSUME NEW w \in Tasks, FailWrites(w) PROVE TypeOK'
  <2>1. /\ pc' = [pc EXCEPT ![w] = "off"] /\ Gone(w)
        /\ UNCHANGED <<jobAgent, turnAgent, answered, jobLock, cancelling, watch, calling,
                       delivery, calls, crashes>>
    BY <1>12 DEF FailWrites
  <2>2. /\ jobStatus' \in Ended \cup {"none", "asked", "queued", "started"}
        /\ turnStatus' \in [Turns -> Ended \cup Live \cup {"none"}]
        /\ msgs' \subseteq Turns /\ checkpoint' \subseteq Turns
    <3>1. reads[w].as \in Open => reads[w].turn \in Turns
      BY <1>12, <1>b DEF FailWrites, Active, Recording, IInv, RecordInv, RecordOK
    <3> QED
      BY <1>12, <3>1 DEF FailWrites
  <2> QED
    BY <2>1, <2>2 DEF Gone, NoRead
<1>13. ASSUME NEW w \in Tasks, Interrupted(w) PROVE TypeOK'
  BY <1>13 DEF Interrupted
<1>14. ASSUME NEW w \in Tasks, Dies(w) PROVE TypeOK'
  <2>1. taskTurn[w] \in Turns
    BY <1>14, <1>b DEF Dies, Active, OnBoard
  <2>2. board' \in [Turns -> Tasks \cup {Nobody}] /\ flagged' \subseteq Turns
    <3>1. CASE board' = [board EXCEPT ![taskTurn[w]] = Nobody] /\ flagged' = flagged \ {taskTurn[w]}
      BY <3>1
    <3>2. CASE UNCHANGED watch
      BY <3>2
    <3> QED
      BY <1>14, <3>1, <3>2 DEF Dies
  <2>3. /\ pc' = [pc EXCEPT ![w] = "off"] /\ Gone(w)
        /\ UNCHANGED <<rows, jobLock, cancelling, calling, delivery, calls, crashes>>
    BY <1>14 DEF Dies
  <2> QED
    BY <2>2, <2>3 DEF Gone
<1>15. ASSUME NEW c \in Callers, NEW t \in Turns, CallTurn(c, t) PROVE TypeOK'
  BY <1>15 DEF CallTurn
<1>16. ASSUME NEW c \in Callers, NEW a \in Agents, CallLane(c, a) PROVE TypeOK'
  BY <1>16 DEF CallLane
<1>17. ASSUME NEW c \in Callers, NEW a \in Agents, CallMove(c, a) PROVE TypeOK'
  BY <1>17 DEF CallMove
<1>18. ASSUME NEW c \in Callers, CallLocks(c) PROVE TypeOK'
  <2> DEFINE a == cAgent[c]
             found == CASE cMode[c] = "turn" -> {cTurn[c]}
                        [] cMode[c] = "lane" -> {t \in With(Live) : turnAgent[t] = a}
                        [] cMode[c] = "move" -> With(Open)
  <2>1. cPc[c] = "lock"
    BY <1>18 DEF CallLocks
  <2>2. found \subseteq Turns
    BY <1>c, <2>1 DEF With
  <2>3. (IF found = {} THEN Nobody ELSE First(found)) \in Turns \cup {Nobody}
    <3> HIDE DEF found
    <3> QED
      BY <2>2, FirstIn
  <2>4. UNCHANGED <<rows, watch, tasks, calling, delivery, cMode, cAgent, crashes>>
    BY <1>18 DEF CallLocks
  <2>5. CASE Returns(c) /\ cancelling' = IF cMode[c] = "lane" THEN {} ELSE cancelling
    BY <2>4, <2>5 DEF Returns
  <2>6. CASE /\ jobLock' = c
             /\ cPc' = [cPc EXCEPT ![c] = CASE found # {} -> "status"
                                            [] found = {} /\ cMode[c] = "lane" -> "mark"
                                            [] OTHER -> "park"]
             /\ cTurn' = [cTurn EXCEPT ![c] = IF found = {} THEN Nobody ELSE First(found)]
             /\ UNCHANGED <<cTask, cancelling>>
    <3> HIDE DEF found
    <3> QED
      BY <2>3, <2>4, <2>6
  <2> HIDE DEF TypeOK
  <2> QED
    BY <1>18, <2>5, <2>6 DEF CallLocks
<1>19. ASSUME NEW c \in Callers, CancelReads(c) PROVE TypeOK'
  <2>1. cTurn[c] \in Turns
    BY <1>19, <1>c DEF CancelReads, Cancels
  <2>2. UNCHANGED <<rows, cancelling, board, tasks, calling, delivery, cMode, cAgent, crashes>>
    BY <1>19 DEF CancelReads
  <2>3. CASE AfterCancel(c, turnStatus[cTurn[c]]) /\ UNCHANGED flagged
    <3>1. CASE Returns(c)
      BY <2>2, <2>3, <3>1 DEF Returns
    <3>2. CASE ~Returns(c)
      BY <2>2, <2>3, <3>2 DEF AfterCancel
    <3> QED
      BY <3>1, <3>2
  <2>4. CASE ~(turnStatus[cTurn[c]] \in Ended)
    BY <1>19, <2>1, <2>4 DEF CancelReads
  <2> QED
    BY <1>19, <2>3, <2>4 DEF CancelReads
<1>20. ASSUME NEW c \in Callers, CancelInterrupts(c) PROVE TypeOK'
  <2> DEFINE found == board[cTurn[c]] = cTask[c] /\ taskTurn[cTask[c]] = cTurn[c]
  <2>1. UNCHANGED <<rows, jobLock, cancelling, watch, pc, taskTurn, out, calling, delivery,
                    cMode, cTurn, cTask, cAgent, crashes>>
    BY <1>20 DEF CancelInterrupts
  <2>2. CASE found
    <3>1. cTask[c] \in Tasks
      BY <1>20, <1>e DEF CancelInterrupts
    <3>2. hit' = hit \cup {cTask[c]} /\ cPc' = [cPc EXCEPT ![c] = "await"]
      BY <1>20, <2>2 DEF CancelInterrupts
    <3>3. hit' \subseteq Tasks
      BY <3>1, <3>2
    <3> QED
      BY <2>1, <3>2, <3>3
  <2>3. CASE ~found
    BY <1>20, <2>1, <2>3 DEF CancelInterrupts
  <2> QED
    BY <2>2, <2>3
<1>21. ASSUME NEW c \in Callers, CancelAwaits(c) PROVE TypeOK'
  BY <1>21 DEF CancelAwaits
<1>22. ASSUME NEW c \in Callers, CancelPersists(c) PROVE TypeOK'
  <2>1. cTurn[c] \in Turns
    BY <1>22, <1>c DEF CancelPersists, Cancels
  <2>2. AfterCancel(c, "cancelled")
        /\ UNCHANGED <<cancelling, watch, tasks, calling, delivery, cMode, cAgent, crashes>>
    BY <1>22 DEF CancelPersists
  <2>3. /\ cPc' \in [Callers -> {"off", "lock", "status", "interrupt", "await", "persist",
                                 "write", "mark", "park", "end"}]
        /\ cTurn' \in [Callers -> Turns \cup {Nobody}]
        /\ cTask' \in [Callers -> Tasks \cup {Nobody}]
        /\ jobLock' \in Agents \cup Callers \cup {"delivery", Nobody}
    <3>1. CASE Returns(c)
      BY <3>1 DEF Returns
    <3>2. CASE ~Returns(c)
      BY <2>2, <3>2 DEF AfterCancel
    <3> QED
      BY <3>1, <3>2
  <2>4. /\ jobStatus' \in Ended \cup {"none", "asked", "queued", "started"}
        /\ jobAgent' \in Agents \cup {Nobody}
        /\ turnStatus' \in [Turns -> Ended \cup Live \cup {"none"}]
        /\ turnAgent' \in [Turns -> Agents \cup {Nobody}]
        /\ msgs' \subseteq Turns /\ checkpoint' \subseteq Turns /\ answered' \subseteq Turns
    BY <1>22, <2>1 DEF CancelPersists, EndTurn
  <2> QED
    BY <2>2, <2>3, <2>4
<1>23. ASSUME NEW c \in Callers, LaneMarks(c) PROVE TypeOK'
  BY <1>23 DEF LaneMarks, Returns
<1>24. ASSUME NEW c \in Callers, Park(c) PROVE TypeOK'
  <2> DEFINE b == cAgent[c]
             moved == {t \in With({"queued"}) : turnAgent[t] = jobAgent}
             old == {t \in With({"cancelled"}) \cap msgs : turnAgent[t] = jobAgent}
             new == IF old = {} THEN {} ELSE {First(Unused)}
  <2>1. /\ Returns(c)
        /\ UNCHANGED <<cancelling, watch, tasks, calling, delivery, cMode, cAgent, crashes>>
    BY <1>24 DEF Park
  <2>2. CASE UNCHANGED rows
    BY <2>1, <2>2 DEF Returns
  <2>3. CASE /\ old # {} => Unused # {}
             /\ jobStatus' = "queued" /\ jobAgent' = b
             /\ turnStatus' = [t \in Turns |-> IF t \in new THEN "queued" ELSE turnStatus[t]]
             /\ turnAgent' = [t \in Turns |-> IF t \in moved \cup new THEN b
                                              ELSE turnAgent[t]]
             /\ msgs' = (msgs \ old) \cup new
             /\ UNCHANGED <<checkpoint, answered>>
    <3>1. new \subseteq Turns
      BY <1>d, <2>3, FirstIn DEF Unused
    <3>2. b \in Agents
      BY <1>24, <1>c DEF Park
    <3> HIDE DEF new, old, moved, b
    <3> QED
      BY <2>1, <2>3, <3>1, <3>2 DEF Returns
  <2> HIDE DEF TypeOK
  <2> QED
    BY <1>24, <2>2, <2>3 DEF Park
<1>25. CASE Crash
  <2> DEFINE ready == {t \in With(Open) \cap checkpoint \cap answered :
                        With({"waiting"}) \subseteq answered}
             failed == With({"running", "failed"})
             kept == RetryMoves(failed)
             new == IF kept = {} THEN {} ELSE {First(Unused)}
             resumed(w) == {t \in ready : w = Resume(turnAgent[t]) /\ jobStatus = "started"}
  <2>1. /\ jobStatus' \in Ended \cup {"none", "asked", "queued", "started"}
        /\ turnStatus' \in [Turns -> Ended \cup Live \cup {"none"}]
        /\ turnAgent' \in [Turns -> Agents \cup {Nobody}]
        /\ msgs' \subseteq Turns
    <3>1. CASE UNCHANGED <<turnStatus, turnAgent, msgs>>
      BY <1>25, <3>1 DEF Crash
    <3>2. CASE /\ kept # {} => Unused # {}
               /\ jobStatus' = "queued"
               /\ turnStatus' = [t \in Turns |->
                     CASE t \in failed -> "failed" [] t \in new -> "queued"
                       [] OTHER -> turnStatus[t]]
               /\ turnAgent' = [t \in Turns |-> IF t \in new THEN turnAgent[LastTurn(failed)]
                                                ELSE turnAgent[t]]
               /\ msgs' = (msgs \ kept) \cup new
      <4>1. new \subseteq Turns
        BY <1>d, <3>2, FirstIn DEF Unused
      <4>2. new # {} => turnAgent[LastTurn(failed)] \in Agents \cup {Nobody}
        <5>1. failed \subseteq Turns
          BY DEF With
        <5>2. kept # {} => failed # {}
          BY DEF RetryMoves
        <5> HIDE DEF failed
        <5> QED
          BY <5>1, <5>2, LastIn
      <4> HIDE DEF new, failed, kept
      <4>3. \A t \in Turns : turnAgent'[t] \in Agents \cup {Nobody}
        BY <3>2, <4>2
      <4> QED
        BY <3>2, <4>1, <4>2, <4>3
    <3> QED
      BY <1>25, <3>1, <3>2 DEF Crash
  <2>2. taskTurn' \in [Tasks -> Turns \cup {Nobody}]
    <3>1. \A w \in Tasks : resumed(w) # {} => First(resumed(w)) \in Turns
      <4> SUFFICES ASSUME NEW w \in Tasks, resumed(w) # {} PROVE First(resumed(w)) \in Turns
        OBVIOUS
      <4>1. resumed(w) \subseteq Turns
        BY DEF With
      <4> HIDE DEF resumed
      <4> QED
        BY <4>1, FirstIn
    <3>2. taskTurn' = [w \in Tasks |-> IF resumed(w) # {} THEN First(resumed(w)) ELSE Nobody]
      BY <1>25 DEF Crash
    <3> HIDE DEF resumed
    <3> QED
      BY <3>1, <3>2
  <2>3. pc' \in [Tasks -> {"off", "lock", "claim", "promote", "drive", "persist",
                          "unwind", "fail"}]
    <3>1. pc' = [w \in Tasks |-> IF resumed(w) # {} THEN "lock" ELSE "off"]
      BY <1>25 DEF Crash
    <3> HIDE DEF resumed
    <3> QED
      BY <3>1
  <2>4. /\ out' = [w \in Tasks |-> "none"] /\ hit' = {} /\ calling' = {}
        /\ jobLock' = Nobody /\ cancelling' = {}
        /\ board' = [t \in Turns |-> Nobody] /\ flagged' = {}
        /\ dPc' = IF dPc = "attach" THEN "end" ELSE dPc
        /\ cPc' = [c \in Callers |-> IF cPc[c] = "off" THEN "off" ELSE "end"]
        /\ cTurn' = [c \in Callers |-> Nobody] /\ cTask' = [c \in Callers |-> Nobody]
        /\ UNCHANGED <<jobAgent, checkpoint, answered, dKind, cMode, cAgent>>
        /\ crashes' = crashes + 1
    BY <1>25 DEF Crash
  <2> HIDE DEF ready, failed, kept, new, resumed
  <2> QED
    BY <2>1, <2>2, <2>3, <2>4
<1>26. CASE UNCHANGED vars
  BY <1>26 DEF vars
<1>27. ASSUME NEW w \in Tasks, FailReads(w) PROVE TypeOK'
  BY <1>27 DEF FailReads
<1>28. ASSUME NEW w \in Tasks, FailLooks(w) PROVE TypeOK'
  BY <1>28 DEF FailLooks
<1>29. ASSUME NEW c \in Callers, CancelFinds(c) PROVE TypeOK'
  BY <1>29 DEF CancelFinds, AfterCancel, Returns
<1> QED
  BY <1>1, <1>2, <1>3, <1>4, <1>5, <1>6, <1>7, <1>8, <1>9, <1>10, <1>11, <1>12, <1>13, <1>14,
     <1>15, <1>16, <1>17, <1>18, <1>19, <1>20, <1>21, <1>22, <1>23, <1>24, <1>25, <1>26,
     <1>27, <1>28, <1>29
  DEF Next, TaskStep, CallStep, Rest

-----------------------------------------------------------------------------
(* The job lock.                                                             *)
LEMMA LockStep == Calm /\ IInv /\ [Next]_vars => LockInv'
<1> SUFFICES ASSUME Calm, IInv, [Next]_vars PROVE LockInv'
  OBVIOUS
<1>a. TypeOK /\ LockInv
  BY DEF IInv
<1>b. dPc = "new" => msgs = {} /\ With(Open) = {} /\ calling = {} /\ jobStatus = "none"
                     /\ \A t \in Turns : turnStatus[t] = "none"
  <2> SUFFICES ASSUME dPc = "new"
               PROVE msgs = {} /\ With(Open) = {} /\ calling = {} /\ jobStatus = "none"
                     /\ \A t \in Turns : turnStatus[t] = "none"
    OBVIOUS
  <2>1. \A t \in Turns : turnStatus[t] = "none"
    BY DEF IInv, RowInv, Used, Unused, With
  <2> QED
    BY <2>1 DEF IInv, TypeOK, RowInv, MessageInv, TaskInv, TaskOK, PromoteInv, Begun, Open, Ended, Used, Unused, With
<1> USE <1>a, <1>b, TurnLifeAssumption, TaskNames
        DEF LockInv, TypeOK, Locked, rows, watch, tasks, delivery, calls
<1>1. ASSUME NEW a \in Agents, NEW k \in Kinds, Enqueue(k, a) PROVE LockInv'
  BY <1>1 DEF Enqueue, Calm
<1>2. ASSUME NEW a \in Agents, Attach(a) PROVE LockInv'
  BY <1>2 DEF Attach
<1>3. ASSUME NEW a \in Agents, PumpSelect(a) PROVE LockInv'
  BY <1>3 DEF PumpSelect
<1>4. ASSUME NEW a \in Agents, PumpClaim(a) PROVE LockInv'
  BY <1>4 DEF PumpClaim
<1>5. ASSUME NEW a \in Agents, PumpPromote(a) PROVE LockInv'
  BY <1>5 DEF PumpPromote
<1>6. ASSUME NEW t \in Turns, Answer(t) PROVE LockInv'
  BY <1>6 DEF Answer
<1>7. ASSUME NEW t \in Turns, StartResume(t) PROVE LockInv'
  BY <1>7 DEF StartResume
<1>8. ASSUME NEW a \in Agents, ResumeClaim(a) PROVE LockInv'
  BY <1>8 DEF ResumeClaim
<1>9. ASSUME NEW w \in Tasks, NEW how \in Outcomes, DriveEnds(w, how) PROVE LockInv'
  BY <1>9 DEF DriveEnds
<1>10. ASSUME NEW w \in Tasks, Persist(w) PROVE LockInv'
  BY <1>10 DEF Persist
<1>11. ASSUME NEW w \in Tasks, Unwind(w) PROVE LockInv'
  BY <1>11 DEF Unwind
<1>12. ASSUME NEW w \in Tasks, FailWrites(w) PROVE LockInv'
  BY <1>12 DEF FailWrites
<1>13. ASSUME NEW w \in Tasks, Interrupted(w) PROVE LockInv'
  BY <1>13 DEF Interrupted
<1>14. ASSUME NEW w \in Tasks, Dies(w) PROVE LockInv'
  BY <1>14 DEF Dies
<1>15. ASSUME NEW c \in Callers, NEW t \in Turns, CallTurn(c, t) PROVE LockInv'
  BY <1>15 DEF CallTurn
<1>16. ASSUME NEW c \in Callers, NEW a \in Agents, CallLane(c, a) PROVE LockInv'
  BY <1>16 DEF CallLane
<1>17. ASSUME NEW c \in Callers, NEW a \in Agents, CallMove(c, a) PROVE LockInv'
  BY <1>17 DEF CallMove
<1>18. ASSUME NEW c \in Callers, CallLocks(c) PROVE LockInv'
  BY <1>18 DEF CallLocks, Returns
<1>19. ASSUME NEW c \in Callers, CancelReads(c) PROVE LockInv'
  BY <1>19 DEF CancelReads, AfterCancel, Returns
<1>20. ASSUME NEW c \in Callers, CancelInterrupts(c) PROVE LockInv'
  BY <1>20 DEF CancelInterrupts
<1>21. ASSUME NEW c \in Callers, CancelAwaits(c) PROVE LockInv'
  BY <1>21 DEF CancelAwaits
<1>22. ASSUME NEW c \in Callers, CancelPersists(c) PROVE LockInv'
  BY <1>22 DEF CancelPersists, AfterCancel, Returns
<1>23. ASSUME NEW c \in Callers, LaneMarks(c) PROVE LockInv'
  BY <1>23 DEF LaneMarks, Returns
<1>24. ASSUME NEW c \in Callers, Park(c) PROVE LockInv'
  BY <1>24 DEF Park, Returns
<1>25. CASE Crash
  BY <1>25 DEF Crash
<1>26. CASE UNCHANGED vars
  BY <1>26 DEF vars
<1>27. ASSUME NEW w \in Tasks, FailReads(w) PROVE LockInv'
  BY <1>27 DEF FailReads
<1>28. ASSUME NEW w \in Tasks, FailLooks(w) PROVE LockInv'
  BY <1>28 DEF FailLooks
<1>29. ASSUME NEW c \in Callers, CancelFinds(c) PROVE LockInv'
  BY <1>29 DEF CancelFinds, AfterCancel, Returns
<1> QED
  BY <1>1, <1>2, <1>3, <1>4, <1>5, <1>6, <1>7, <1>8, <1>9, <1>10, <1>11, <1>12, <1>13, <1>14,
     <1>15, <1>16, <1>17, <1>18, <1>19, <1>20, <1>21, <1>22, <1>23, <1>24, <1>25, <1>26,
     <1>27, <1>28, <1>29
  DEF Next, TaskStep, CallStep, Rest

-----------------------------------------------------------------------------
(* What the actions with several outcomes do to the rows. A drive, a failure *)
(* record or a cancel ends the live turn with its job, or amends how they     *)
(* ended; a move or a restart queues the job again, with a fresh turn if      *)
(* there is a message to hand on.                                            *)
jobRows == <<jobStatus, jobAgent, turnStatus, turnAgent, msgs>>

Ends(t, s) ==
    /\ t \in With(Live) /\ s \in Ended
    /\ turnStatus' = [turnStatus EXCEPT ![t] = s] /\ jobStatus' = s
    /\ msgs' = msgs \/ msgs' = msgs \cup {t}
    /\ UNCHANGED <<jobAgent, turnAgent>>

Amends(t, s) ==
    /\ t \in Used /\ turnStatus[t] \in Stopped /\ \A u \in Used : u <= t
    /\ s \in Stopped /\ jobStatus \in Stopped /\ jobStatus' \in Stopped
    /\ turnStatus' = turnStatus \/ turnStatus' = [turnStatus EXCEPT ![t] = s]
    /\ msgs' = msgs \/ msgs' = msgs \cup {t}
    /\ UNCHANGED <<jobAgent, turnAgent>>

Pauses(t) ==
    /\ turnStatus[t] = "running"
    /\ turnStatus' = [turnStatus EXCEPT ![t] = "waiting"]
    /\ msgs' = msgs \cup {t}
    /\ UNCHANGED <<jobStatus, jobAgent, turnAgent>>

Lapsed == [t \in Turns |-> IF turnStatus[t] = "running" THEN "failed" ELSE turnStatus[t]]

Restarts ==
    /\ jobStatus = "started" /\ jobStatus' = "queued"
    /\ turnStatus' = Lapsed /\ msgs \cap With({"running"}) = {} /\ With({"waiting"}) = {}
    /\ UNCHANGED <<jobAgent, turnAgent, msgs>>

Gives(n, a) ==
    /\ n \in Unused /\ \A u \in Unused : n <= u
    /\ With(Live) \subseteq With({"running"})
    /\ jobStatus' = "queued" /\ jobAgent' = a
    /\ turnStatus' = [Lapsed EXCEPT ![n] = "queued"]
    /\ turnAgent' = [turnAgent EXCEPT ![n] = a]
    /\ msgs' = {n}

Moves(a) ==
    /\ jobStatus \notin {"done", "failed"}
    /\ jobStatus = "cancelled" => msgs = {}
    /\ jobStatus' = "queued" /\ jobAgent' = a
    /\ turnAgent' = [t \in Turns |-> IF t \in With(Live) THEN a ELSE turnAgent[t]]
    /\ UNCHANGED <<turnStatus, msgs>>

LEMMA PersistRows ==
    ASSUME IInv, NEW w \in Tasks, Persist(w)
    PROVE  \/ UNCHANGED jobRows
           \/ Pauses(taskTurn[w])
           \/ Ends(taskTurn[w], "done") \/ Ends(taskTurn[w], "cancelled")
<1>1. taskTurn[w] \in Turns /\ turnStatus[taskTurn[w]] \in {"running", "cancelled"}
  BY DEF IInv, TaskInv, TaskOK, PromoteInv, Persist, Active, OnBoard
<1>2. CASE turnStatus[taskTurn[w]] = "cancelled"
  BY <1>2 DEF Persist, rows, jobRows
<1>3. CASE turnStatus[taskTurn[w]] = "running"
  <2>1. taskTurn[w] \in With(Live)
    BY <1>1, <1>3 DEF With, Live, Open
  <2>2. CASE out[w] = "waiting"
    BY <1>3, <2>2 DEF Persist, Pauses
  <2>3. CASE out[w] = "done"
    BY <1>3, <2>1, <2>3 DEF Persist, EndTurn, Ends, Ended
  <2>4. CASE out[w] \notin {"waiting", "done"}
    BY <1>3, <2>1, <2>4 DEF Persist, EndTurn, Ends, Ended
  <2> QED
    BY <2>2, <2>3, <2>4
<1> QED
  BY <1>1, <1>2, <1>3

LEMMA CancelRows ==
    ASSUME IInv, NEW c \in Callers, CancelPersists(c)
    PROVE  \/ Ends(cTurn[c], "cancelled")
           \/ "move" \notin Modes /\ Amends(cTurn[c], "cancelled")
<1>1. /\ cTurn[c] \in Turns /\ cTurn[c] \in Used /\ TypeOK
      /\ turnStatus[cTurn[c]] \in Live \cup {"failed"}
      /\ \A u \in Used : u <= cTurn[c]
      /\ turnStatus[cTurn[c]] = "failed" => "move" \notin Modes /\ jobStatus \in Stopped
  BY DEF IInv, CallInv, CallOK, WriteInv, WriteOK, CancelPersists, Cancels, Used
<1>2. /\ turnStatus' = [turnStatus EXCEPT ![cTurn[c]] = "cancelled"]
      /\ jobStatus' = "cancelled" /\ UNCHANGED <<jobAgent, turnAgent>>
      /\ msgs' = msgs \/ msgs' = msgs \cup {cTurn[c]}
  BY DEF CancelPersists
<1>3. CASE turnStatus[cTurn[c]] \in Live
  BY <1>1, <1>2, <1>3 DEF Ends, With, Ended
<1>4. CASE turnStatus[cTurn[c]] = "failed"
  BY <1>1, <1>2, <1>4 DEF Amends, Stopped
<1> QED
  BY <1>1, <1>3, <1>4

LEMMA FailRows ==
    ASSUME Calm, IInv, NEW w \in Tasks, FailWrites(w)
    PROVE  /\ "move" \notin Modes
           /\ \/ UNCHANGED jobRows
              \/ Ends(taskTurn[w], "failed")
              \/ Amends(taskTurn[w], "failed")
<1> DEFINE t == taskTurn[w]
           r == reads[w]
           left == \/ r.as \in Ended
                   \/ r.as = "waiting" /\ r.turn \notin answered /\ turnStatus[r.turn] \notin Ended
<1>1. pc[w] = "record" /\ pc[w] \in Active /\ pc[w] \in Recording /\ TypeOK
  BY DEF FailWrites, Active, Recording, IInv
<1>2. t \in Turns /\ turnStatus[t] \in Begun /\ turnAgent[t] = w[2] /\ "move" \notin Modes
  BY <1>1 DEF IInv, TaskInv, TaskOK, Calm
<1>3. /\ turnStatus[t] \in Ended => jobStatus \in Ended
      /\ jobStatus = "done" => turnStatus[t] = "done"
      /\ \A u \in Used : u <= t
  BY <1>1, <1>2 DEF IInv, StayInv
<1>4. /\ r.as \in Open => r.turn = t
      /\ r.as \in Open \/ r.job => turnStatus[t] \in Open \cup Stopped
      /\ ~r.job => turnStatus[t] \in Ended
      /\ r.as \notin Open => turnStatus[t] \in Ended
  BY <1>1 DEF IInv, RecordInv, RecordOK, Open
<1>5. /\ jobStatus' = IF ~left /\ r.job THEN "failed" ELSE jobStatus
      /\ IF ~left /\ r.as \in Open
         THEN turnStatus' = [turnStatus EXCEPT ![r.turn] = "failed"] /\ msgs' = msgs \cup {r.turn}
         ELSE UNCHANGED <<turnStatus, msgs>>
      /\ UNCHANGED <<jobAgent, turnAgent>>
  BY DEF FailWrites
<1>6. t \in Used
  BY <1>2 DEF Used, Unused, With, Begun, Open, Ended
<1> HIDE DEF left, r, t
<1>7. CASE left \/ (~r.job /\ r.as \notin Open)
  BY <1>2, <1>5, <1>7 DEF jobRows, t
<1>8. CASE ~left /\ (r.job \/ r.as \in Open) /\ turnStatus[t] \in Open
  <2>1. r.job /\ r.as \in Open
    BY <1>4, <1>8 DEF Open, Ended
  <2>2. t \in With(Live)
    BY <1>2, <1>8 DEF With, Live
  <2> QED
    BY <1>2, <1>4, <1>5, <1>8, <2>1, <2>2 DEF Ends, Ended, t
<1>9. CASE ~left /\ (r.job \/ r.as \in Open) /\ turnStatus[t] \notin Open
  <2>1. turnStatus[t] \in Stopped /\ turnStatus[t] \in Ended
    BY <1>4, <1>9 DEF Stopped, Ended
  <2>2. jobStatus \in Stopped
    BY <1>3, <2>1 DEF Stopped, Ended
  <2>3. turnStatus' = turnStatus \/ turnStatus' = [turnStatus EXCEPT ![t] = "failed"]
    BY <1>4, <1>5
  <2>4. msgs' = msgs \/ msgs' = msgs \cup {t}
    BY <1>4, <1>5
  <2>5. jobStatus' \in Stopped
    BY <1>5, <2>2 DEF Stopped
  <2> QED
    BY <1>2, <1>3, <1>5, <1>6, <2>1, <2>2, <2>3, <2>4, <2>5 DEF Amends, Stopped, t
<1> QED
  BY <1>7, <1>8, <1>9

LEMMA ParkRows ==
    ASSUME IInv, NEW c \in Callers, Park(c)
    PROVE  \/ UNCHANGED jobRows
           \/ Moves(cAgent[c])
           \/ /\ With({"running"}) = {} /\ jobStatus = "cancelled" /\ msgs # {}
              /\ \E n \in Turns : Gives(n, cAgent[c])
<1> DEFINE b == cAgent[c]
           moved == {t \in With({"queued"}) : turnAgent[t] = jobAgent}
           old == {t \in With({"cancelled"}) \cap msgs : turnAgent[t] = jobAgent}
           new == IF old = {} THEN {} ELSE {First(Unused)}
<1>1. CASE jobStatus \in {"done", "failed"}
  BY <1>1 DEF Park, rows, jobRows
<1>2. CASE jobStatus \notin {"done", "failed"}
  <2>1. /\ old # {} => Unused # {}
        /\ jobStatus' = "queued" /\ jobAgent' = b
        /\ turnStatus' = [t \in Turns |-> IF t \in new THEN "queued" ELSE turnStatus[t]]
        /\ turnAgent' = [t \in Turns |-> IF t \in moved \cup new THEN b ELSE turnAgent[t]]
        /\ msgs' = (msgs \ old) \cup new
    BY <1>2 DEF Park
  <2>2. TypeOK
    BY DEF IInv
  <2>3. With(Open) = {}
    BY DEF IInv, CallInv, CallOK, Park
  <2>4. With({"running"}) = {}
    BY <2>3 DEF With, Open
  <2>5. moved = With(Live)
    BY <2>3 DEF IInv, RowInv, With, Live, Open
  <2>6. jobStatus \in Undone \cup {"cancelled"}
    BY <1>2, <2>2 DEF IInv, TypeOK, RowInv, LockInv, Park, Undone, Ended
  <2>7. jobStatus = "cancelled" => msgs = old
    BY DEF IInv, MessageInv, CallInv, CallOK, Park
  <2>8. jobStatus \in Undone => old = {}
    BY DEF IInv, MessageInv, With, Live, Open
  <2>9. CASE old = {}
    <3>1. new = {}
      BY <2>9
    <3>2. turnStatus' = turnStatus /\ msgs' = msgs
      BY <2>1, <2>2, <2>9, <3>1 DEF TypeOK
    <3>3. turnAgent' = [t \in Turns |-> IF t \in With(Live) THEN b ELSE turnAgent[t]]
      BY <2>1, <2>5, <3>1
    <3> QED
      BY <1>2, <2>1, <2>7, <2>9, <3>2, <3>3 DEF Moves
  <2>10. CASE old # {}
    <3>1. jobStatus = "cancelled"
      BY <2>6, <2>8, <2>10
    <3>2. With(Live) = {}
      BY <3>1 DEF IInv, RowInv, Undone
    <3> DEFINE n == First(Unused)
    <3>3. Unused \subseteq Turns
      BY DEF Unused, With
    <3>4. n \in Unused /\ n \in Turns /\ \A u \in Unused : n <= u
      BY <2>1, <2>10, <3>3, FirstIn
    <3>5. new = {n}
      BY <2>10
    <3>6. Lapsed = turnStatus
      BY <2>2, <2>4 DEF Lapsed, TypeOK, With
    <3> HIDE DEF n, new, old, moved
    <3>7. turnStatus' = [turnStatus EXCEPT ![n] = "queued"]
      BY <2>1, <2>2, <3>4, <3>5 DEF TypeOK
    <3>8. turnAgent' = [turnAgent EXCEPT ![n] = b]
      BY <2>1, <2>2, <2>5, <3>2, <3>4, <3>5 DEF TypeOK
    <3>9. msgs' = {n}
      BY <2>1, <2>7, <3>1, <3>5
    <3> QED
      BY <2>1, <2>4, <2>7, <2>10, <3>1, <3>2, <3>4, <3>6, <3>7, <3>8, <3>9 DEF Gives
  <2> QED
    BY <2>9, <2>10
<1> QED
  BY <1>1, <1>2

LEMMA CrashRows ==
    ASSUME IInv, Crash
    PROVE  \/ UNCHANGED jobRows
           \/ /\ jobStatus = "started" /\ jobStatus' = "cancelled" /\ With(Live) = {}
              /\ UNCHANGED <<jobAgent, turnStatus, turnAgent, msgs>>
           \/ Restarts
           \/ jobStatus = "started" /\ msgs # {} /\ \E n \in Turns : Gives(n, jobAgent)
<1> DEFINE related == With(Ended \cup Live)
           ready == {t \in With(Open) \cap checkpoint \cap answered :
                       With({"waiting"}) \subseteq answered}
           over == related # {} /\ related = With({"cancelled"})
           retry == /\ jobStatus = "started" /\ ready = {} /\ With({"waiting"}) = {}
                    /\ ~over /\ checkpoint = {}
           failed == With({"running", "failed"})
           kept == RetryMoves(failed)
           new == IF kept = {} THEN {} ELSE {First(Unused)}
<1>0. TypeOK
  BY DEF IInv
<1>1. CASE ~retry
  <2>1. /\ jobStatus' = IF jobStatus = "started" /\ ready = {} /\ over
                        THEN "cancelled" ELSE jobStatus
        /\ UNCHANGED <<jobAgent, turnStatus, turnAgent, msgs>>
    BY <1>1 DEF Crash
  <2>2. over => With(Live) = {}
    BY DEF With, Ended, Live, Open
  <2> HIDE DEF over, ready
  <2> QED
    BY <2>1, <2>2 DEF jobRows
<1>2. CASE retry
  <2>1. /\ kept # {} => Unused # {}
        /\ jobStatus' = "queued"
        /\ turnStatus' = [t \in Turns |->
              CASE t \in failed -> "failed" [] t \in new -> "queued" [] OTHER -> turnStatus[t]]
        /\ turnAgent' = [t \in Turns |-> IF t \in new THEN turnAgent[LastTurn(failed)]
                                         ELSE turnAgent[t]]
        /\ msgs' = (msgs \ kept) \cup new
        /\ jobAgent' = jobAgent
    BY <1>2 DEF Crash
  <2>2. jobStatus = "started"
    BY <1>2
  <2>3. msgs \subseteq With(Live)
    BY <2>2 DEF IInv, MessageInv, Undone
  <2>4. kept = msgs \cap With({"running"})
    BY <2>3 DEF RetryMoves, With, Live, Open
  <2>5. CASE kept = {}
    <3>1. new = {}
      BY <2>5
    <3> HIDE DEF kept, new
    <3>2. \A t \in Turns : turnStatus'[t] = Lapsed[t]
      BY <2>1, <3>1, <1>0 DEF Lapsed, With, TypeOK
    <3>3. turnStatus' = Lapsed
      BY <2>1, <3>2 DEF Lapsed
    <3>4. turnAgent' = turnAgent /\ msgs' = msgs
      BY <2>1, <2>5, <3>1, <1>0 DEF TypeOK
    <3> QED
      BY <1>2, <2>1, <2>2, <2>4, <2>5, <3>3, <3>4 DEF Restarts
  <2>6. CASE kept # {}
    <3> DEFINE n == First(Unused)
    <3>1. Unused \subseteq Turns /\ failed \subseteq Turns
      BY DEF Unused, With
    <3>2. n \in Unused /\ n \in Turns /\ \A u \in Unused : n <= u
      BY <2>1, <2>6, <3>1, FirstIn
    <3>3. new = {n}
      BY <2>6
    <3>4. PICK r \in Turns : r \in msgs /\ turnStatus[r] = "running"
      BY <2>4, <2>6 DEF With
    <3>5. With(Live) = {r}
      BY <3>4 DEF IInv, RowInv, With, Live, Open
    <3>6. With(Live) \subseteq With({"running"})
      BY <3>4, <3>5 DEF With
    <3>7. msgs = kept
      BY <2>3, <2>4, <3>6
    <3>8. LastTurn(failed) = r
      <4>1. r \in failed
        BY <3>4 DEF With
      <4>2. LastTurn(failed) \in failed /\ \A u \in failed : u <= LastTurn(failed)
        BY <3>1, <4>1, LastIn
      <4>3. \A u \in failed : u <= r
        BY <3>4, <3>5 DEF IInv, RowInv, Used, Unused, With
      <4> DEFINE m == LastTurn(failed)
      <4>4. m \in Turns /\ r \in Turns /\ m <= r /\ r <= m
        BY <3>1, <4>1, <4>2, <4>3
      <4> HIDE DEF m
      <4>5. m = r
        BY <4>4, TurnLifeAssumption DEF Turns
      <4> QED
        BY <4>5 DEF m
    <3>9. turnAgent[r] = jobAgent
      BY <3>5 DEF IInv, RowInv
    <3>10. n \notin failed
      BY <3>2 DEF Unused, With
    <3> HIDE DEF n, new, kept
    <3>11. turnStatus' = [Lapsed EXCEPT ![n] = "queued"]
      <4>1. turnStatus' = [t \in Turns |-> IF t = n THEN "queued"
                             ELSE IF t \in failed THEN "failed" ELSE turnStatus[t]]
        BY <2>1, <3>3, <3>10
      <4>2. \A t \in Turns : t \in failed <=> turnStatus[t] \in {"running", "failed"}
        BY DEF With
      <4> HIDE DEF failed
      <4> QED
        BY <1>0, <3>2, <4>1, <4>2 DEF Lapsed, TypeOK
    <3>12. turnAgent' = [turnAgent EXCEPT ![n] = jobAgent]
      <4> HIDE DEF failed
      <4> QED
        BY <1>0, <2>1, <3>2, <3>3, <3>8, <3>9 DEF TypeOK
    <3>13. msgs' = {n}
      BY <2>1, <3>3, <3>7
    <3> QED
      BY <2>1, <2>2, <3>2, <3>4, <3>6, <3>11, <3>12, <3>13 DEF Gives
  <2> QED
    BY <2>5, <2>6
<1> QED
  BY <1>1, <1>2

-----------------------------------------------------------------------------
(* The rows. The least unused turn becomes the live one.                     *)
Enters(n) ==
    /\ n \in Unused /\ \A u \in Unused : n <= u
    /\ \A t \in Turns : turnStatus'[t] \in Live => t = n
    /\ \A t \in Turns : turnStatus'[t] = "none" <=> (turnStatus[t] = "none" /\ t # n)
    /\ turnAgent' = [turnAgent EXCEPT ![n] = jobAgent'] /\ jobAgent' \in Agents
    /\ jobStatus' \in Undone
    /\ turnStatus'[n] \in Open => jobStatus' = "started"
    /\ dPc' = "end"

LEMMA EntersRows ==
    ASSUME IInv, NEW n \in Turns, Enters(n) PROVE RowInv'
<1> USE TurnLifeAssumption DEF With, Live, Open, Ended, Used, Unused, Undone
<1>1. TypeOK /\ RowInv
  BY DEF IInv
<1>2. \A t, u \in Turns : turnStatus'[t] # "none" /\ turnStatus'[u] = "none" => t < u
  BY <1>1 DEF Enters, RowInv, Turns
<1>3. \A t \in Turns : turnStatus'[t] # "none" => t <= n
  BY <1>1 DEF Enters, RowInv, Turns
<1>4. \A t \in Turns : turnStatus'[t] # "none" => turnAgent'[t] \in Agents
  BY <1>1 DEF Enters, RowInv, TypeOK
<1>5. turnAgent'[n] = jobAgent'
  BY <1>1 DEF Enters, TypeOK
<1> QED
  BY <1>2, <1>3, <1>4, <1>5 DEF Enters, RowInv

LEMMA RowStep == Calm /\ IInv /\ [Next]_vars => RowInv'
<1> SUFFICES ASSUME Calm, IInv, [Next]_vars PROVE RowInv'
  OBVIOUS
<1>a. TypeOK /\ RowInv
  BY DEF IInv
<1>b. LockInv /\ TaskInv
  BY DEF IInv
<1>d. Unused \subseteq Turns /\ With({"queued"}) \subseteq Turns
  BY DEF With, Unused
<1> USE <1>a, TurnLifeAssumption, TaskNames
        DEF RowInv, TypeOK, rows, watch, tasks, delivery, calls, With, Live, Open, Ended,
            Used, Unused, Undone

<1>x. ASSUME NEW t \in Turns, NEW s \in Ended, Ends(t, s), UNCHANGED dPc PROVE RowInv'
  BY <1>x DEF Ends
<1>w. ASSUME NEW t \in Turns, NEW s, Amends(t, s), UNCHANGED dPc PROVE RowInv'
  <2>1. /\ turnStatus[t] \in Stopped /\ s \in Stopped
        /\ jobStatus \in Stopped /\ jobStatus' \in Stopped
        /\ UNCHANGED <<jobAgent, turnAgent>>
    BY <1>w DEF Amends
  <2>2. \A u \in Turns : turnStatus'[u] = turnStatus[u] \/ (u = t /\ turnStatus'[u] = s)
    BY <1>w DEF Amends
  <2> QED
    BY <1>w, <2>1, <2>2 DEF Stopped
<1>y. ASSUME UNCHANGED <<jobRows, dPc>> PROVE RowInv'
  BY <1>y DEF jobRows
<1>z. ASSUME NEW n \in Turns, NEW a \in Agents, Gives(n, a), dPc' = "end" PROVE RowInv'
  <2>1. /\ n \in Unused /\ \A u \in Unused : n <= u
        /\ jobStatus' \in Undone /\ jobAgent' = a
        /\ turnStatus' = [Lapsed EXCEPT ![n] = "queued"]
        /\ turnAgent' = [turnAgent EXCEPT ![n] = jobAgent']
        /\ \A t \in Turns : turnStatus[t] \in Live => turnStatus[t] = "running"
    BY <1>z DEF Gives
  <2>2. /\ \A t \in Turns : turnStatus'[t] \in Live => t = n
        /\ \A t \in Turns : turnStatus'[t] = "none" <=> turnStatus[t] = "none" /\ t # n
        /\ turnStatus'[n] \notin Open
    BY <2>1 DEF Lapsed
  <2> HIDE DEF RowInv, TypeOK, With, Unused, Live, Open, Undone, Ended
  <2>3. Enters(n)
    BY <1>z, <2>1, <2>2 DEF Enters
  <2> QED
    BY EntersRows, <2>3
<1>1. ASSUME NEW a \in Agents, NEW k \in Kinds, Enqueue(k, a) PROVE RowInv'
  BY <1>1 DEF Enqueue
<1>2. ASSUME NEW a \in Agents, Attach(a) PROVE RowInv'
  <2>1. dPc = "attach" /\ Unused # {} /\ Used = {} /\ a = jobAgent
    BY <1>2 DEF Attach
  <2> DEFINE n == First(Unused)
  <2>2. n \in Unused /\ n \in Turns /\ \A u \in Unused : n <= u
    BY <1>d, <2>1, FirstIn
  <2>3. /\ turnStatus' = [turnStatus EXCEPT ![n] = "queued"]
        /\ turnAgent' = [turnAgent EXCEPT ![n] = a]
        /\ dPc' = "end" /\ UNCHANGED <<jobStatus, jobAgent>>
    BY <1>2 DEF Attach
  <2>4. jobAgent' \in Agents /\ jobStatus' \in Undone /\ jobAgent' = a
    BY <2>1, <2>3
  <2> HIDE DEF n
  <2>5. /\ \A t \in Turns : turnStatus'[t] \in Live => t = n
        /\ \A t \in Turns : turnStatus'[t] = "none" <=> turnStatus[t] = "none" /\ t # n
        /\ turnStatus'[n] \notin Open
    BY <2>1, <2>2, <2>3
  <2> HIDE DEF RowInv, TypeOK, With, Unused, Live, Open, Undone, Ended
  <2>6. Enters(n)
    BY <2>2, <2>3, <2>4, <2>5 DEF Enters
  <2> QED
    BY EntersRows, <2>2, <2>6
<1>3. ASSUME NEW a \in Agents, PumpSelect(a) PROVE RowInv'
  BY <1>3 DEF PumpSelect
<1>4. ASSUME NEW a \in Agents, PumpClaim(a) PROVE RowInv'
  BY <1>4, <1>b DEF PumpClaim, LockInv
<1>5. ASSUME NEW a \in Agents, PumpPromote(a) PROVE RowInv'
  <2> DEFINE S == IF With({"queued"}) # {} THEN With({"queued"}) ELSE Unused
             t == First(S)
  <2>1. jobStatus = "started" /\ jobAgent = a /\ With(Open) = {}
    BY <1>5, <1>b DEF PumpPromote, TaskInv, TaskOK, PromoteInv
  <2>2. S # {} /\ S \subseteq Turns
    BY <1>5, <1>d DEF PumpPromote
  <2> HIDE DEF S
  <2>3. t \in S /\ t \in Turns /\ \A u \in S : t <= u
    BY <2>2, FirstIn
  <2> USE DEF S
  <2>4. /\ turnStatus' = [turnStatus EXCEPT ![t] = "running"]
        /\ turnAgent' = [turnAgent EXCEPT ![t] = a]
        /\ UNCHANGED <<jobStatus, jobAgent, dPc>>
    BY <1>5 DEF PumpPromote
  <2>5. CASE With({"queued"}) # {}
    <3>1. t \in With({"queued"})
      BY <2>3, <2>5
    <3> HIDE DEF S, t
    <3> QED
      BY <2>1, <2>4, <3>1
  <2>6. CASE With({"queued"}) = {}
    <3>1. t \in Unused /\ \A u \in Unused : t <= u
      BY <2>3, <2>6
    <3>2. With(Live) = {}
      BY <2>1, <2>6
    <3> HIDE DEF S, t
    <3>3. /\ \A u \in Turns : turnStatus'[u] \in Live => u = t
          /\ \A u \in Turns : turnStatus'[u] = "none" <=> turnStatus[u] = "none" /\ u # t
      BY <2>4, <3>1, <3>2
    <3>4. /\ jobStatus' = "started" /\ jobStatus' \in Undone
          /\ jobAgent' = a /\ dPc' = "end"
      BY <2>1, <2>4
    <3> HIDE DEF RowInv, TypeOK, With, Unused, Live, Open, Undone, Ended
    <3>5. Enters(t)
      BY <2>4, <3>1, <3>3, <3>4 DEF Enters
    <3> QED
      BY EntersRows, <2>3, <3>5
  <2> QED
    BY <2>5, <2>6
<1>6. ASSUME NEW t \in Turns, Answer(t) PROVE RowInv'
  BY <1>6 DEF Answer
<1>7. ASSUME NEW t \in Turns, StartResume(t) PROVE RowInv'
  BY <1>7 DEF StartResume
<1>8. ASSUME NEW a \in Agents, ResumeClaim(a) PROVE RowInv'
  BY <1>8 DEF ResumeClaim
<1>9. ASSUME NEW w \in Tasks, NEW how \in Outcomes, DriveEnds(w, how) PROVE RowInv'
  BY <1>9 DEF DriveEnds
<1>10. ASSUME NEW w \in Tasks, Persist(w) PROVE RowInv'
  <2>1. taskTurn[w] \in Turns /\ UNCHANGED dPc
    BY <1>10, <1>b DEF Persist, TaskInv, TaskOK, PromoteInv, Active, OnBoard
  <2>2. CASE Pauses(taskTurn[w])
    BY <2>1, <2>2 DEF Pauses
  <2>3. "done" \in Ended /\ "cancelled" \in Ended
    OBVIOUS
  <2> QED
    BY <1>10, PersistRows, <1>x, <1>y, <2>1, <2>2, <2>3
<1>11. ASSUME NEW w \in Tasks, Unwind(w) PROVE RowInv'
  BY <1>11 DEF Unwind, Gone
<1>12. ASSUME NEW w \in Tasks, FailWrites(w) PROVE RowInv'
  <2>1. taskTurn[w] \in Turns /\ UNCHANGED dPc
    BY <1>12, <1>b DEF FailWrites, TaskInv, TaskOK, PromoteInv, Active
  <2> QED
    BY <1>12, FailRows, <1>w, <1>x, <1>y, <2>1
<1>13. ASSUME NEW w \in Tasks, Interrupted(w) PROVE RowInv'
  BY <1>13 DEF Interrupted
<1>14. ASSUME NEW w \in Tasks, Dies(w) PROVE RowInv'
  BY <1>14 DEF Dies, Gone
<1>15. ASSUME NEW c \in Callers, NEW t \in Turns, CallTurn(c, t) PROVE RowInv'
  BY <1>15 DEF CallTurn
<1>16. ASSUME NEW c \in Callers, NEW a \in Agents, CallLane(c, a) PROVE RowInv'
  BY <1>16 DEF CallLane
<1>17. ASSUME NEW c \in Callers, NEW a \in Agents, CallMove(c, a) PROVE RowInv'
  BY <1>17 DEF CallMove
<1>18. ASSUME NEW c \in Callers, CallLocks(c) PROVE RowInv'
  BY <1>18 DEF CallLocks, Returns
<1>19. ASSUME NEW c \in Callers, CancelReads(c) PROVE RowInv'
  BY <1>19 DEF CancelReads, AfterCancel, Returns
<1>20. ASSUME NEW c \in Callers, CancelInterrupts(c) PROVE RowInv'
  BY <1>20 DEF CancelInterrupts
<1>21. ASSUME NEW c \in Callers, CancelAwaits(c) PROVE RowInv'
  BY <1>21 DEF CancelAwaits
<1>22. ASSUME NEW c \in Callers, CancelPersists(c) PROVE RowInv'
  <2>1. cTurn[c] \in Turns /\ UNCHANGED dPc
    BY <1>22 DEF CancelPersists, IInv, CallInv, CallOK, Cancels
  <2> QED
    BY <1>22, CancelRows, <1>w, <1>x, <1>y, <2>1
<1>23. ASSUME NEW c \in Callers, LaneMarks(c) PROVE RowInv'
  <2>1. With(Live) = {}
    BY <1>23 DEF LaneMarks, IInv, CallInv, CallOK
  <2> QED
    BY <1>23, <1>b, <2>1 DEF LaneMarks, LockInv, Locked
<1>24. ASSUME NEW c \in Callers, Park(c) PROVE RowInv'
  <2>1. cAgent[c] \in Agents /\ dPc = "end" /\ UNCHANGED dPc
    BY <1>24, <1>b DEF Park, IInv, CallInv, CallOK, LockInv, Locked
  <2>2. CASE Moves(cAgent[c])
    <3>1. /\ turnStatus' = turnStatus /\ jobAgent' = cAgent[c] /\ jobStatus' = "queued"
          /\ \A t \in Turns : turnAgent'[t] = IF turnStatus[t] \in Live THEN cAgent[c]
                                              ELSE turnAgent[t]
      BY <2>2 DEF Moves
    <3>2. \A t \in Turns : turnStatus[t] \notin Open
      BY <1>24 DEF Park, IInv, CallInv, CallOK
    <3> QED
      BY <2>1, <3>1, <3>2
  <2> QED
    BY <1>24, ParkRows, <1>y, <1>z, <2>1, <2>2
<1>25. CASE Crash
  <2>1. dPc' = IF dPc = "attach" THEN "end" ELSE dPc
    BY <1>25 DEF Crash
  <2>2. CASE UNCHANGED jobRows
    BY <2>1, <2>2 DEF jobRows
  <2>3. CASE /\ jobStatus = "started" /\ jobStatus' = "cancelled" /\ With(Live) = {}
             /\ UNCHANGED <<jobAgent, turnStatus, turnAgent, msgs>>
    BY <2>1, <2>3
  <2>4. CASE Restarts
    <3>1. /\ jobStatus = "started" /\ jobStatus' = "queued" /\ dPc' = dPc
          /\ turnAgent' = turnAgent /\ jobAgent' = jobAgent
          /\ \A t \in Turns : turnStatus'[t] = IF turnStatus[t] = "running" THEN "failed"
                                               ELSE turnStatus[t]
      BY <2>1, <2>4 DEF Restarts, Lapsed
    <3>2. \A t \in Turns : turnStatus[t] # "waiting"
      BY <2>4 DEF Restarts
    <3> QED
      BY <3>1, <3>2
  <2>5. ASSUME jobStatus = "started", NEW n \in Turns, Gives(n, jobAgent) PROVE RowInv'
    BY <1>z, <2>1, <2>5
  <2> QED
    BY <1>25, CrashRows, <2>2, <2>3, <2>4, <2>5
<1>26. CASE UNCHANGED vars
  BY <1>26 DEF vars
<1>27. ASSUME NEW w \in Tasks, FailReads(w) PROVE RowInv'
  BY <1>27 DEF FailReads
<1>28. ASSUME NEW w \in Tasks, FailLooks(w) PROVE RowInv'
  BY <1>28 DEF FailLooks
<1>29. ASSUME NEW c \in Callers, CancelFinds(c) PROVE RowInv'
  BY <1>29 DEF CancelFinds, AfterCancel, Returns
<1> QED
  BY <1>1, <1>2, <1>3, <1>4, <1>5, <1>6, <1>7, <1>8, <1>9, <1>10, <1>11, <1>12, <1>13, <1>14,
     <1>15, <1>16, <1>17, <1>18, <1>19, <1>20, <1>21, <1>22, <1>23, <1>24, <1>25, <1>26,
     <1>27, <1>28, <1>29
  DEF Next, TaskStep, CallStep, Rest

-----------------------------------------------------------------------------
(* The message.                                                              *)
LEMMA MessageStep == Calm /\ IInv /\ [Next]_vars => MessageInv'
<1> SUFFICES ASSUME Calm, IInv, [Next]_vars PROVE MessageInv'
  OBVIOUS
<1>a. TypeOK /\ RowInv /\ MessageInv
  BY DEF IInv
<1>b. LockInv /\ TaskInv
  BY DEF IInv
<1>d. Unused \subseteq Turns /\ With({"queued"}) \subseteq Turns
  BY DEF With, Unused
<1> USE <1>a, TurnLifeAssumption, TaskNames
        DEF MessageInv, RowInv, TypeOK, rows, watch, tasks, delivery, calls, With, Live, Open,
            Ended, Used, Unused, Undone
<1>x. ASSUME NEW t \in Turns, NEW s \in Ended, Ends(t, s) PROVE MessageInv'
  BY <1>x DEF Ends
<1>w. ASSUME NEW t \in Turns, NEW s, Amends(t, s), "move" \notin Modes PROVE MessageInv'
  <2>1. /\ turnStatus[t] \in Stopped /\ s \in Stopped /\ jobStatus' \in Stopped
        /\ t \in Used /\ \A u \in Used : u <= t
    BY <1>w DEF Amends
  <2>2. \A u \in Turns : turnStatus'[u] = turnStatus[u] \/ (u = t /\ turnStatus'[u] = s)
    BY <1>w DEF Amends
  <2>3. Used' = Used
    BY <2>1, <2>2 DEF Stopped
  <2>4. \A u \in msgs : u = t
    BY <2>1 DEF Turns
  <2>5. msgs' = msgs \/ msgs' = msgs \cup {t}
    BY <1>w DEF Amends
  <2> QED
    BY ONLY <1>a, <1>w, <2>1, <2>3, <2>4, <2>5 DEF MessageInv, Stopped, Undone
<1>y. ASSUME UNCHANGED jobRows PROVE MessageInv'
  BY <1>y DEF jobRows
<1>z. ASSUME NEW n \in Turns, NEW a \in Agents, Gives(n, a) PROVE MessageInv'
  <2>1. n \in Unused /\ msgs' = {n} /\ jobStatus' = "queued" /\ \A u \in Unused : n <= u
    BY <1>z DEF Gives
  <2>2. \A u \in Turns : turnStatus'[u] # "none" => u = n \/ turnStatus[u] # "none"
    BY <1>z DEF Gives, Lapsed
  <2>3. turnStatus'[n] = "queued"
    BY <1>z DEF Gives, Lapsed
  <2>4. \A u \in Used' : u <= n
    BY <2>1, <2>2 DEF Turns
  <2> QED
    BY <2>1, <2>3, <2>4
<1>1. ASSUME NEW a \in Agents, NEW k \in Kinds, Enqueue(k, a) PROVE MessageInv'
  BY <1>1 DEF Enqueue
<1>2. ASSUME NEW a \in Agents, Attach(a) PROVE MessageInv'
  <2>1. dPc = "attach" /\ Unused # {} /\ msgs = {}
    BY <1>2 DEF Attach
  <2> DEFINE n == First(Unused)
  <2>2. n \in Unused /\ n \in Turns /\ \A u \in Unused : n <= u
    BY <1>d, <2>1, FirstIn
  <2>3. /\ turnStatus' = [turnStatus EXCEPT ![n] = "queued"]
        /\ msgs' = msgs \cup {n} /\ UNCHANGED jobStatus
    BY <1>2 DEF Attach
  <2> HIDE DEF n
  <2>4. Used = {}
    BY <2>1
  <2>5. Used' = {n}
    BY <2>2, <2>3, <2>4
  <2>6. n <= n
    BY <2>2 DEF Turns
  <2>7. jobStatus' \in {"asked", "queued"} /\ turnStatus'[n] = "queued"
    BY <1>b, <2>1, <2>2, <2>3
  <2> QED
    BY <2>1, <2>2, <2>3, <2>5, <2>6, <2>7
<1>3. ASSUME NEW a \in Agents, PumpSelect(a) PROVE MessageInv'
  BY <1>3 DEF PumpSelect
<1>4. ASSUME NEW a \in Agents, PumpClaim(a) PROVE MessageInv'
  BY <1>4 DEF PumpClaim
<1>5. ASSUME NEW a \in Agents, PumpPromote(a) PROVE MessageInv'
  <2> DEFINE S == IF With({"queued"}) # {} THEN With({"queued"}) ELSE Unused
             t == First(S)
  <2>1. S # {} /\ S \subseteq Turns
    BY <1>5, <1>d DEF PumpPromote
  <2>2. t \in Turns
    BY <2>1, FirstIn
  <2>3. /\ turnStatus' = [turnStatus EXCEPT ![t] = "running"]
        /\ UNCHANGED <<jobStatus, msgs>> /\ jobStatus = "started" /\ With(Open) = {}
    BY <1>5, <1>b DEF PumpPromote, TaskInv, TaskOK, PromoteInv
  <2>4. t \in S
    BY <2>1, FirstIn
  <2>5. CASE With({"queued"}) # {}
    <3>1. turnStatus[t] = "queued"
      BY <2>4, <2>5
    <3> HIDE DEF S, t
    <3> QED
      BY <2>2, <2>3, <3>1
  <2>6. CASE With({"queued"}) = {}
    <3>1. msgs = {}
      BY <2>3, <2>6
    <3> HIDE DEF S, t
    <3> QED
      BY <2>2, <2>3, <3>1
  <2> QED
    BY <2>5, <2>6
<1>6. ASSUME NEW t \in Turns, Answer(t) PROVE MessageInv'
  BY <1>6 DEF Answer
<1>7. ASSUME NEW t \in Turns, StartResume(t) PROVE MessageInv'
  BY <1>7 DEF StartResume
<1>8. ASSUME NEW a \in Agents, ResumeClaim(a) PROVE MessageInv'
  BY <1>8 DEF ResumeClaim
<1>9. ASSUME NEW w \in Tasks, NEW how \in Outcomes, DriveEnds(w, how) PROVE MessageInv'
  BY <1>9 DEF DriveEnds
<1>10. ASSUME NEW w \in Tasks, Persist(w) PROVE MessageInv'
  <2>1. taskTurn[w] \in Turns
    BY <1>10, <1>b DEF Persist, TaskInv, TaskOK, PromoteInv, Active, OnBoard
  <2>2. CASE Pauses(taskTurn[w])
    BY <2>1, <2>2 DEF Pauses
  <2>3. "done" \in Ended /\ "cancelled" \in Ended
    OBVIOUS
  <2> QED
    BY <1>10, PersistRows, <1>x, <1>y, <2>1, <2>2, <2>3
<1>11. ASSUME NEW w \in Tasks, Unwind(w) PROVE MessageInv'
  BY <1>11 DEF Unwind, Gone
<1>12. ASSUME NEW w \in Tasks, FailWrites(w) PROVE MessageInv'
  <2>1. taskTurn[w] \in Turns
    BY <1>12, <1>b DEF FailWrites, TaskInv, TaskOK, PromoteInv, Active
  <2> QED
    BY <1>12, FailRows, <1>w, <1>x, <1>y, <2>1
<1>13. ASSUME NEW w \in Tasks, Interrupted(w) PROVE MessageInv'
  BY <1>13 DEF Interrupted
<1>14. ASSUME NEW w \in Tasks, Dies(w) PROVE MessageInv'
  BY <1>14 DEF Dies, Gone
<1>15. ASSUME NEW c \in Callers, NEW t \in Turns, CallTurn(c, t) PROVE MessageInv'
  BY <1>15 DEF CallTurn
<1>16. ASSUME NEW c \in Callers, NEW a \in Agents, CallLane(c, a) PROVE MessageInv'
  BY <1>16 DEF CallLane
<1>17. ASSUME NEW c \in Callers, NEW a \in Agents, CallMove(c, a) PROVE MessageInv'
  BY <1>17 DEF CallMove
<1>18. ASSUME NEW c \in Callers, CallLocks(c) PROVE MessageInv'
  BY <1>18 DEF CallLocks, Returns
<1>19. ASSUME NEW c \in Callers, CancelReads(c) PROVE MessageInv'
  BY <1>19 DEF CancelReads, AfterCancel, Returns
<1>20. ASSUME NEW c \in Callers, CancelInterrupts(c) PROVE MessageInv'
  BY <1>20 DEF CancelInterrupts
<1>21. ASSUME NEW c \in Callers, CancelAwaits(c) PROVE MessageInv'
  BY <1>21 DEF CancelAwaits
<1>22. ASSUME NEW c \in Callers, CancelPersists(c) PROVE MessageInv'
  <2>1. cTurn[c] \in Turns
    BY <1>22 DEF CancelPersists, IInv, CallInv, CallOK, Cancels
  <2> QED
    BY <1>22, CancelRows, <1>w, <1>x, <1>y, <2>1
<1>23. ASSUME NEW c \in Callers, LaneMarks(c) PROVE MessageInv'
  <2>1. With(Live) = {}
    BY <1>23 DEF LaneMarks, IInv, CallInv, CallOK
  <2> QED
    BY <1>23, <2>1 DEF LaneMarks
<1>24. ASSUME NEW c \in Callers, Park(c) PROVE MessageInv'
  <2>1. cAgent[c] \in Agents /\ jobStatus # "none"
    BY <1>24, <1>b DEF Park, IInv, CallInv, CallOK, LockInv
  <2>2. CASE Moves(cAgent[c])
    BY <2>1, <2>2 DEF Moves
  <2> QED
    BY <1>24, ParkRows, <1>y, <1>z, <2>1, <2>2
<1>25. CASE Crash
  <2>3. CASE /\ jobStatus = "started" /\ jobStatus' = "cancelled" /\ With(Live) = {}
             /\ UNCHANGED <<jobAgent, turnStatus, turnAgent, msgs>>
    BY <2>3
  <2>4. CASE Restarts
    <3>1. /\ jobStatus = "started" /\ jobStatus' = "queued" /\ msgs' = msgs
          /\ \A t \in Turns : turnStatus'[t] = IF turnStatus[t] = "running" THEN "failed"
                                               ELSE turnStatus[t]
          /\ \A t \in msgs : turnStatus[t] # "running"
      BY <2>4 DEF Restarts, Lapsed
    <3> QED
      BY <3>1
  <2> QED
    BY <1>25, CrashRows, <1>y, <1>z, <2>3, <2>4
<1>26. CASE UNCHANGED vars
  BY <1>26 DEF vars
<1>27. ASSUME NEW w \in Tasks, FailReads(w) PROVE MessageInv'
  BY <1>27 DEF FailReads
<1>28. ASSUME NEW w \in Tasks, FailLooks(w) PROVE MessageInv'
  BY <1>28 DEF FailLooks
<1>29. ASSUME NEW c \in Callers, CancelFinds(c) PROVE MessageInv'
  BY <1>29 DEF CancelFinds, AfterCancel, Returns
<1> QED
  BY <1>1, <1>2, <1>3, <1>4, <1>5, <1>6, <1>7, <1>8, <1>9, <1>10, <1>11, <1>12, <1>13, <1>14,
     <1>15, <1>16, <1>17, <1>18, <1>19, <1>20, <1>21, <1>22, <1>23, <1>24, <1>25, <1>26,
     <1>27, <1>28, <1>29
  DEF Next, TaskStep, CallStep, Rest

-----------------------------------------------------------------------------
(* The tasks.                                                                *)
LEMMA TasksStep == Calm /\ IInv /\ [Next]_vars => TaskInv'
<1> SUFFICES ASSUME Calm, IInv, [Next]_vars PROVE TaskInv'
  OBVIOUS
<1>a. TypeOK /\ TaskInv
  BY DEF IInv
<1>b. LockInv /\ RowInv
  BY DEF IInv
<1>d. Unused \subseteq Turns /\ With({"queued"}) \subseteq Turns
  BY DEF With, Unused
<1>e. \A t \in Turns : turnStatus[t] \in Begun => turnAgent[t] \in Agents
  BY <1>b DEF RowInv, Used, Unused, With, Begun, Open, Ended
<1> USE <1>a, TurnLifeAssumption, TaskNames
        DEF TaskInv, TaskOK, LaneInv, PromoteInv, TypeOK, rows, watch, tasks, delivery, calls,
            With, Open, Ended, Begun, Active, OnBoard
<1>y. ASSUME UNCHANGED <<jobRows, board, pc, taskTurn, out, calling>> PROVE TaskInv'
  BY <1>y DEF jobRows
<1>1. ASSUME NEW a \in Agents, NEW k \in Kinds, Enqueue(k, a) PROVE TaskInv'
  BY <1>1, <1>b DEF Enqueue, LockInv
<1>2. ASSUME NEW a \in Agents, Attach(a) PROVE TaskInv'
  <2>1. dPc = "attach" /\ Unused # {}
    BY <1>2 DEF Attach
  <2> DEFINE n == First(Unused)
  <2>2. n \in Unused /\ n \in Turns /\ \A u \in Unused : n <= u
    BY <1>d, <2>1, FirstIn
  <2>3. /\ turnStatus' = [turnStatus EXCEPT ![n] = "queued"]
        /\ turnAgent' = [turnAgent EXCEPT ![n] = a]
        /\ UNCHANGED <<jobStatus, jobAgent, board, pc, taskTurn, out, calling>>
    BY <1>2 DEF Attach
  <2>4. \A b \in Agents : pc[Pump(b)] # "promote"
    BY <1>b, <2>1 DEF LockInv
  <2> HIDE DEF n
  <2>5. \A t \in Turns : turnStatus[t] \in Begun => t # n
    BY <2>2 DEF Unused
  <2>6. \A w \in Tasks : TaskOK(w)'
    BY <2>2, <2>3, <2>5
  <2> QED
    BY <2>2, <2>3, <2>4, <2>5, <2>6
<1>3. ASSUME NEW a \in Agents, PumpSelect(a) PROVE TaskInv'
  <2>1. \A w \in Tasks : TaskOK(w)'
    BY <1>3 DEF PumpSelect
  <2>2. LaneInv'
    BY <1>3 DEF PumpSelect, LaneFree
  <2> QED
    BY <1>3, <2>1, <2>2 DEF PumpSelect
<1>4. ASSUME NEW a \in Agents, PumpClaim(a) PROVE TaskInv'
  <2>1. \A w \in Tasks : TaskOK(w)'
    BY <1>4 DEF PumpClaim
  <2>2. LaneInv'
    BY <1>4 DEF PumpClaim
  <2>3. PromoteInv'
    <3>1. \A b \in Agents : pc[Pump(b)] # "promote"
      BY <1>4, <1>b DEF LockInv, PumpClaim
    <3>2. jobStatus = "queued" => With(Open) = {}
      BY <1>b DEF RowInv
    <3> QED
      BY <1>4, <3>1, <3>2 DEF PumpClaim
  <2> QED
    BY <1>4, <2>1, <2>2, <2>3 DEF PumpClaim
<1>5. ASSUME NEW a \in Agents, PumpPromote(a) PROVE TaskInv'
  <2> DEFINE S == IF With({"queued"}) # {} THEN With({"queued"}) ELSE Unused
             t == First(S)
  <2>1. S # {} /\ S \subseteq Turns
    BY <1>5, <1>d DEF PumpPromote, Unused
  <2>2. t \in S /\ t \in Turns
    BY <2>1, FirstIn
  <2>3. turnStatus[t] \notin Begun
    BY <2>2 DEF Unused
  <2>4. /\ turnStatus' = [turnStatus EXCEPT ![t] = "running"]
        /\ turnAgent' = [turnAgent EXCEPT ![t] = a]
        /\ board' = [board EXCEPT ![t] = Pump(a)]
        /\ taskTurn' = [taskTurn EXCEPT ![Pump(a)] = t]
        /\ pc' = [pc EXCEPT ![Pump(a)] = "drive"]
        /\ UNCHANGED <<out, calling>>
    BY <1>5 DEF PumpPromote
  <2>5. pc[Pump(a)] = "promote" /\ \A b \in Agents : pc[Pump(b)] = "promote" => b = a
    BY <1>5, <1>b DEF PumpPromote, LockInv
  <2> HIDE DEF S, t
  <2>6. ASSUME NEW w \in Tasks, w # Pump(a) PROVE TaskOK(w)'
    <3>1. /\ pc'[w] = pc[w] /\ taskTurn'[w] = taskTurn[w]
          /\ pc[w] \in Active \cup {"lock"} => taskTurn[w] # t
      BY <2>3, <2>4, <2>6
    <3> QED
      BY <2>2, <2>4, <3>1
  <2>7. TaskOK(Pump(a))'
    BY <2>2, <2>4, <2>5
  <2>8. LaneInv'
    BY <2>4, <2>5
  <2> QED
    BY <2>2, <2>3, <2>4, <2>5, <2>6, <2>7, <2>8
<1>6. ASSUME NEW t \in Turns, Answer(t) PROVE TaskInv'
  BY <1>6 DEF Answer
<1>7. ASSUME NEW t \in Turns, StartResume(t) PROVE TaskInv'
  <2> DEFINE v == Resume(turnAgent[t])
  <2>1. turnStatus[t] \in Begun /\ v \in Tasks /\ v[2] = turnAgent[t] /\ v[1] = "resume"
    BY <1>7, <1>e DEF StartResume
  <2> HIDE DEF v
  <2>2. pc[v] = "off" /\ UNCHANGED <<jobRows, board, out>> /\ calling' = calling \ {t}
    BY <1>7 DEF StartResume, v, jobRows
  <2>3. CASE UNCHANGED <<pc, taskTurn>>
    BY <2>2, <2>3 DEF jobRows
  <2>4. CASE pc' = [pc EXCEPT ![v] = "lock"] /\ taskTurn' = [taskTurn EXCEPT ![v] = t]
    <3>1. \A w \in Tasks : TaskOK(w)'
      BY <2>1, <2>2, <2>4 DEF jobRows
    <3>2. LaneInv' /\ PromoteInv'
      BY <2>1, <2>2, <2>4 DEF jobRows
    <3> QED
      BY <2>2, <3>1, <3>2 DEF jobRows
  <2> QED
    BY <1>7, <2>3, <2>4 DEF StartResume, v
<1>8. ASSUME NEW a \in Agents, ResumeClaim(a) PROVE TaskInv'
  <2> DEFINE t == taskTurn[Resume(a)]
             go == a \notin cancelling /\ turnStatus[t] \in Open
  <2>1. /\ pc[Resume(a)] = "lock" /\ t \in Turns /\ turnAgent[t] = a
        /\ \A w \in Tasks : w[2] = a => pc[w] \in {"off", "lock"}
    BY <1>8 DEF ResumeClaim, LaneFree
  <2>2. /\ turnStatus' = IF go THEN [turnStatus EXCEPT ![t] = "running"] ELSE turnStatus
        /\ board' = IF go THEN [board EXCEPT ![t] = Resume(a)] ELSE board
        /\ pc' = [pc EXCEPT ![Resume(a)] = IF go THEN "drive" ELSE "off"]
        /\ taskTurn' = IF go THEN taskTurn ELSE [taskTurn EXCEPT ![Resume(a)] = Nobody]
        /\ UNCHANGED <<jobStatus, jobAgent, turnAgent, out, calling>>
    BY <1>8 DEF ResumeClaim
  <2>3. CASE go
    <3>1. turnStatus[t] \in Open
      BY <2>3
    <3>2. /\ turnStatus' = [turnStatus EXCEPT ![t] = "running"]
          /\ board' = [board EXCEPT ![t] = Resume(a)]
          /\ pc' = [pc EXCEPT ![Resume(a)] = "drive"] /\ taskTurn' = taskTurn
      BY <2>2, <2>3
    <3>3. \A w \in Tasks : pc[w] \in Active => taskTurn[w] # t
      BY <2>1
    <3>4. \A w \in Tasks : TaskOK(w)'
      BY <2>1, <2>2, <3>1, <3>2, <3>3
    <3>5. LaneInv'
      BY <2>1, <3>2
    <3>6. PromoteInv'
      BY <2>1, <2>2, <3>1, <3>2
    <3>7. \A u \in calling' : turnStatus'[u] \in Begun
      BY <2>1, <2>2, <3>2
    <3> QED
      BY <3>4, <3>5, <3>6, <3>7
  <2>4. CASE ~go
    <3>1. /\ turnStatus' = turnStatus /\ board' = board
          /\ pc' = [pc EXCEPT ![Resume(a)] = "off"]
          /\ taskTurn' = [taskTurn EXCEPT ![Resume(a)] = Nobody]
      BY <2>2, <2>4
    <3>2. \A w \in Tasks : TaskOK(w)'
      BY <2>2, <3>1
    <3>3. LaneInv' /\ PromoteInv'
      BY <2>2, <3>1
    <3>4. \A u \in calling' : turnStatus'[u] \in Begun
      BY <2>2, <3>1
    <3> QED
      BY <3>2, <3>3, <3>4
  <2> QED
    BY <2>3, <2>4
<1>9. ASSUME NEW w \in Tasks, NEW how \in Outcomes, DriveEnds(w, how) PROVE TaskInv'
  BY <1>9 DEF DriveEnds
<1>10. ASSUME NEW w \in Tasks, Persist(w) PROVE TaskInv'
  BY SMTT(30), <1>10 DEF Persist, EndTurn
<1>11. ASSUME NEW w \in Tasks, Unwind(w) PROVE TaskInv'
  BY <1>11 DEF Unwind, Gone
<1>12. ASSUME NEW w \in Tasks, FailWrites(w) PROVE TaskInv'
  <2> DEFINE t == taskTurn[w]
  <2>1. t \in Turns /\ turnAgent[t] = w[2] /\ pc[w] = "record"
    BY <1>12 DEF FailWrites
  <2>2. /\ pc' = [pc EXCEPT ![w] = "off"] /\ taskTurn' = [taskTurn EXCEPT ![w] = Nobody]
        /\ out' = [out EXCEPT ![w] = "none"] /\ UNCHANGED <<board, calling>>
    BY <1>12 DEF FailWrites, Gone
  <2>3. CASE UNCHANGED jobRows
    BY <2>2, <2>3 DEF jobRows
  <2>4. CASE Ends(t, "failed")
    <3>1. /\ turnStatus' = [turnStatus EXCEPT ![t] = "failed"]
          /\ UNCHANGED <<jobAgent, turnAgent>> /\ turnStatus[t] \in Live
      BY <2>4 DEF Ends
    <3>2. \A v \in Tasks : v # w /\ pc[v] \in Active => taskTurn[v] # t
      BY <2>1
    <3>3. \A v \in Tasks : TaskOK(v)'
      BY <2>1, <2>2, <3>1, <3>2
    <3>4. turnStatus[t] \in Open
      BY <2>1, <3>1 DEF Live
    <3>5. \A b \in Agents : pc[Pump(b)] # "promote"
      BY <2>1, <3>4
    <3> QED
      BY <2>1, <2>2, <3>1, <3>3, <3>5
  <2>5. CASE Amends(t, "failed")
    <3>1. /\ turnStatus[t] \in Stopped /\ jobStatus \in Stopped
          /\ UNCHANGED <<jobAgent, turnAgent>>
      BY <2>5 DEF Amends
    <3>2. turnStatus' = turnStatus \/ turnStatus' = [turnStatus EXCEPT ![t] = "failed"]
      BY <2>5 DEF Amends
    <3>3. \A v \in Tasks : v # w /\ pc[v] \in Active => taskTurn[v] # t
      BY <2>1
    <3>4. \A v \in Tasks : TaskOK(v)'
      BY <2>1, <2>2, <3>1, <3>2, <3>3
    <3>5. \A b \in Agents : pc[Pump(b)] # "promote"
      BY <3>1 DEF Stopped
    <3>6. LaneInv'
      BY <2>1, <2>2
    <3>7. \A u \in calling' : turnStatus'[u] \in Begun
      BY <2>1, <2>2, <3>2
    <3> QED
      BY <2>1, <2>2, <3>4, <3>5, <3>6, <3>7
  <2> QED
    BY <1>12, FailRows, <2>3, <2>4, <2>5
<1>13. ASSUME NEW w \in Tasks, Interrupted(w) PROVE TaskInv'
  BY <1>13 DEF Interrupted
<1>14. ASSUME NEW w \in Tasks, Dies(w) PROVE TaskInv'
  BY <1>14 DEF Dies, Gone
<1>15. ASSUME NEW c \in Callers, NEW t \in Turns, CallTurn(c, t) PROVE TaskInv'
  BY <1>15 DEF CallTurn
<1>16. ASSUME NEW c \in Callers, NEW a \in Agents, CallLane(c, a) PROVE TaskInv'
  BY <1>16 DEF CallLane
<1>17. ASSUME NEW c \in Callers, NEW a \in Agents, CallMove(c, a) PROVE TaskInv'
  BY <1>17 DEF CallMove
<1>18. ASSUME NEW c \in Callers, CallLocks(c) PROVE TaskInv'
  BY <1>18 DEF CallLocks, Returns
<1>19. ASSUME NEW c \in Callers, CancelReads(c) PROVE TaskInv'
  BY <1>19 DEF CancelReads, AfterCancel, Returns
<1>20. ASSUME NEW c \in Callers, CancelInterrupts(c) PROVE TaskInv'
  BY <1>20 DEF CancelInterrupts
<1>21. ASSUME NEW c \in Callers, CancelAwaits(c) PROVE TaskInv'
  BY <1>21 DEF CancelAwaits
<1>22. ASSUME NEW c \in Callers, CancelPersists(c) PROVE TaskInv'
  <2> DEFINE t == cTurn[c]
  <2>1. t \in Turns /\ \A w \in Tasks : pc[w] = "drive" => taskTurn[w] # t
    BY <1>22 DEF CancelPersists, IInv, CallInv, CallOK, WaitOK, Cancels, Used
  <2>2. UNCHANGED <<pc, taskTurn, out, board, calling>>
    BY <1>22 DEF CancelPersists
  <2>3. CASE UNCHANGED jobRows
    BY <1>y, <2>2, <2>3
  <2>4. CASE Ends(t, "cancelled")
    <3>1. /\ turnStatus' = [turnStatus EXCEPT ![t] = "cancelled"]
          /\ UNCHANGED <<jobAgent, turnAgent>>
      BY <2>4 DEF Ends
    <3>2. \A b \in Agents : pc[Pump(b)] # "promote"
      BY <1>22, <1>b DEF LockInv, Locked, CancelPersists
    <3>3. \A v \in Tasks : TaskOK(v)'
      BY <2>1, <2>2, <3>1
    <3> QED
      BY <2>1, <2>2, <3>1, <3>2, <3>3
  <2>5. CASE Amends(t, "cancelled")
    <3>1. UNCHANGED <<jobAgent, turnAgent>> /\ turnStatus[t] \in Stopped
      BY <2>5 DEF Amends
    <3>2. turnStatus' = turnStatus \/ turnStatus' = [turnStatus EXCEPT ![t] = "cancelled"]
      BY <2>5 DEF Amends
    <3>3. \A b \in Agents : pc[Pump(b)] # "promote"
      BY <1>22, <1>b DEF LockInv, Locked, CancelPersists
    <3>4. \A v \in Tasks : TaskOK(v)'
      BY <2>1, <2>2, <3>1, <3>2 DEF Stopped
    <3> QED
      BY <2>1, <2>2, <3>1, <3>2, <3>3, <3>4
  <2> QED
    BY <1>22, CancelRows, <2>3, <2>4, <2>5
<1>23. ASSUME NEW c \in Callers, LaneMarks(c) PROVE TaskInv'
  BY <1>23 DEF LaneMarks, Returns
<1>24. ASSUME NEW c \in Callers, Park(c) PROVE TaskInv'
  <2>1. \A b \in Agents : pc[Pump(b)] # "promote"
    BY <1>24, <1>b DEF LockInv, Locked, Park
  <2>2. UNCHANGED <<pc, taskTurn, out, board, calling>>
    BY <1>24 DEF Park
  <2>3. With(Open) = {}
    BY <1>24 DEF Park, IInv, CallInv, CallOK
  <2>4. CASE UNCHANGED jobRows
    BY <1>y, <2>2, <2>4
  <2>5. CASE Moves(cAgent[c])
    <3>1. turnStatus' = turnStatus
          /\ \A t \in Turns : turnStatus[t] \in Begun => turnAgent'[t] = turnAgent[t]
      BY <2>3, <2>5 DEF Moves, Live
    <3> QED
      BY <2>1, <2>2, <3>1
  <2>6. ASSUME With({"running"}) = {}, NEW n \in Turns, Gives(n, cAgent[c]) PROVE TaskInv'
    <3>1. \A t \in Turns : turnStatus[t] \in Begun => /\ turnStatus'[t] = turnStatus[t]
                                                      /\ turnAgent'[t] = turnAgent[t]
      BY <2>6 DEF Gives, Lapsed, Unused
    <3> QED
      BY <2>1, <2>2, <3>1
  <2> QED
    BY <1>24, ParkRows, <2>4, <2>5, <2>6
<1>25. CASE Crash
  <2> DEFINE ready == {t \in With(Open) \cap checkpoint \cap answered :
                         With({"waiting"}) \subseteq answered}
             resumed(w) == {t \in ready : w = Resume(turnAgent[t]) /\ jobStatus = "started"}
  <2>1. /\ pc' = [w \in Tasks |-> IF resumed(w) # {} THEN "lock" ELSE "off"]
        /\ taskTurn' = [w \in Tasks |-> IF resumed(w) # {} THEN First(resumed(w)) ELSE Nobody]
        /\ out' = [w \in Tasks |-> "none"] /\ calling' = {}
    BY <1>25 DEF Crash
  <2>2. ready # {} => UNCHANGED <<turnStatus, turnAgent>>
    BY <1>25 DEF Crash
  <2>3. ASSUME NEW w \in Tasks, resumed(w) # {}
        PROVE  /\ First(resumed(w)) \in Turns /\ turnStatus'[First(resumed(w))] \in Begun
               /\ turnAgent'[First(resumed(w))] = w[2] /\ w[1] = "resume"
    <3>1. resumed(w) \subseteq Turns
      OBVIOUS
    <3>2. First(resumed(w)) \in resumed(w)
      <4> HIDE DEF resumed
      <4> QED
        BY <2>3, <3>1, FirstIn
    <3> DEFINE t == First(resumed(w))
    <3>3. t \in Turns /\ turnStatus[t] \in Open /\ w = Resume(turnAgent[t]) /\ ready # {}
      BY <3>2
    <3> HIDE DEF t, ready
    <3>4. turnAgent[t] \in Agents
      BY <1>e, <3>3
    <3>5. t \in Turns /\ turnStatus'[t] \in Begun /\ turnAgent'[t] = w[2] /\ w[1] = "resume"
      BY <2>2, <3>3, <3>4
    <3> QED
      BY <3>5 DEF t
  <2> HIDE DEF resumed, ready
  <2>4. \A w \in Tasks : TaskOK(w)'
    BY <2>1, <2>3
  <2>5. LaneInv' /\ PromoteInv'
    BY <2>1
  <2> QED
    BY <2>1, <2>4, <2>5
<1>26. CASE UNCHANGED vars
  BY <1>26 DEF vars
<1>27. ASSUME NEW w \in Tasks, FailReads(w) PROVE TaskInv'
  BY <1>27 DEF FailReads
<1>28. ASSUME NEW w \in Tasks, FailLooks(w) PROVE TaskInv'
  BY <1>28 DEF FailLooks
<1>29. ASSUME NEW c \in Callers, CancelFinds(c) PROVE TaskInv'
  BY <1>29 DEF CancelFinds, AfterCancel, Returns
<1> QED
  BY ZenonT(60), <1>1, <1>2, <1>3, <1>4, <1>5, <1>6, <1>7, <1>8, <1>9, <1>10, <1>11, <1>12, <1>13, <1>14,
     <1>15, <1>16, <1>17, <1>18, <1>19, <1>20, <1>21, <1>22, <1>23, <1>24, <1>25, <1>26,
     <1>27, <1>28, <1>29
  DEF Next, TaskStep, CallStep, Rest

-----------------------------------------------------------------------------
(* Tasks without moves: only a claimed turn makes one active, and that is the *)
(* newest. Nothing takes the job to another lane or opens it again.          *)
LEMMA StayStep == Calm /\ IInv /\ [Next]_vars => StayInv'
<1> SUFFICES ASSUME Calm, IInv, [Next]_vars PROVE StayInv'
  OBVIOUS
<1> SUFFICES ASSUME "move" \notin Modes PROVE StayInv'
  BY DEF StayInv
<1> DEFINE Fits(w) == /\ jobAgent = w[2]
                      /\ turnStatus[taskTurn[w]] \in Ended => jobStatus \in Ended
                      /\ jobStatus = "done" => turnStatus[taskTurn[w]] = "done"
                      /\ \A u \in Used : u <= taskTurn[w]
           Keeps == \A w \in Tasks : pc'[w] \in Active =>
                       pc[w] \in Active /\ taskTurn'[w] = taskTurn[w]
<1>a. TypeOK /\ RowInv
  BY DEF IInv
<1>b. LockInv /\ TaskInv
  BY DEF IInv
<1>c. \A w \in Tasks : pc[w] \in Active =>
        /\ Fits(w) /\ taskTurn[w] \in Turns /\ taskTurn[w] \in Used
        /\ turnStatus[taskTurn[w]] \in Begun
  BY DEF IInv, StayInv, TaskInv, TaskOK, Used, Unused, With, Begun, Open, Ended
<1>d. (\A w \in Tasks : pc'[w] \in Active => Fits(w)') => StayInv'
  BY DEF StayInv
<1> USE <1>a, TurnLifeAssumption, TaskNames DEF TypeOK, rows, watch, tasks, delivery, calls
<1>k. ASSUME Keeps, UNCHANGED <<jobStatus, jobAgent, turnStatus>> PROVE StayInv'
  BY <1>c, <1>d, <1>k DEF Used, Unused, With
<1>x. ASSUME NEW t \in Turns, NEW s \in Ended, Ends(t, s), Keeps PROVE StayInv'
  <2>1. /\ t \in With(Live) /\ jobStatus' = s /\ jobAgent' = jobAgent
        /\ turnStatus' = [turnStatus EXCEPT ![t] = s]
    BY <1>x DEF Ends
  <2>2. Used' = Used
    BY <2>1 DEF Used, Unused, With, Live, Open, Ended
  <2>3. t \in Used /\ \A u \in Used : u <= t
    BY <2>1 DEF RowInv, Used, Unused, With, Live, Open
  <2>4. \A w \in Tasks : pc[w] \in Active => taskTurn[w] = t
    BY <1>c, <2>3 DEF Turns
  <2> QED
    BY <1>c, <1>d, <1>x, <2>1, <2>2, <2>4
<1>w. ASSUME NEW t \in Turns, NEW s, Amends(t, s), Keeps PROVE StayInv'
  <2>1. /\ t \in Used /\ \A u \in Used : u <= t
        /\ s \in Stopped /\ jobStatus' \in Stopped /\ jobAgent' = jobAgent
        /\ turnStatus' = turnStatus \/ turnStatus' = [turnStatus EXCEPT ![t] = s]
    BY <1>w DEF Amends
  <2>2. Used' = Used
    BY <2>1 DEF Used, Unused, With, Stopped
  <2>3. \A w \in Tasks : pc[w] \in Active => taskTurn[w] = t
    BY <1>c, <2>1 DEF Turns
  <2> QED
    BY <1>c, <1>d, <1>w, <2>1, <2>2, <2>3 DEF Stopped, Ended
<1>p. ASSUME NEW t \in Turns, Pauses(t), Keeps PROVE StayInv'
  <2>1. /\ turnStatus[t] = "running" /\ turnStatus' = [turnStatus EXCEPT ![t] = "waiting"]
        /\ UNCHANGED <<jobStatus, jobAgent>>
    BY <1>p DEF Pauses
  <2>2. Used' = Used
    BY <2>1 DEF Used, Unused, With
  <2> QED
    BY <1>c, <1>d, <1>p, <2>1, <2>2 DEF Ended
<1>1. ASSUME NEW a \in Agents, NEW k \in Kinds, Enqueue(k, a) PROVE StayInv'
  <2>1. \A w \in Tasks : pc'[w] = "off"
    BY <1>1, <1>b DEF Enqueue, LockInv
  <2> QED
    BY <1>d, <2>1 DEF Active
<1>2. ASSUME NEW a \in Agents, Attach(a) PROVE StayInv'
  <2>1. Used = {} /\ pc' = pc
    BY <1>2 DEF Attach, RowInv
  <2> QED
    BY <1>c, <1>d, <2>1
<1>3. ASSUME NEW a \in Agents, PumpSelect(a) PROVE StayInv'
  BY <1>3, <1>k DEF PumpSelect, Active
<1>4. ASSUME NEW a \in Agents, PumpClaim(a) PROVE StayInv'
  <2>1. Keeps /\ UNCHANGED <<jobAgent, turnStatus>>
    BY <1>4 DEF PumpClaim, Active
  <2>2. CASE jobStatus' = jobStatus
    BY <1>k, <2>1, <2>2
  <2>3. CASE jobStatus' # jobStatus
    <3>1. jobStatus = "queued" /\ jobStatus' = "started"
      BY <1>4, <2>3 DEF PumpClaim
    <3>2. Used' = Used
      BY <2>1 DEF Used, Unused, With
    <3> QED
      BY <1>c, <1>d, <2>1, <3>1, <3>2 DEF Ended
  <2> QED
    BY <2>2, <2>3
<1>5. ASSUME NEW a \in Agents, PumpPromote(a) PROVE StayInv'
  <2> DEFINE S == IF With({"queued"}) # {} THEN With({"queued"}) ELSE Unused
             t == First(S)
  <2>1. S # {} /\ S \subseteq Turns
    BY <1>5 DEF PumpPromote, With, Unused
  <2>2. t \in S /\ t \in Turns /\ \A u \in S : t <= u
    BY <2>1, FirstIn
  <2>3. /\ turnStatus' = [turnStatus EXCEPT ![t] = "running"]
        /\ taskTurn' = [taskTurn EXCEPT ![Pump(a)] = t]
        /\ pc' = [pc EXCEPT ![Pump(a)] = "drive"]
        /\ UNCHANGED <<jobStatus, jobAgent>>
    BY <1>5 DEF PumpPromote
  <2>4. jobAgent = a /\ jobStatus = "started" /\ With(Open) = {}
    BY <1>5, <1>b DEF PumpPromote, TaskInv, PromoteInv
  <2>5. \A w \in Tasks : pc[w] \notin Active
    BY <1>c, <2>4 DEF With, Begun, Open, Ended
  <2>6. \A u \in Used : u <= t
    <3>1. CASE With({"queued"}) # {}
      <4>1. t \in With(Live)
        BY <2>2, <3>1 DEF With, Live
      <4> HIDE DEF t, S
      <4> QED
        BY <4>1 DEF RowInv
    <3>2. CASE With({"queued"}) = {}
      <4>1. t \in Unused
        BY <2>2, <3>2
      <4>2. Used \subseteq Turns
        BY DEF Used
      <4> HIDE DEF t, S
      <4> QED
        BY <2>2, <4>1, <4>2 DEF RowInv, Turns
    <3> QED
      BY <3>1, <3>2
  <2> HIDE DEF S, t
  <2>7. \A u \in Used' : u \in Used \/ u = t
    BY <2>2, <2>3 DEF Used, Unused, With
  <2>8. t <= t
    BY <2>2 DEF Turns
  <2>9. Fits(Pump(a))'
    BY <2>2, <2>3, <2>4, <2>6, <2>7, <2>8 DEF Ended
  <2>10. \A w \in Tasks : pc'[w] \in Active => w = Pump(a)
    BY <2>3, <2>5
  <2> QED
    BY <1>d, <2>9, <2>10
<1>6. ASSUME NEW t \in Turns, Answer(t) PROVE StayInv'
  BY <1>6, <1>k DEF Answer
<1>7. ASSUME NEW t \in Turns, StartResume(t) PROVE StayInv'
  <2>1. Keeps
    BY <1>7 DEF StartResume, Active
  <2> QED
    BY <1>7, <1>k, <2>1 DEF StartResume
<1>8. ASSUME NEW a \in Agents, ResumeClaim(a) PROVE StayInv'
  <2> DEFINE t == taskTurn[Resume(a)]
             go == a \notin cancelling /\ turnStatus[t] \in Open
  <2>1. t \in Turns /\ turnAgent[t] = a /\ UNCHANGED <<jobStatus, jobAgent>>
    BY <1>8, <1>b DEF ResumeClaim, TaskInv, TaskOK
  <2>2. CASE go
    <3>1. /\ turnStatus' = [turnStatus EXCEPT ![t] = "running"]
          /\ pc' = [pc EXCEPT ![Resume(a)] = "drive"] /\ taskTurn' = taskTurn
      BY <1>8, <2>2 DEF ResumeClaim
    <3>2. t \in With(Live) /\ t \in With(Open)
      BY <2>1, <2>2 DEF With, Live
    <3>3. jobAgent = a /\ jobStatus = "started" /\ \A u \in Used : u <= t
      BY <2>1, <3>2 DEF RowInv
    <3>4. Used' = Used
      BY <2>1, <2>2, <3>1 DEF Used, Unused, With, Open
    <3>5. \A w \in Tasks : pc'[w] \in Active => w = Resume(a) \/ pc[w] \in Active
      BY <3>1
    <3>6. Fits(Resume(a))'
      BY <2>1, <3>1, <3>3, <3>4 DEF Ended
    <3>7. \A w \in Tasks : pc[w] \in Active => Fits(w)'
      BY <1>c, <2>1, <3>1, <3>3, <3>4 DEF Ended
    <3> QED
      BY <1>d, <3>5, <3>6, <3>7
  <2>3. CASE ~go
    <3>1. Keeps /\ turnStatus' = turnStatus
      BY <1>8, <2>3 DEF ResumeClaim, Active
    <3> QED
      BY <1>k, <2>1, <3>1
  <2> QED
    BY <2>2, <2>3
<1>9. ASSUME NEW w \in Tasks, NEW how \in Outcomes, DriveEnds(w, how) PROVE StayInv'
  <2>1. Keeps
    BY <1>9 DEF DriveEnds, Active
  <2> QED
    BY <1>9, <1>k, <2>1 DEF DriveEnds
<1>10. ASSUME NEW w \in Tasks, Persist(w) PROVE StayInv'
  <2>1. /\ taskTurn[w] \in Turns /\ "done" \in Ended /\ "cancelled" \in Ended
        /\ Keeps
    BY <1>10, <1>b DEF Persist, TaskInv, TaskOK, Active, Ended
  <2> QED
    BY <1>10, PersistRows, <1>k, <1>p, <1>x, <2>1 DEF jobRows
<1>11. ASSUME NEW w \in Tasks, Unwind(w) PROVE StayInv'
  <2>1. Keeps
    BY <1>11 DEF Unwind, Gone, Active
  <2> QED
    BY <1>11, <1>k, <2>1 DEF Unwind
<1>12. ASSUME NEW w \in Tasks, FailWrites(w) PROVE StayInv'
  <2>1. taskTurn[w] \in Turns /\ "failed" \in Ended /\ Keeps
    BY <1>12, <1>b DEF FailWrites, Gone, TaskInv, TaskOK, Active, Ended
  <2> QED
    BY <1>12, FailRows, <1>k, <1>w, <1>x, <2>1 DEF jobRows
<1>13. ASSUME NEW w \in Tasks, Interrupted(w) PROVE StayInv'
  <2>1. Keeps
    BY <1>13 DEF Interrupted, Active
  <2> QED
    BY <1>13, <1>k, <2>1 DEF Interrupted
<1>14. ASSUME NEW w \in Tasks, Dies(w) PROVE StayInv'
  <2>1. Keeps
    BY <1>14 DEF Dies, Gone, Active
  <2> QED
    BY <1>14, <1>k, <2>1 DEF Dies
<1>15. ASSUME NEW c \in Callers, NEW t \in Turns, CallTurn(c, t) PROVE StayInv'
  BY <1>15, <1>k DEF CallTurn
<1>16. ASSUME NEW c \in Callers, NEW a \in Agents, CallLane(c, a) PROVE StayInv'
  BY <1>16, <1>k DEF CallLane
<1>17. ASSUME NEW c \in Callers, NEW a \in Agents, CallMove(c, a) PROVE StayInv'
  BY <1>17, <1>k DEF CallMove
<1>18. ASSUME NEW c \in Callers, CallLocks(c) PROVE StayInv'
  BY <1>18, <1>k DEF CallLocks
<1>19. ASSUME NEW c \in Callers, CancelReads(c) PROVE StayInv'
  BY <1>19, <1>k DEF CancelReads
<1>20. ASSUME NEW c \in Callers, CancelInterrupts(c) PROVE StayInv'
  BY <1>20, <1>k DEF CancelInterrupts
<1>21. ASSUME NEW c \in Callers, CancelAwaits(c) PROVE StayInv'
  BY <1>21, <1>k DEF CancelAwaits
<1>22. ASSUME NEW c \in Callers, CancelPersists(c) PROVE StayInv'
  <2>1. cTurn[c] \in Turns /\ "cancelled" \in Ended
    BY <1>22 DEF CancelPersists, IInv, CallInv, CallOK, Cancels, Used, Ended
  <2>2. Keeps
    BY <1>22 DEF CancelPersists
  <2> QED
    BY <1>22, CancelRows, <1>w, <1>x, <2>1, <2>2
<1>23. ASSUME NEW c \in Callers, LaneMarks(c) PROVE StayInv'
  <2>0. UNCHANGED <<pc, taskTurn, jobAgent, turnStatus>>
    BY ONLY <1>23 DEF LaneMarks, tasks
  <2>1. Keeps
    BY <2>0
  <2>2. jobStatus' = jobStatus \/ (jobStatus' = "cancelled" /\ jobStatus = "queued")
    BY ONLY <1>23 DEF LaneMarks
  <2>3. Used' = Used
    BY <2>0 DEF Used, Unused, With
  <2> QED
    BY <1>c, <1>d, <2>0, <2>1, <2>2, <2>3 DEF Ended
<1>24. ASSUME NEW c \in Callers, Park(c) PROVE StayInv'
  <2>1. cMode[c] = "move" /\ cMode[c] \in Modes
    BY <1>24 DEF Park, IInv, CallInv, CallOK
  <2> QED
    BY <2>1
<1>25. CASE Crash
  <2>1. \A w \in Tasks : pc'[w] \in {"lock", "off"}
    BY <1>25 DEF Crash
  <2> QED
    BY <1>d, <2>1 DEF Active
<1>26. CASE UNCHANGED vars
  BY <1>26, <1>k DEF vars
<1>27. ASSUME NEW w \in Tasks, FailReads(w) PROVE StayInv'
  <2>1. Keeps
    BY <1>27 DEF FailReads, Active
  <2> QED
    BY <1>27, <1>k, <2>1 DEF FailReads
<1>28. ASSUME NEW w \in Tasks, FailLooks(w) PROVE StayInv'
  <2>1. Keeps
    BY <1>28 DEF FailLooks, Active
  <2> QED
    BY <1>28, <1>k, <2>1 DEF FailLooks
<1>29. ASSUME NEW c \in Callers, CancelFinds(c) PROVE StayInv'
  BY <1>29, <1>k DEF CancelFinds
<1> HIDE DEF Keeps, Fits
<1> QED
  BY <1>1, <1>2, <1>3, <1>4, <1>5, <1>6, <1>7, <1>8, <1>9, <1>10, <1>11, <1>12, <1>13, <1>14,
     <1>15, <1>16, <1>17, <1>18, <1>19, <1>20, <1>21, <1>22, <1>23, <1>24, <1>25, <1>26,
     <1>27, <1>28, <1>29
  DEF Next, TaskStep, CallStep, Rest

-----------------------------------------------------------------------------
(* The calls.                                                                *)
LEMMA CallsStep == Calm /\ IInv /\ [Next]_vars => CallInv'
<1> SUFFICES ASSUME Calm, IInv, [Next]_vars PROVE CallInv'
  OBVIOUS
<1>a. TypeOK /\ CallInv
  BY DEF IInv
<1>b. LockInv /\ TaskInv /\ RowInv
  BY DEF IInv
<1>d. Unused \subseteq Turns /\ With({"queued"}) \subseteq Turns
  BY DEF With, Unused
<1> USE <1>a, TurnLifeAssumption, TaskNames
        DEF CallInv, CallOK, WaitOK, TypeOK, rows, watch, tasks, delivery, calls, With, Live,
            Open, Ended, Used, Unused, Cancels, OnBoard
<1>x. ASSUME UNCHANGED calls, \A c \in Callers : cPc[c] \notin Locked,
             \A t \in Turns : turnStatus'[t] = "none" => turnStatus[t] = "none"
      PROVE  CallInv'
  <2>1. \A c \in Callers : CallOK(c)'
    BY <1>x DEF Locked
  <2>2. \A c \in Callers : WaitOK(c)'
    BY <1>x DEF Locked
  <2> QED
    BY <2>1, <2>2
<1>1. ASSUME NEW a \in Agents, NEW k \in Kinds, Enqueue(k, a) PROVE CallInv'
  BY <1>1 DEF Enqueue
<1>2. ASSUME NEW a \in Agents, Attach(a) PROVE CallInv'
  <2>1. /\ jobLock = "delivery" /\ Unused # {} /\ UNCHANGED calls
        /\ turnStatus' = [turnStatus EXCEPT ![First(Unused)] = "queued"]
    BY <1>2, <1>b DEF Attach, LockInv
  <2>2. \A t \in Turns : turnStatus'[t] = "none" => turnStatus[t] = "none"
    BY <2>1
  <2>3. \A c \in Callers : cPc[c] \notin Locked
    BY <1>b, <2>1 DEF LockInv
  <2> QED
    BY <1>x, <2>1, <2>2, <2>3
<1>3. ASSUME NEW a \in Agents, PumpSelect(a) PROVE CallInv'
  BY <1>3 DEF PumpSelect
<1>4. ASSUME NEW a \in Agents, PumpClaim(a) PROVE CallInv'
  BY <1>4 DEF PumpClaim
<1>5. ASSUME NEW a \in Agents, PumpPromote(a) PROVE CallInv'
  <2>1. jobLock = a /\ UNCHANGED calls
    BY <1>5, <1>b DEF PumpPromote, LockInv
  <2>2. \A t \in Turns : turnStatus'[t] = "none" => turnStatus[t] = "none"
    BY <1>5 DEF PumpPromote
  <2>3. \A c \in Callers : cPc[c] \notin Locked
    BY <1>b, <2>1 DEF LockInv
  <2> QED
    BY <1>x, <2>1, <2>2, <2>3
<1>6. ASSUME NEW t \in Turns, Answer(t) PROVE CallInv'
  BY <1>6 DEF Answer
<1>7. ASSUME NEW t \in Turns, StartResume(t) PROVE CallInv'
  BY <1>7 DEF StartResume
<1>8. ASSUME NEW a \in Agents, ResumeClaim(a) PROVE CallInv'
  <2> DEFINE t == taskTurn[Resume(a)]
             go == a \notin cancelling /\ turnStatus[t] \in Open
  <2>1. CASE go
    <3>1. jobLock = Nobody /\ UNCHANGED calls
      BY <1>8, <2>1 DEF ResumeClaim
    <3>2. \A u \in Turns : turnStatus'[u] = "none" => turnStatus[u] = "none"
      BY <1>8 DEF ResumeClaim
    <3>3. \A c \in Callers : cPc[c] \notin Locked
      BY <1>b, <3>1 DEF LockInv
    <3> QED
      BY <1>x, <3>1, <3>2, <3>3
  <2>2. CASE ~go
    <3>1. /\ turnStatus' = turnStatus /\ pc' = [pc EXCEPT ![Resume(a)] = "off"]
          /\ taskTurn' = [taskTurn EXCEPT ![Resume(a)] = Nobody]
          /\ UNCHANGED <<hit, calls>>
      BY <1>8, <2>2 DEF ResumeClaim
    <3> QED
      BY <3>1
  <2> QED
    BY <2>1, <2>2
<1>9. ASSUME NEW w \in Tasks, NEW how \in Outcomes, DriveEnds(w, how) PROVE CallInv'
  BY <1>9 DEF DriveEnds
<1>10. ASSUME NEW w \in Tasks, Persist(w) PROVE CallInv'
  <2>1. /\ taskTurn[w] \in Turns /\ UNCHANGED <<taskTurn, hit, calls>>
        /\ pc[w] = "persist" /\ pc' = [pc EXCEPT ![w] = "unwind"]
    BY <1>10, <1>b DEF Persist, TaskInv, TaskOK, Active, OnBoard
  <2>2. \A t \in Turns : /\ turnStatus'[t] = "none" <=> turnStatus[t] = "none"
                         /\ turnStatus'[t] \in Live => turnStatus[t] \in Live
                         /\ turnStatus'[t] \in Open => turnStatus[t] \in Open
    <3>1. CASE UNCHANGED jobRows
      BY <3>1 DEF jobRows
    <3>2. CASE Pauses(taskTurn[w])
      BY <2>1, <3>2 DEF Pauses
    <3>3. CASE Ends(taskTurn[w], "done") \/ Ends(taskTurn[w], "cancelled")
      BY <2>1, <3>3 DEF Ends
    <3> QED
      BY <1>10, PersistRows, <3>1, <3>2, <3>3
  <2>3. \A c \in Callers : CallOK(c)'
    BY <2>1, <2>2
  <2>4. \A c \in Callers : WaitOK(c)'
    BY <2>1
  <2> QED
    BY <2>3, <2>4
<1>11. ASSUME NEW w \in Tasks, Unwind(w) PROVE CallInv'
  BY <1>11 DEF Unwind, Gone
<1>12. ASSUME NEW w \in Tasks, FailWrites(w) PROVE CallInv'
  <2>1. /\ taskTurn[w] \in Turns /\ UNCHANGED calls /\ hit' = hit \ {w}
        /\ pc[w] = "record" /\ pc' = [pc EXCEPT ![w] = "off"]
        /\ taskTurn' = [taskTurn EXCEPT ![w] = Nobody]
    BY <1>12, <1>b DEF FailWrites, Gone, TaskInv, TaskOK, Active
  <2>2. \A t \in Turns : /\ turnStatus'[t] = "none" <=> turnStatus[t] = "none"
                         /\ turnStatus'[t] \in Live => turnStatus[t] \in Live
                         /\ turnStatus'[t] \in Open => turnStatus[t] \in Open
    <3>1. CASE UNCHANGED jobRows
      BY <3>1 DEF jobRows
    <3>2. CASE Ends(taskTurn[w], "failed")
      BY <2>1, <3>2 DEF Ends
    <3>3. CASE Amends(taskTurn[w], "failed")
      BY <2>1, <3>3 DEF Amends, Stopped
    <3> QED
      BY <1>12, FailRows, <3>1, <3>2, <3>3
  <2>3. \A c \in Callers : CallOK(c)'
    BY <2>1, <2>2
  <2>4. \A c \in Callers : WaitOK(c)'
    BY <2>1
  <2> QED
    BY <2>3, <2>4
<1>13. ASSUME NEW w \in Tasks, Interrupted(w) PROVE CallInv'
  BY <1>13 DEF Interrupted
<1>14. ASSUME NEW w \in Tasks, Dies(w) PROVE CallInv'
  BY <1>14 DEF Dies, Gone
<1>15. ASSUME NEW c \in Callers, NEW t \in Turns, CallTurn(c, t) PROVE CallInv'
  BY <1>15 DEF CallTurn
<1>16. ASSUME NEW c \in Callers, NEW a \in Agents, CallLane(c, a) PROVE CallInv'
  BY <1>16 DEF CallLane
<1>17. ASSUME NEW c \in Callers, NEW a \in Agents, CallMove(c, a) PROVE CallInv'
  BY <1>17 DEF CallMove
<1>18. ASSUME NEW c \in Callers, CallLocks(c) PROVE CallInv'
  <2> DEFINE a == cAgent[c]
             found == CASE cMode[c] = "turn" -> {cTurn[c]}
                        [] cMode[c] = "lane" -> {t \in With(Live) : turnAgent[t] = a}
                        [] cMode[c] = "move" -> With(Open)
  <2>1. /\ cPc[c] = "lock" /\ jobLock = Nobody
        /\ UNCHANGED <<turnStatus, pc, taskTurn, hit, cMode, cAgent>>
    BY <1>18 DEF CallLocks
  <2>2. \A d \in Callers : cPc[d] \notin Locked
    BY <1>b, <2>1 DEF LockInv
  <2>3. cMode[c] \in {"turn", "lane", "move"} /\ (cMode[c] = "turn" => cTurn[c] \in Used)
    BY <2>1
  <2>4. CASE Returns(c)
    BY <2>1, <2>4 DEF Returns
  <2>5. CASE /\ ~(cMode[c] = "lane" /\ jobAgent # a)
             /\ cPc' = [cPc EXCEPT ![c] = CASE found # {} -> "status"
                                            [] found = {} /\ cMode[c] = "lane" -> "mark"
                                            [] OTHER -> "park"]
             /\ cTurn' = [cTurn EXCEPT ![c] = IF found = {} THEN Nobody ELSE First(found)]
             /\ UNCHANGED cTask
    <3>1. found \subseteq Used /\ found \subseteq Turns
      BY <2>3
    <3>2. cMode[c] = "lane" => found = With(Live)
      BY <1>b, <2>5 DEF RowInv
    <3>3. cMode[c] = "move" => found = With(Open)
      OBVIOUS
    <3>4. cMode[c] = "turn" => found # {}
      OBVIOUS
    <3>5. found # {} => First(found) \in found
      <4> HIDE DEF found
      <4> QED
        BY <3>1, FirstIn
    <3>6. found # {} /\ cMode[c] # "turn" => With(Live) \subseteq {First(found)}
      <4>1. found # {} /\ cMode[c] # "turn" => First(found) \in With(Live)
        BY <2>3, <3>2, <3>3, <3>5
      <4>2. \A t, u \in With(Live) : t = u
        BY <1>b DEF RowInv
      <4> HIDE DEF found, With
      <4> QED
        BY <4>1, <4>2
    <3> HIDE DEF found
    <3>7. CASE found # {}
      <4>1. cPc' = [cPc EXCEPT ![c] = "status"] /\ cTurn' = [cTurn EXCEPT ![c] = First(found)]
        BY <2>5, <3>7
      <4>2. First(found) \in Used
        BY <3>1, <3>5, <3>7
      <4>3. \A d \in Callers : CallOK(d)'
        BY <2>1, <2>5, <3>6, <3>7, <4>1, <4>2
      <4>4. \A d \in Callers : WaitOK(d)'
        BY <2>1, <2>2, <2>5, <4>1 DEF Locked
      <4> QED
        BY <4>3, <4>4
    <3>8. CASE found = {}
      <4>1. /\ cPc' = [cPc EXCEPT ![c] = IF cMode[c] = "lane" THEN "mark" ELSE "park"]
            /\ cTurn' = [cTurn EXCEPT ![c] = Nobody]
        BY <2>5, <3>8
      <4>2. \A d \in Callers : CallOK(d)'
        BY <2>1, <2>3, <2>5, <3>2, <3>3, <3>4, <3>8, <4>1
      <4>3. \A d \in Callers : WaitOK(d)'
        BY <2>1, <2>2, <2>5, <4>1 DEF Locked
      <4> QED
        BY <4>2, <4>3
    <3> QED
      BY <3>7, <3>8
  <2> HIDE DEF CallInv
  <2> QED
    BY <1>18, <2>4, <2>5 DEF CallLocks
<1>19. ASSUME NEW c \in Callers, CancelReads(c) PROVE CallInv'
  <2> DEFINE t == cTurn[c]
  <2>1. /\ cPc[c] = "status" /\ t \in Turns /\ t \in Used
        /\ UNCHANGED <<turnStatus, pc, taskTurn, hit, cMode, cAgent>>
    BY <1>19 DEF CancelReads
  <2>2. CASE turnStatus[t] \in Ended
    <3>1. CASE Returns(c)
      BY <2>1, <3>1 DEF Returns
    <3>2. CASE /\ ~(cMode[c] = "turn" \/ (cMode[c] = "move" /\ turnStatus[t] # "cancelled"))
               /\ cPc' = [cPc EXCEPT ![c] = IF cMode[c] = "lane" THEN "mark" ELSE "park"]
               /\ UNCHANGED <<cTurn, cTask>>
      <4>1. With(Live) = {} /\ With(Open) = {}
        BY <2>1, <2>2, <3>2
      <4>2. cMode[c] \in {"lane", "move"}
        BY <2>1, <3>2
      <4>3. \A d \in Callers : CallOK(d)'
        BY <2>1, <3>2, <4>1, <4>2
      <4>4. \A d \in Callers : WaitOK(d)'
        BY <2>1, <3>2
      <4> QED
        BY <4>3, <4>4
    <3> HIDE DEF CallInv
    <3> QED
      BY <1>19, <2>2, <3>1, <3>2 DEF CancelReads, AfterCancel
  <2>3. CASE turnStatus[t] \notin Ended
    <3>1. /\ cTask' = [cTask EXCEPT ![c] = board[t]] /\ UNCHANGED cTurn
          /\ cPc' = [cPc EXCEPT ![c] = IF board[t] = Nobody THEN "persist" ELSE "interrupt"]
      BY <1>19, <2>3 DEF CancelReads
    <3>2. \A w \in Tasks : pc[w] \in OnBoard /\ taskTurn[w] = t => board[t] = w
      BY <1>b DEF TaskInv, TaskOK
    <3>3. \A d \in Callers : CallOK(d)'
      BY <2>1, <3>1
    <3>4. \A d \in Callers : WaitOK(d)'
      BY <2>1, <3>1, <3>2
    <3> QED
      BY <3>3, <3>4
  <2> QED
    BY <2>2, <2>3
<1>20. ASSUME NEW c \in Callers, CancelInterrupts(c) PROVE CallInv'
  <2> DEFINE seen == board[cTurn[c]] = cTask[c] /\ taskTurn[cTask[c]] = cTurn[c]
  <2>1. /\ cPc[c] = "interrupt"
        /\ UNCHANGED <<turnStatus, pc, taskTurn, cMode, cTurn, cTask, cAgent>>
    BY <1>20 DEF CancelInterrupts
  <2>2. \A w \in Tasks : pc[w] \in OnBoard /\ taskTurn[w] = cTurn[c] => w = cTask[c] /\ seen
    BY <1>b, <2>1 DEF TaskInv, TaskOK
  <2>3. CASE seen
    <3>1. hit' = hit \cup {cTask[c]} /\ cPc' = [cPc EXCEPT ![c] = "await"]
      BY <1>20, <2>3 DEF CancelInterrupts
    <3> QED
      BY <2>1, <2>2, <3>1
  <2>4. CASE ~seen
    <3>1. hit' = hit /\ cPc' = [cPc EXCEPT ![c] = "persist"]
      BY <1>20, <2>4 DEF CancelInterrupts
    <3> QED
      BY <2>1, <2>2, <2>4, <3>1
  <2> QED
    BY <2>3, <2>4
<1>21. ASSUME NEW c \in Callers, CancelAwaits(c) PROVE CallInv'
  BY <1>21 DEF CancelAwaits
<1>22. ASSUME NEW c \in Callers, CancelPersists(c) PROVE CallInv'
  <2>1. /\ cPc[c] = "write" /\ cTurn[c] \in Turns /\ cTurn[c] \in Used
        /\ turnStatus' = [turnStatus EXCEPT ![cTurn[c]] = "cancelled"]
        /\ AfterCancel(c, "cancelled")
        /\ UNCHANGED <<pc, taskTurn, hit, cMode, cAgent>>
    BY <1>22 DEF CancelPersists
  <2>2. \A d \in Callers : d # c => cPc[d] \notin Locked
    BY <1>b, <2>1 DEF LockInv, Locked
  <2>3. CASE Returns(c)
    BY <2>1, <2>3 DEF Returns
  <2>4. CASE /\ cMode[c] # "turn"
             /\ cPc' = [cPc EXCEPT ![c] = IF cMode[c] = "lane" THEN "mark" ELSE "park"]
             /\ UNCHANGED <<cTurn, cTask>>
    <3>1. With(Live)' = {} /\ With(Open)' = {}
      BY <2>1, <2>4
    <3>2. cMode[c] \in {"lane", "move"}
      BY <2>1, <2>4
    <3>3. \A d \in Callers : CallOK(d)'
      BY <2>1, <2>2, <2>4, <3>1, <3>2 DEF Locked
    <3>4. \A d \in Callers : WaitOK(d)'
      BY <2>1, <2>4
    <3> QED
      BY <3>3, <3>4
  <2> HIDE DEF CallInv
  <2> QED
    BY <2>1, <2>3, <2>4 DEF AfterCancel
<1>23. ASSUME NEW c \in Callers, LaneMarks(c) PROVE CallInv'
  BY <1>23 DEF LaneMarks, Returns
<1>24. ASSUME NEW c \in Callers, Park(c) PROVE CallInv'
  <2>1. Returns(c) /\ UNCHANGED <<pc, taskTurn, hit, cMode, cAgent>>
    BY <1>24 DEF Park
  <2>2. \A d \in Callers : d # c => cPc[d] \notin Locked
    BY <1>24, <1>b DEF LockInv, Locked, Park
  <2>3. \A t \in Turns : turnStatus'[t] = "none" => turnStatus[t] = "none"
    <3>1. ASSUME NEW n \in Turns, Gives(n, cAgent[c]), NEW t \in Turns, turnStatus'[t] = "none"
          PROVE  turnStatus[t] = "none"
      BY <3>1 DEF Gives, Lapsed
    <3>2. Moves(cAgent[c]) \/ UNCHANGED jobRows => turnStatus' = turnStatus
      BY DEF Moves, jobRows
    <3> QED
      BY <1>24, ParkRows, <3>1, <3>2, Zenon
  <2>4. \A d \in Callers : CallOK(d)'
    BY <2>1, <2>2, <2>3 DEF Returns, Locked
  <2>5. \A d \in Callers : WaitOK(d)'
    BY <2>1, <2>2 DEF Returns, Locked
  <2> QED
    BY <2>4, <2>5
<1>25. CASE Crash
  BY <1>25 DEF Crash
<1>26. CASE UNCHANGED vars
  BY <1>26 DEF vars
<1>27. ASSUME NEW w \in Tasks, FailReads(w) PROVE CallInv'
  BY <1>27 DEF FailReads
<1>28. ASSUME NEW w \in Tasks, FailLooks(w) PROVE CallInv'
  BY <1>28 DEF FailLooks
<1>29. ASSUME NEW c \in Callers, CancelFinds(c) PROVE CallInv'
  <2> DEFINE t == cTurn[c]
  <2>1. /\ cPc[c] = "persist" /\ t \in Turns /\ t \in Used
        /\ UNCHANGED <<turnStatus, pc, taskTurn, hit, cMode, cAgent>>
    BY <1>29 DEF CancelFinds
  <2>2. CASE cPc' = [cPc EXCEPT ![c] = "write"] /\ UNCHANGED <<cTurn, cTask>>
    BY <2>1, <2>2
  <2>3. CASE Returns(c)
    BY <2>1, <2>3 DEF Returns
  <2>4. CASE /\ turnStatus[t] \notin Live /\ cMode[c] # "turn"
             /\ cPc' = [cPc EXCEPT ![c] = IF cMode[c] = "lane" THEN "mark" ELSE "park"]
             /\ UNCHANGED <<cTurn, cTask>>
    <3>1. With(Live) = {} /\ With(Open) = {}
      BY <2>1, <2>4
    <3>2. cMode[c] \in {"lane", "move"}
      BY <2>1, <2>4
    <3>3. \A d \in Callers : CallOK(d)'
      BY <2>1, <2>4, <3>1, <3>2
    <3>4. \A d \in Callers : WaitOK(d)'
      BY <2>1, <2>4
    <3> QED
      BY <3>3, <3>4
  <2> HIDE DEF CallInv
  <2> QED
    BY <1>29, <2>1, <2>2, <2>3, <2>4 DEF CancelFinds, AfterCancel
<1> QED
  BY ZenonT(60), <1>1, <1>2, <1>3, <1>4, <1>5, <1>6, <1>7, <1>8, <1>9, <1>10, <1>11, <1>12, <1>13, <1>14,
     <1>15, <1>16, <1>17, <1>18, <1>19, <1>20, <1>21, <1>22, <1>23, <1>24, <1>25, <1>26,
     <1>27, <1>28, <1>29
  DEF Next, TaskStep, CallStep, Rest

-----------------------------------------------------------------------------
LEMMA SticksStep == Calm /\ IInv /\ [Next]_vars => Sticks
<1> SUFFICES ASSUME Calm, IInv, [Next]_vars PROVE Sticks
  OBVIOUS
<1>a. TypeOK /\ RowInv
  BY DEF IInv
<1>b. LockInv /\ TaskInv /\ CallInv
  BY DEF IInv
<1>d. Unused \subseteq Turns /\ With({"queued"}) \subseteq Turns
  BY DEF With, Unused
<1> USE <1>a, TurnLifeAssumption, TaskNames
        DEF Sticks, RowInv, TypeOK, rows, watch, tasks, delivery, calls, With, Live, Open,
            Ended, Undone, Stopped, Stale
<1>x. ASSUME NEW t \in Turns, NEW s \in Ended, Ends(t, s) PROVE Sticks
  BY <1>x DEF Ends
<1>y. ASSUME UNCHANGED jobRows PROVE Sticks
  BY <1>y DEF jobRows
<1>1. ASSUME NEW a \in Agents, NEW k \in Kinds, Enqueue(k, a) PROVE Sticks
  BY <1>1 DEF Enqueue
<1>2. ASSUME NEW a \in Agents, Attach(a) PROVE Sticks
  <2>1. Unused # {} /\ UNCHANGED jobStatus
    BY <1>2 DEF Attach
  <2>2. First(Unused) \in Unused
    BY <1>d, <2>1, FirstIn
  <2>3. turnStatus' = [turnStatus EXCEPT ![First(Unused)] = "queued"]
    BY <1>2 DEF Attach
  <2> QED
    BY <2>1, <2>2, <2>3 DEF Unused
<1>3. ASSUME NEW a \in Agents, PumpSelect(a) PROVE Sticks
  BY <1>3 DEF PumpSelect
<1>4. ASSUME NEW a \in Agents, PumpClaim(a) PROVE Sticks
  BY <1>4 DEF PumpClaim
<1>5. ASSUME NEW a \in Agents, PumpPromote(a) PROVE Sticks
  <2> DEFINE S == IF With({"queued"}) # {} THEN With({"queued"}) ELSE Unused
             t == First(S)
  <2>1. S # {} /\ S \subseteq Turns
    BY <1>5 DEF PumpPromote, Unused
  <2>2. t \in S /\ t \in Turns
    BY <2>1, FirstIn
  <2>3. turnStatus[t] \notin Ended
    BY <2>2 DEF Unused
  <2>4. turnStatus' = [turnStatus EXCEPT ![t] = "running"] /\ UNCHANGED jobStatus
    BY <1>5 DEF PumpPromote
  <2> HIDE DEF S, t
  <2> QED
    BY <2>2, <2>3, <2>4
<1>6. ASSUME NEW t \in Turns, Answer(t) PROVE Sticks
  BY <1>6 DEF Answer
<1>7. ASSUME NEW t \in Turns, StartResume(t) PROVE Sticks
  BY <1>7 DEF StartResume
<1>8. ASSUME NEW a \in Agents, ResumeClaim(a) PROVE Sticks
  BY <1>8 DEF ResumeClaim
<1>9. ASSUME NEW w \in Tasks, NEW how \in Outcomes, DriveEnds(w, how) PROVE Sticks
  BY <1>9 DEF DriveEnds
<1>10. ASSUME NEW w \in Tasks, Persist(w) PROVE Sticks
  <2>1. taskTurn[w] \in Turns /\ "done" \in Ended /\ "cancelled" \in Ended
    BY <1>10, <1>b DEF Persist, TaskInv, TaskOK, Active, OnBoard
  <2>2. CASE Pauses(taskTurn[w])
    BY <2>1, <2>2 DEF Pauses
  <2> HIDE DEF Sticks, Stale
  <2> QED
    BY <1>10, PersistRows, <1>x, <1>y, <2>1, <2>2
<1>11. ASSUME NEW w \in Tasks, Unwind(w) PROVE Sticks
  BY <1>11 DEF Unwind, Gone
<1>12. ASSUME NEW w \in Tasks, FailWrites(w) PROVE Sticks
  <2>1. taskTurn[w] \in Turns /\ "failed" \in Ended
    BY <1>12, <1>b DEF FailWrites, TaskInv, TaskOK, Active
  <2>2. CASE Amends(taskTurn[w], "failed")
    <3> DEFINE t == taskTurn[w]
    <3>1. /\ jobStatus \in Stopped /\ turnStatus[t] \in Stopped
          /\ turnStatus' = turnStatus \/ turnStatus' = [turnStatus EXCEPT ![t] = "failed"]
      BY <2>2 DEF Amends
    <3>2. /\ pc[w] = "record"
          /\ jobStatus' = jobStatus \/ (jobStatus' = "failed" /\ reads[w].job)
          /\ turnStatus' = turnStatus \/ reads[w].as \in Open
      BY <1>12 DEF FailWrites
    <3>3. reads[w].as \in Open => reads[w].turn = t
      BY <3>2 DEF IInv, RecordInv, RecordOK, Recording
    <3>4. turnStatus' = turnStatus \/ Stale(t)
      BY <3>2, <3>3
    <3>5. \A u \in Turns : \/ turnStatus'[u] = turnStatus[u]
                           \/ /\ u = t /\ turnStatus[u] = "cancelled"
                              /\ turnStatus'[u] = "failed" /\ Stale(u)
      BY <3>1, <3>4
    <3> HIDE DEF t, Stale
    <3> QED
      BY <3>1, <3>2, <3>5
  <2> HIDE DEF Sticks, Stale
  <2> QED
    BY <1>12, FailRows, <1>x, <1>y, <2>1, <2>2
<1>13. ASSUME NEW w \in Tasks, Interrupted(w) PROVE Sticks
  BY <1>13 DEF Interrupted
<1>14. ASSUME NEW w \in Tasks, Dies(w) PROVE Sticks
  BY <1>14 DEF Dies, Gone
<1>15. ASSUME NEW c \in Callers, NEW t \in Turns, CallTurn(c, t) PROVE Sticks
  BY <1>15 DEF CallTurn
<1>16. ASSUME NEW c \in Callers, NEW a \in Agents, CallLane(c, a) PROVE Sticks
  BY <1>16 DEF CallLane
<1>17. ASSUME NEW c \in Callers, NEW a \in Agents, CallMove(c, a) PROVE Sticks
  BY <1>17 DEF CallMove
<1>18. ASSUME NEW c \in Callers, CallLocks(c) PROVE Sticks
  BY <1>18 DEF CallLocks, Returns
<1>19. ASSUME NEW c \in Callers, CancelReads(c) PROVE Sticks
  BY <1>19 DEF CancelReads, AfterCancel, Returns
<1>20. ASSUME NEW c \in Callers, CancelInterrupts(c) PROVE Sticks
  BY <1>20 DEF CancelInterrupts
<1>21. ASSUME NEW c \in Callers, CancelAwaits(c) PROVE Sticks
  BY <1>21 DEF CancelAwaits
<1>22. ASSUME NEW c \in Callers, CancelPersists(c) PROVE Sticks
  <2>1. cTurn[c] \in Turns /\ "cancelled" \in Ended
    BY <1>22, <1>b DEF CancelPersists, CallInv, CallOK, Cancels, Used
  <2>2. CASE Amends(cTurn[c], "cancelled")
    <3> DEFINE t == cTurn[c]
    <3>1. /\ jobStatus \in Stopped /\ turnStatus[t] \in Stopped
          /\ cPc[c] = "write" /\ jobStatus' = "cancelled"
          /\ turnStatus' = [turnStatus EXCEPT ![t] = "cancelled"]
      BY <1>22, <2>2 DEF Amends, CancelPersists
    <3>2. Stale(t)
      BY <3>1
    <3>3. \A u \in Turns : \/ turnStatus'[u] = turnStatus[u]
                           \/ /\ u = t /\ turnStatus[u] = "failed"
                              /\ turnStatus'[u] = "cancelled" /\ Stale(u)
      BY <3>1, <3>2
    <3> HIDE DEF t, Stale
    <3> QED
      BY <3>1, <3>3
  <2> HIDE DEF Sticks, Stale
  <2> QED
    BY <1>22, CancelRows, <1>x, <1>y, <2>1, <2>2
<1>23. ASSUME NEW c \in Callers, LaneMarks(c) PROVE Sticks
  BY <1>23 DEF LaneMarks, Returns
<1>24. ASSUME NEW c \in Callers, Park(c) PROVE Sticks
  <2>1. cPc[c] = "park" /\ cMode[c] = "move" /\ With(Open) = {}
    BY <1>24, <1>b DEF Park, CallInv, CallOK
  <2>2. jobStatus \in {"done", "failed"} => UNCHANGED jobRows
    BY <1>24 DEF Park, jobRows
  <2>3. CASE Moves(cAgent[c])
    BY <2>1, <2>3 DEF Moves
  <2>4. ASSUME NEW n \in Turns, Gives(n, cAgent[c]) PROVE Sticks
    BY <2>1, <2>2, <2>4 DEF Gives, Lapsed, Unused, jobRows
  <2> QED
    BY <1>24, ParkRows, <1>y, <2>3, <2>4
<1>25. CASE Crash
  <2>1. CASE /\ jobStatus = "started" /\ jobStatus' = "cancelled" /\ With(Live) = {}
             /\ UNCHANGED <<jobAgent, turnStatus, turnAgent, msgs>>
    BY <2>1
  <2>2. CASE Restarts
    BY <2>2 DEF Restarts, Lapsed
  <2>3. ASSUME jobStatus = "started", NEW n \in Turns, Gives(n, jobAgent) PROVE Sticks
    BY <2>3 DEF Gives, Lapsed, Unused
  <2> QED
    BY <1>25, CrashRows, <1>y, <2>1, <2>2, <2>3
<1>26. CASE UNCHANGED vars
  BY <1>26 DEF vars
<1>27. ASSUME NEW w \in Tasks, FailReads(w) PROVE Sticks
  BY <1>27 DEF FailReads
<1>28. ASSUME NEW w \in Tasks, FailLooks(w) PROVE Sticks
  BY <1>28 DEF FailLooks
<1>29. ASSUME NEW c \in Callers, CancelFinds(c) PROVE Sticks
  BY <1>29 DEF CancelFinds, AfterCancel, Returns
<1> QED
  BY <1>1, <1>2, <1>3, <1>4, <1>5, <1>6, <1>7, <1>8, <1>9, <1>10, <1>11, <1>12, <1>13, <1>14,
     <1>15, <1>16, <1>17, <1>18, <1>19, <1>20, <1>21, <1>22, <1>23, <1>24, <1>25, <1>26,
     <1>27, <1>28, <1>29
  DEF Next, TaskStep, CallStep, Rest

(* What a failure record has read: of the other steps only a stored cancel    *)
(* touches its turn.                                                         *)
LEMMA RecordStep == Calm /\ IInv /\ [Next]_vars => RecordInv'
<1> SUFFICES ASSUME Calm, IInv, [Next]_vars PROVE RecordInv'
  OBVIOUS
<1>a. TypeOK /\ ReadsOK /\ RowInv /\ Sticks
  BY SticksStep DEF IInv, TypeOK
<1>b. TaskInv /\ TaskInv' /\ RecordInv /\ LockInv
  BY TasksStep DEF IInv
<1> SUFFICES ASSUME "move" \notin Modes PROVE RecordInv'
  BY <1>b DEF RecordInv, Recording, TaskInv, TaskOK, Calm
<1>c. \A w \in Tasks : pc[w] \in Active =>
        /\ taskTurn[w] \in Turns /\ taskTurn[w] \in Used /\ turnAgent[taskTurn[w]] = w[2]
        /\ turnStatus[taskTurn[w]] \in Begun
  BY <1>b DEF TaskInv, TaskOK, Used, Unused, With, Begun, Open, Ended
<1>d. \A v, w \in Tasks :
        pc[v] \in Active /\ pc[w] \in Active /\ taskTurn[v] = taskTurn[w] => v = w
  BY <1>b, <1>c DEF TaskInv, LaneInv, Active
<1> USE <1>a, TurnLifeAssumption, TaskNames DEF TypeOK, rows, watch, tasks, delivery, calls
<1>k. ASSUME \A w \in Tasks : pc'[w] \in Recording =>
               /\ pc'[w] = pc[w] /\ taskTurn'[w] = taskTurn[w] /\ reads'[w] = reads[w]
               /\ turnStatus[taskTurn[w]] \in Open =>
                    turnStatus'[taskTurn[w]] \in Open \cup Stopped
      PROVE  RecordInv'
  <2> SUFFICES ASSUME NEW w \in Tasks, pc'[w] \in Recording PROVE RecordOK(w)'
    BY DEF RecordInv
  <2> DEFINE t == taskTurn[w]
  <2>1. /\ pc'[w] = pc[w] /\ taskTurn'[w] = t /\ reads'[w] = reads[w]
        /\ turnStatus[t] \in Open => turnStatus'[t] \in Open \cup Stopped
    BY <1>k
  <2>2. t \in Turns /\ turnStatus[t] \in Begun
    BY <1>c, <2>1 DEF Recording, Active
  <2>3. /\ turnStatus[t] \in Ended => turnStatus'[t] \in Ended
        /\ turnStatus[t] \in Stopped => turnStatus'[t] \in Stopped
    <3>1. turnStatus[t] \in Ended => \/ turnStatus'[t] = turnStatus[t]
                                    \/ {turnStatus[t], turnStatus'[t]} = {"failed", "cancelled"}
      BY <2>2 DEF Sticks
    <3>2. turnStatus'[t] \in {turnStatus[t], turnStatus'[t]}
      OBVIOUS
    <3>3. \/ turnStatus[t] \in Ended => turnStatus'[t] = turnStatus[t]
          \/ turnStatus'[t] \in {"failed", "cancelled"}
      BY ONLY <3>1, <3>2, Zenon
    <3>4. {"failed", "cancelled"} = Stopped /\ Stopped \subseteq Ended
      BY DEF Stopped, Ended
    <3> QED
      BY ONLY <3>3, <3>4
  <2>4. RecordOK(w)
    BY <1>b, <2>1 DEF RecordInv
  <2> HIDE DEF t
  <2> QED
    BY ONLY <2>1, <2>3, <2>4 DEF RecordOK, t
<1>y. ASSUME UNCHANGED <<pc, taskTurn, reads, turnStatus>> PROVE RecordInv'
  BY <1>k, <1>y
<1>1. ASSUME NEW a \in Agents, NEW k \in Kinds, Enqueue(k, a) PROVE RecordInv'
  BY <1>1, <1>y DEF Enqueue
<1>2. ASSUME NEW a \in Agents, Attach(a) PROVE RecordInv'
  <2>1. Used = {} /\ UNCHANGED <<pc, taskTurn, reads>>
    BY <1>2 DEF Attach, RowInv
  <2> QED
    BY <1>c, <1>k, <2>1 DEF Recording, Active
<1>3. ASSUME NEW a \in Agents, PumpSelect(a) PROVE RecordInv'
  <2>1. \A v \in Tasks : pc'[v] \in Recording =>
           pc'[v] = pc[v] /\ taskTurn'[v] = taskTurn[v] /\ reads'[v] = reads[v]
    BY <1>3 DEF PumpSelect, Recording
  <2>2. turnStatus' = turnStatus
    BY <1>3 DEF PumpSelect
  <2> QED
    BY <1>k, <2>1, <2>2
<1>4. ASSUME NEW a \in Agents, PumpClaim(a) PROVE RecordInv'
  <2>1. \A v \in Tasks : pc'[v] \in Recording =>
           pc'[v] = pc[v] /\ taskTurn'[v] = taskTurn[v] /\ reads'[v] = reads[v]
    BY <1>4 DEF PumpClaim, Recording
  <2>2. turnStatus' = turnStatus
    BY <1>4 DEF PumpClaim
  <2> QED
    BY <1>k, <2>1, <2>2
<1>5. ASSUME NEW a \in Agents, PumpPromote(a) PROVE RecordInv'
  <2> DEFINE S == IF With({"queued"}) # {} THEN With({"queued"}) ELSE Unused
             t == First(S)
  <2>1. S # {} /\ S \subseteq Turns
    BY <1>5 DEF PumpPromote, With, Unused
  <2>2. t \in S /\ t \in Turns
    BY <2>1, FirstIn
  <2>3. turnStatus[t] \notin Begun
    BY <2>2 DEF Unused, With, Begun, Open, Ended
  <2>4. /\ turnStatus' = [turnStatus EXCEPT ![t] = "running"]
        /\ taskTurn' = [taskTurn EXCEPT ![Pump(a)] = t]
        /\ pc' = [pc EXCEPT ![Pump(a)] = "drive"] /\ reads' = reads
    BY <1>5 DEF PumpPromote
  <2> HIDE DEF S, t
  <2> QED
    BY <1>c, <1>k, <2>2, <2>3, <2>4 DEF Recording, Active
<1>6. ASSUME NEW t \in Turns, Answer(t) PROVE RecordInv'
  BY <1>6, <1>y DEF Answer
<1>7. ASSUME NEW t \in Turns, StartResume(t) PROVE RecordInv'
  <2>1. \A v \in Tasks : pc'[v] \in Recording =>
           pc'[v] = pc[v] /\ taskTurn'[v] = taskTurn[v] /\ reads'[v] = reads[v]
    BY <1>7 DEF StartResume, Recording
  <2>2. turnStatus' = turnStatus
    BY <1>7 DEF StartResume
  <2> QED
    BY <1>k, <2>1, <2>2
<1>8. ASSUME NEW a \in Agents, ResumeClaim(a) PROVE RecordInv'
  <2>1. /\ turnStatus' = turnStatus
           \/ turnStatus' = [turnStatus EXCEPT ![taskTurn[Resume(a)]] = "running"]
        /\ reads' = reads
        /\ \A v \in Tasks : pc'[v] \in Recording =>
              pc'[v] = pc[v] /\ taskTurn'[v] = taskTurn[v]
    BY <1>8 DEF ResumeClaim, Recording
  <2>2. taskTurn[Resume(a)] \in Turns
    BY <1>8, <1>b DEF ResumeClaim, TaskInv, TaskOK
  <2> QED
    BY <1>c, <1>k, <2>1, <2>2 DEF Recording, Active, Open
<1>9. ASSUME NEW w \in Tasks, NEW how \in Outcomes, DriveEnds(w, how) PROVE RecordInv'
  <2>1. \A v \in Tasks : pc'[v] \in Recording =>
           pc'[v] = pc[v] /\ taskTurn'[v] = taskTurn[v] /\ reads'[v] = reads[v]
    BY <1>9 DEF DriveEnds, Recording
  <2>2. turnStatus' = turnStatus
    BY <1>9 DEF DriveEnds
  <2> QED
    BY <1>k, <2>1, <2>2
<1>10. ASSUME NEW w \in Tasks, Persist(w) PROVE RecordInv'
  <2>1. /\ pc[w] = "persist" /\ pc' = [pc EXCEPT ![w] = "unwind"]
        /\ UNCHANGED <<taskTurn, reads>> /\ taskTurn[w] \in Turns
    BY <1>10, <1>c DEF Persist, Active
  <2>2. ASSUME NEW v \in Tasks, pc'[v] \in Recording
        PROVE  turnStatus'[taskTurn[v]] = turnStatus[taskTurn[v]]
    <3>1. taskTurn[v] # taskTurn[w] /\ taskTurn[v] \in Turns
      BY <1>c, <1>d, <2>1, <2>2 DEF Recording, Active
    <3> QED
      BY <1>10, PersistRows, <2>1, <3>1 DEF jobRows, Pauses, Ends
  <2>3. \A v \in Tasks : pc'[v] \in Recording => pc'[v] = pc[v]
    BY <2>1 DEF Recording
  <2> QED
    BY <1>k, <2>1, <2>2, <2>3
<1>11. ASSUME NEW w \in Tasks, Unwind(w) PROVE RecordInv'
  <2>1. CASE out[w] = "fail"
    <3>1. /\ pc' = [pc EXCEPT ![w] = "fail"]
          /\ UNCHANGED <<taskTurn, reads, turnStatus>>
      BY <1>11, <2>1 DEF Unwind
    <3> QED
      BY <1>k, <3>1 DEF Recording
  <2>2. CASE out[w] # "fail"
    <3>1. /\ pc' = [pc EXCEPT ![w] = "off"] /\ Gone(w) /\ UNCHANGED turnStatus
      BY <1>11, <2>2 DEF Unwind
    <3>2. \A v \in Tasks : pc'[v] \in Recording =>
             pc'[v] = pc[v] /\ taskTurn'[v] = taskTurn[v] /\ reads'[v] = reads[v]
      BY <3>1 DEF Gone, Recording
    <3> QED
      BY <1>k, <3>1, <3>2
  <2> QED
    BY <2>1, <2>2
<1>12. ASSUME NEW w \in Tasks, FailWrites(w) PROVE RecordInv'
  <2>1. /\ pc[w] = "record" /\ pc' = [pc EXCEPT ![w] = "off"] /\ taskTurn[w] \in Turns
        /\ \A v \in Tasks : v # w => taskTurn'[v] = taskTurn[v] /\ reads'[v] = reads[v]
    BY <1>12, <1>c DEF FailWrites, Gone, Active
  <2>2. ASSUME NEW v \in Tasks, pc'[v] \in Recording
        PROVE  v # w /\ pc'[v] = pc[v] /\ turnStatus'[taskTurn[v]] = turnStatus[taskTurn[v]]
    <3>1. v # w /\ pc'[v] = pc[v]
      BY <2>1, <2>2 DEF Recording
    <3>2. taskTurn[v] # taskTurn[w] /\ taskTurn[v] \in Turns
      BY <1>c, <1>d, <2>1, <2>2, <3>1 DEF Recording, Active
    <3> QED
      BY <1>12, FailRows, <2>1, <3>1, <3>2 DEF jobRows, Ends, Amends
  <2> QED
    BY <1>k, <2>1, <2>2
<1>13. ASSUME NEW w \in Tasks, Interrupted(w) PROVE RecordInv'
  <2>1. \A v \in Tasks : pc'[v] \in Recording =>
           pc'[v] = pc[v] /\ taskTurn'[v] = taskTurn[v] /\ reads'[v] = reads[v]
    BY <1>13 DEF Interrupted, Recording
  <2>2. turnStatus' = turnStatus
    BY <1>13 DEF Interrupted
  <2> QED
    BY <1>k, <2>1, <2>2
<1>14. ASSUME NEW w \in Tasks, Dies(w) PROVE RecordInv'
  <2>1. \A v \in Tasks : pc'[v] \in Recording =>
           pc'[v] = pc[v] /\ taskTurn'[v] = taskTurn[v] /\ reads'[v] = reads[v]
    BY <1>14 DEF Dies, Gone, Recording
  <2>2. turnStatus' = turnStatus
    BY <1>14 DEF Dies
  <2> QED
    BY <1>k, <2>1, <2>2
<1>15. ASSUME NEW c \in Callers, NEW t \in Turns, CallTurn(c, t) PROVE RecordInv'
  BY <1>15, <1>y DEF CallTurn
<1>16. ASSUME NEW c \in Callers, NEW a \in Agents, CallLane(c, a) PROVE RecordInv'
  BY <1>16, <1>y DEF CallLane
<1>17. ASSUME NEW c \in Callers, NEW a \in Agents, CallMove(c, a) PROVE RecordInv'
  BY <1>17, <1>y DEF CallMove
<1>18. ASSUME NEW c \in Callers, CallLocks(c) PROVE RecordInv'
  BY <1>18, <1>y DEF CallLocks
<1>19. ASSUME NEW c \in Callers, CancelReads(c) PROVE RecordInv'
  BY <1>19, <1>y DEF CancelReads
<1>20. ASSUME NEW c \in Callers, CancelInterrupts(c) PROVE RecordInv'
  BY <1>20, <1>y DEF CancelInterrupts
<1>21. ASSUME NEW c \in Callers, CancelAwaits(c) PROVE RecordInv'
  BY <1>21, <1>y DEF CancelAwaits
<1>22. ASSUME NEW c \in Callers, CancelPersists(c) PROVE RecordInv'
  <2>1. UNCHANGED <<pc, taskTurn, reads>>
        /\ turnStatus' = [turnStatus EXCEPT ![cTurn[c]] = "cancelled"]
    BY <1>22 DEF CancelPersists
  <2> QED
    BY <1>c, <1>k, <2>1 DEF Recording, Active, Stopped
<1>23. ASSUME NEW c \in Callers, LaneMarks(c) PROVE RecordInv'
  BY <1>23, <1>y DEF LaneMarks
<1>24. ASSUME NEW c \in Callers, Park(c) PROVE RecordInv'
  BY <1>24 DEF Park, IInv, CallInv, CallOK
<1>25. CASE Crash
  <2>1. \A w \in Tasks : pc'[w] \in {"lock", "off"}
    BY <1>25 DEF Crash
  <2> QED
    BY <2>1 DEF RecordInv, Recording
<1>26. CASE UNCHANGED vars
  BY <1>26, <1>y DEF vars
<1>27. ASSUME NEW w \in Tasks, FailReads(w) PROVE RecordInv'
  <2> DEFINE t == taskTurn[w]
             r == reads[w]
  <2>1. /\ t \in Turns /\ t \in Used /\ turnAgent[t] = w[2] /\ turnStatus[t] \in Begun
        /\ jobAgent = w[2] /\ \A u \in Used : u <= t
        /\ turnStatus[t] \in Ended => jobStatus \in Ended
    BY <1>27, <1>c DEF IInv, StayInv, Active, FailReads
  <2>2. turnStatus[t] \in Open => jobStatus = "started"
    BY <2>1 DEF RowInv, With
  <2> DEFINE job == jobStatus \in {"queued", "started"}
  <2>3. /\ job => turnStatus[t] \in Open
        /\ ~job => turnStatus[t] \in Ended
    BY <2>1, <2>2 DEF Ended, Begun
  <2>4. /\ pc' = [pc EXCEPT ![w] = "look"] /\ UNCHANGED <<turnStatus, taskTurn>>
        /\ reads' = [reads EXCEPT ![w] = IF w[1] = "resume" THEN TurnRead(NoRead, t)
                                         ELSE JobRead(NoRead)]
    BY <1>27 DEF FailReads
  <2>5. ASSUME NEW v \in Tasks, v # w, pc'[v] \in Recording PROVE RecordOK(v)'
    <3>1. RecordOK(v)
      BY <1>b, <2>4, <2>5 DEF RecordInv
    <3>2. pc'[v] = pc[v] /\ reads'[v] = reads[v]
      BY <2>4, <2>5 DEF ReadsOK
    <3> QED
      BY <2>4, <3>1, <3>2 DEF RecordOK
  <2>6. CASE w[1] = "resume"
    <3>1. /\ reads'[w].as = turnStatus[t] /\ reads'[w].turn = t /\ reads'[w].job = FALSE
      BY <2>4, <2>6 DEF TurnRead, NoRead, ReadsOK
    <3>2. RecordOK(w)'
      BY <2>1, <2>4, <2>6, <3>1 DEF RecordOK, Begun, Open, Ended
    <3> QED
      BY <2>5, <3>2 DEF RecordInv
  <2>7. CASE w[1] = "pump"
    <3>0. JobRead(NoRead) = [NoRead EXCEPT !.job = job, !.lane = jobAgent]
      BY Zenon DEF JobRead
    <3> HIDE DEF job
    <3>1. reads'[w] = [NoRead EXCEPT !.job = job, !.lane = jobAgent]
      BY <2>4, <2>7, <3>0 DEF ReadsOK
    <3>2. /\ reads'[w].as = "none" /\ reads'[w].lane = jobAgent /\ reads'[w].job = job
      BY ONLY <3>1 DEF NoRead
    <3>3. RecordOK(w)'
      BY <2>1, <2>3, <2>4, <2>7, <3>2 DEF RecordOK, Open, Ended
    <3> QED
      BY <2>5, <3>3 DEF RecordInv
  <2> QED
    BY <2>6, <2>7
<1>28. ASSUME NEW w \in Tasks, FailLooks(w) PROVE RecordInv'
  <2> DEFINE t == taskTurn[w]
             r == reads[w]
  <2>1. /\ t \in Turns /\ t \in Used /\ turnAgent[t] = w[2] /\ turnStatus[t] \in Begun
        /\ jobAgent = w[2] /\ \A u \in Used : u <= t
        /\ turnStatus[t] \in Ended => jobStatus \in Ended
    BY <1>28, <1>c DEF IInv, StayInv, Active, FailLooks
  <2>2. turnStatus[t] \in Open => jobStatus = "started"
    BY <2>1 DEF RowInv, With
  <2> DEFINE job == jobStatus \in {"queued", "started"}
  <2>3. /\ job => turnStatus[t] \in Open
        /\ ~job => turnStatus[t] \in Ended
    BY <2>1, <2>2 DEF Ended, Begun
  <2> DEFINE mine == {u \in With(Open) : turnAgent[u] = r.lane}
  <2>4. /\ pc[w] = "look" /\ pc' = [pc EXCEPT ![w] = "record"]
        /\ UNCHANGED <<turnStatus, taskTurn>>
        /\ reads' = [reads EXCEPT ![w] =
                        IF w[1] = "resume" THEN JobRead(r)
                        ELSE IF mine = {} THEN r ELSE TurnRead(r, First(mine))]
    BY <1>28 DEF FailLooks
  <2>5. ASSUME NEW v \in Tasks, v # w, pc'[v] \in Recording PROVE RecordOK(v)'
    <3>1. RecordOK(v)
      BY <1>b, <2>4, <2>5 DEF RecordInv
    <3>2. pc'[v] = pc[v] /\ reads'[v] = reads[v]
      BY <2>4, <2>5 DEF ReadsOK
    <3> QED
      BY <2>4, <3>1, <3>2 DEF RecordOK
  <2>6. RecordOK(w) /\ r \in [job : BOOLEAN, lane : Agents \cup {Nobody},
                              turn : Turns \cup {Nobody}, as : Ended \cup Live \cup {"none"}]
    BY <1>b, <2>4 DEF RecordInv, Recording, ReadsOK
  <2>7. CASE w[1] = "resume"
    <3>0. JobRead(r) = [r EXCEPT !.job = job, !.lane = jobAgent]
      BY Zenon DEF JobRead
    <3>2. r.as \in Open \cup Ended /\ r.turn = t
      BY <2>6, <2>7 DEF RecordOK, Live
    <3> HIDE DEF job
    <3>1. /\ reads'[w].as = r.as /\ reads'[w].turn = r.turn /\ reads'[w].job = job
      BY <2>4, <2>6, <2>7, <3>0 DEF ReadsOK
    <3>3. RecordOK(w)'
      BY <2>3, <2>4, <2>6, <2>7, <3>1, <3>2 DEF RecordOK, Open, Ended
    <3> QED
      BY <2>5, <3>3 DEF RecordInv
  <2>8. CASE w[1] = "pump"
    <3>1. r.lane = w[2] /\ r.as = "none"
      BY <2>4, <2>6, <2>8 DEF RecordOK
    <3>2. CASE mine = {}
      <4>1. turnStatus[t] \in Ended
        BY <2>1, <3>1, <3>2 DEF With, Begun
      <4>2. reads'[w] = r
        BY <2>4, <2>8, <3>2 DEF ReadsOK
      <4>3. RecordOK(w)'
        BY <2>4, <2>6, <2>8, <3>1, <4>1, <4>2 DEF RecordOK, Open, Ended
      <4> QED
        BY <2>5, <4>3 DEF RecordInv
    <3>3. CASE mine # {}
      <4> DEFINE u == First(mine)
      <4>1. mine \subseteq Turns
        BY DEF With
      <4>2. u \in mine
        <5> HIDE DEF mine
        <5> QED
          BY <3>3, <4>1, FirstIn
      <4>3. u \in With(Open) /\ u \in Turns
        BY <4>1, <4>2
      <4> HIDE DEF u
      <4>4. u \in With(Live) /\ u \in Used
        BY <4>3 DEF With, Live, Used, Unused, Open
      <4>5. u = t
        BY <2>1, <4>3, <4>4 DEF RowInv, Turns
      <4>6. reads'[w] = TurnRead(r, t)
        BY <2>4, <2>8, <3>3, <4>5 DEF ReadsOK, u
      <4>7. /\ reads'[w].as = turnStatus[t] /\ reads'[w].turn = t /\ reads'[w].job = r.job
        BY <2>6, <4>6 DEF TurnRead
      <4>8. turnStatus[t] \in Open
        BY <4>3, <4>5 DEF With
      <4>9. r.job \/ turnStatus[t] \in Ended
        BY <2>6, <2>8 DEF RecordOK
      <4>10. RecordOK(w)'
        BY <2>4, <2>8, <4>7, <4>8, <4>9 DEF RecordOK, Open, Ended
      <4> QED
        BY <2>5, <4>10 DEF RecordInv
    <3> QED
      BY <3>2, <3>3
  <2> QED
    BY <2>7, <2>8
<1>29. ASSUME NEW c \in Callers, CancelFinds(c) PROVE RecordInv'
  BY <1>29, <1>y DEF CancelFinds
<1> QED
  BY <1>1, <1>2, <1>3, <1>4, <1>5, <1>6, <1>7, <1>8, <1>9, <1>10, <1>11, <1>12, <1>13, <1>14,
     <1>15, <1>16, <1>17, <1>18, <1>19, <1>20, <1>21, <1>22, <1>23, <1>24, <1>25, <1>26,
     <1>27, <1>28, <1>29
  DEF Next, TaskStep, CallStep, Rest

(* A cancel that found its turn alive still finds it the newest when it       *)
(* writes; meanwhile only a failure record may have ended it.                *)
LEMMA WriteStep == Calm /\ IInv /\ [Next]_vars => WriteInv'
<1> SUFFICES ASSUME Calm, IInv, [Next]_vars PROVE WriteInv'
  OBVIOUS
<1>a. TypeOK /\ RowInv /\ WriteInv
  BY DEF IInv
<1>b. LockInv /\ TaskInv /\ CallInv
  BY DEF IInv
<1>c. \A c, d \in Callers : cPc[c] \in Locked /\ cPc[d] \in Locked => c = d
  BY <1>b DEF LockInv
<1>d. \A c \in Callers : cPc[c] = "write" =>
        /\ cTurn[c] \in Turns /\ cTurn[c] \in Used /\ WriteOK(c)
        /\ \A t \in With(Live) : t = cTurn[c]
  <2> SUFFICES ASSUME NEW c \in Callers, cPc[c] = "write"
               PROVE  /\ cTurn[c] \in Turns /\ cTurn[c] \in Used /\ WriteOK(c)
                      /\ \A t \in With(Live) : t = cTurn[c]
    OBVIOUS
  <2>1. cTurn[c] \in Turns /\ cTurn[c] \in Used /\ WriteOK(c)
    BY <1>a, <1>b DEF CallInv, CallOK, Cancels, Used, WriteInv
  <2>2. \A t \in With(Live) : t \in Turns /\ t <= cTurn[c] /\ cTurn[c] <= t
    BY <1>a, <2>1 DEF WriteOK, RowInv, With, Live, Open, Used, Unused
  <2> QED
    BY <2>1, <2>2, TurnLifeAssumption DEF Turns
<1> USE <1>a, TurnLifeAssumption, TaskNames DEF TypeOK, rows, watch, tasks, delivery, calls
<1>n. ASSUME \A c \in Callers : cPc'[c] # "write" PROVE WriteInv'
  BY <1>n DEF WriteInv, WriteOK
<1>f. ASSUME jobLock \notin Callers, UNCHANGED cPc PROVE WriteInv'
  BY <1>b, <1>f, <1>n DEF LockInv, Locked
<1>k. ASSUME \A c \in Callers : cPc'[c] = "write" => cPc[c] = "write" /\ cTurn'[c] = cTurn[c],
             UNCHANGED <<jobStatus, turnStatus>>
      PROVE  WriteInv'
  BY <1>k DEF WriteInv, WriteOK, Used, Unused, With
<1>1. ASSUME NEW a \in Agents, NEW k \in Kinds, Enqueue(k, a) PROVE WriteInv'
  <2>1. \A c \in Callers : cPc[c] = "off"
    BY <1>1, <1>b DEF Enqueue, LockInv
  <2> QED
    BY <1>1, <1>n, <2>1 DEF Enqueue
<1>2. ASSUME NEW a \in Agents, Attach(a) PROVE WriteInv'
  BY <1>2, <1>b, <1>f DEF Attach, LockInv
<1>3. ASSUME NEW a \in Agents, PumpSelect(a) PROVE WriteInv'
  BY <1>3, <1>k DEF PumpSelect
<1>4. ASSUME NEW a \in Agents, PumpClaim(a) PROVE WriteInv'
  BY <1>4, <1>f DEF PumpClaim
<1>5. ASSUME NEW a \in Agents, PumpPromote(a) PROVE WriteInv'
  <2>1. jobLock = a /\ UNCHANGED cPc
    BY <1>5, <1>b DEF PumpPromote, LockInv
  <2> QED
    BY <1>f, <2>1
<1>6. ASSUME NEW t \in Turns, Answer(t) PROVE WriteInv'
  BY <1>6, <1>k DEF Answer
<1>7. ASSUME NEW t \in Turns, StartResume(t) PROVE WriteInv'
  BY <1>7, <1>k DEF StartResume
<1>8. ASSUME NEW a \in Agents, ResumeClaim(a) PROVE WriteInv'
  <2>1. CASE a \in cancelling
    <3>1. UNCHANGED <<jobStatus, turnStatus, cPc, cTurn>>
      BY <1>8, <2>1 DEF ResumeClaim
    <3> QED
      BY <1>k, <3>1
  <2>2. CASE a \notin cancelling
    <3>1. jobLock = Nobody /\ UNCHANGED cPc
      BY <1>8, <2>2 DEF ResumeClaim
    <3> QED
      BY <1>f, <3>1
  <2> QED
    BY <2>1, <2>2
<1>9. ASSUME NEW w \in Tasks, NEW how \in Outcomes, DriveEnds(w, how) PROVE WriteInv'
  BY <1>9, <1>k DEF DriveEnds
<1>10. ASSUME NEW w \in Tasks, Persist(w) PROVE WriteInv'
  <2>1. /\ pc[w] = "persist" /\ UNCHANGED <<cPc, cTurn>> /\ taskTurn[w] \in Turns
    BY <1>10, <1>b DEF Persist, TaskInv, TaskOK, Active
  <2>2. CASE \A c \in Callers : cPc[c] # "write"
    BY <1>n, <2>1, <2>2
  <2>3. ASSUME NEW c \in Callers, cPc[c] = "write" PROVE WriteInv'
    <3>1. taskTurn[w] # cTurn[c]
      BY <1>b, <2>1, <2>3 DEF CallInv, WaitOK, OnBoard
    <3>2. taskTurn[w] \notin With(Live)
      BY <1>d, <2>3, <3>1
    <3>3. UNCHANGED jobRows
      BY <1>10, PersistRows, <2>1, <3>2 DEF Pauses, Ends, With, Live, Open
    <3> QED
      BY <1>k, <2>1, <3>3 DEF jobRows
  <2> QED
    BY <2>2, <2>3
<1>11. ASSUME NEW w \in Tasks, Unwind(w) PROVE WriteInv'
  BY <1>11, <1>k DEF Unwind
<1>12. ASSUME NEW w \in Tasks, FailWrites(w) PROVE WriteInv'
  <2>1. UNCHANGED <<cPc, cTurn>> /\ taskTurn[w] \in Turns /\ "move" \notin Modes
    BY <1>12, <1>b, FailRows DEF FailWrites, TaskInv, TaskOK, Active
  <2> SUFFICES ASSUME NEW c \in Callers, cPc[c] = "write" PROVE WriteOK(c)'
    BY <2>1 DEF WriteInv, WriteOK
  <2> DEFINE t == cTurn[c]
  <2>2. t \in Turns /\ t \in Used /\ WriteOK(c) /\ \A u \in With(Live) : u = t
    BY <1>d
  <2>3. CASE UNCHANGED jobRows
    BY <2>1, <2>2, <2>3 DEF jobRows, WriteOK, Used, Unused, With
  <2>4. CASE Ends(taskTurn[w], "failed")
    <3>1. /\ taskTurn[w] = t /\ turnStatus[t] \in Live /\ jobStatus' = "failed"
          /\ turnStatus' = [turnStatus EXCEPT ![t] = "failed"]
      BY <2>2, <2>4 DEF Ends, With
    <3>2. Used' = Used
      BY <2>2, <3>1 DEF Used, Unused, With, Live, Open
    <3> QED
      BY <2>1, <2>2, <3>1, <3>2 DEF WriteOK, Stopped
  <2>5. CASE Amends(taskTurn[w], "failed")
    <3>1. /\ taskTurn[w] \in Used /\ \A u \in Used : u <= taskTurn[w]
          /\ turnStatus[taskTurn[w]] \in Stopped /\ jobStatus' \in Stopped
          /\ turnStatus' = turnStatus \/ turnStatus' = [turnStatus EXCEPT ![taskTurn[w]] = "failed"]
      BY <2>5 DEF Amends
    <3>2. taskTurn[w] = t
      BY <2>1, <2>2, <3>1 DEF WriteOK, Turns
    <3>3. turnStatus[t] = "failed"
      BY <2>2, <3>1, <3>2 DEF WriteOK, Stopped, Live, Open
    <3>4. turnStatus' = turnStatus
      BY <3>1, <3>2, <3>3
    <3> QED
      BY <2>1, <2>2, <3>1, <3>4 DEF WriteOK, Used, Unused, With
  <2> QED
    BY <1>12, FailRows, <2>3, <2>4, <2>5
<1>13. ASSUME NEW w \in Tasks, Interrupted(w) PROVE WriteInv'
  BY <1>13, <1>k DEF Interrupted
<1>14. ASSUME NEW w \in Tasks, Dies(w) PROVE WriteInv'
  BY <1>14, <1>k DEF Dies
<1>15. ASSUME NEW c \in Callers, NEW t \in Turns, CallTurn(c, t) PROVE WriteInv'
  BY <1>15, <1>k DEF CallTurn
<1>16. ASSUME NEW c \in Callers, NEW a \in Agents, CallLane(c, a) PROVE WriteInv'
  BY <1>16, <1>k DEF CallLane
<1>17. ASSUME NEW c \in Callers, NEW a \in Agents, CallMove(c, a) PROVE WriteInv'
  BY <1>17, <1>k DEF CallMove
<1>18. ASSUME NEW c \in Callers, CallLocks(c) PROVE WriteInv'
  <2>1. \A d \in Callers : cPc[d] # "write"
    BY <1>18, <1>b DEF CallLocks, LockInv, Locked
  <2>2. \A d \in Callers : cPc'[d] # "write"
    BY <1>18, <2>1 DEF CallLocks, Returns
  <2> QED
    BY <1>n, <2>2
<1>19. ASSUME NEW c \in Callers, CancelReads(c) PROVE WriteInv'
  <2>1. \A d \in Callers : d # c => cPc[d] # "write"
    BY <1>19, <1>c DEF CancelReads, Locked
  <2>2. \A d \in Callers : cPc'[d] # "write"
    BY <1>19, <2>1 DEF CancelReads, AfterCancel, Returns
  <2> QED
    BY <1>n, <2>2
<1>20. ASSUME NEW c \in Callers, CancelInterrupts(c) PROVE WriteInv'
  BY <1>20, <1>k DEF CancelInterrupts
<1>21. ASSUME NEW c \in Callers, CancelAwaits(c) PROVE WriteInv'
  BY <1>21, <1>k DEF CancelAwaits
<1>22. ASSUME NEW c \in Callers, CancelPersists(c) PROVE WriteInv'
  <2>1. \A d \in Callers : d # c => cPc[d] # "write"
    BY <1>22, <1>c DEF CancelPersists, Locked
  <2>2. \A d \in Callers : cPc'[d] # "write"
    BY <1>22, <2>1 DEF CancelPersists, AfterCancel, Returns
  <2> QED
    BY <1>n, <2>2
<1>23. ASSUME NEW c \in Callers, LaneMarks(c) PROVE WriteInv'
  <2>1. \A d \in Callers : d # c => cPc[d] # "write"
    BY <1>23, <1>c DEF LaneMarks, Locked
  <2>2. \A d \in Callers : cPc'[d] # "write"
    BY <1>23, <2>1 DEF LaneMarks, Returns
  <2> QED
    BY <1>n, <2>2
<1>24. ASSUME NEW c \in Callers, Park(c) PROVE WriteInv'
  <2>1. \A d \in Callers : d # c => cPc[d] # "write"
    BY <1>24, <1>c DEF Park, Locked
  <2>2. \A d \in Callers : cPc'[d] # "write"
    BY <1>24, <2>1 DEF Park, Returns
  <2> QED
    BY <1>n, <2>2
<1>25. CASE Crash
  BY <1>25, <1>n DEF Crash
<1>26. CASE UNCHANGED vars
  BY <1>26, <1>k DEF vars
<1>27. ASSUME NEW w \in Tasks, FailReads(w) PROVE WriteInv'
  BY <1>27, <1>k DEF FailReads
<1>28. ASSUME NEW w \in Tasks, FailLooks(w) PROVE WriteInv'
  BY <1>28, <1>k DEF FailLooks
<1>29. ASSUME NEW c \in Callers, CancelFinds(c) PROVE WriteInv'
  <2> DEFINE t == cTurn[c]
  <2>1. /\ cPc[c] = "persist" /\ t \in Turns /\ UNCHANGED <<jobStatus, turnStatus>>
        /\ \A d \in Callers : d # c => cPc[d] # "write"
    BY <1>29, <1>b, <1>c DEF CancelFinds, CallInv, CallOK, Cancels, Used, Locked
  <2>2. CASE turnStatus[t] \notin Live
    <3>1. \A d \in Callers : cPc'[d] # "write"
      BY <1>29, <2>1, <2>2 DEF CancelFinds, AfterCancel, Returns
    <3> QED
      BY <1>n, <3>1
  <2>3. CASE turnStatus[t] \in Live
    <3>1. cPc' = [cPc EXCEPT ![c] = "write"] /\ UNCHANGED cTurn
      BY <1>29, <2>3 DEF CancelFinds
    <3>2. \A u \in Used : u <= t
      BY <2>1, <2>3 DEF RowInv, With
    <3>3. Used' = Used
      BY <2>1 DEF Used, Unused, With
    <3>4. WriteOK(c)'
      BY <2>1, <2>3, <3>1, <3>2, <3>3 DEF WriteOK, Live, Open
    <3> QED
      BY <2>1, <3>1, <3>4 DEF WriteInv, WriteOK
  <2> QED
    BY <2>2, <2>3
<1> QED
  BY <1>1, <1>2, <1>3, <1>4, <1>5, <1>6, <1>7, <1>8, <1>9, <1>10, <1>11, <1>12, <1>13, <1>14,
     <1>15, <1>16, <1>17, <1>18, <1>19, <1>20, <1>21, <1>22, <1>23, <1>24, <1>25, <1>26,
     <1>27, <1>28, <1>29
  DEF Next, TaskStep, CallStep, Rest

-----------------------------------------------------------------------------
LEMMA LifeInit == Init => IInv
<1> SUFFICES ASSUME Init PROVE IInv
  OBVIOUS
<1> USE TurnLifeAssumption, TaskNames
<1>1. TypeOK
  BY DEF Init, TypeOK, ReadsOK, NoRead, Ended, Live, Open
<1>2. With(Live) = {} /\ With(Open) = {} /\ Used = {}
  BY DEF Init, With, Live, Open, Used, Unused
<1>3. LockInv /\ RowInv /\ MessageInv
  BY <1>2 DEF Init, LockInv, RowInv, MessageInv, Locked, Undone
<1>6. RecordInv /\ WriteInv
  BY DEF Init, RecordInv, Recording, WriteInv, WriteOK
<1>4. TaskInv /\ StayInv
  BY DEF Init, TaskInv, TaskOK, LaneInv, PromoteInv, StayInv, Active, OnBoard
<1>5. CallInv
  BY DEF Init, CallInv, CallOK, WaitOK, Cancels
<1> QED
  BY <1>1, <1>3, <1>4, <1>5, <1>6 DEF IInv

(* The inductive invariant: who holds the job lock, what the rows say, where *)
(* the message is, which task is on which turn and what a cancel has found.  *)
THEOREM LifeInductive == Calm => (Spec => []IInv)
<1>1. ASSUME Calm PROVE IInv /\ [Next]_vars => IInv'
  BY <1>1, TypeStep, LockStep, RowStep, MessageStep, TasksStep, StayStep, RecordStep,
     CallsStep, WriteStep DEF IInv
<1>2. CASE Calm
  BY <1>1, <1>2, LifeInit, PTL DEF Spec
<1> QED
  BY <1>2

LEMMA AtMostOne ==
    ASSUME NEW S, \A x, y \in S : x = y
    PROVE  Cardinality(S) <= 1
<1>1. CASE S = {}
  BY <1>1, FS_EmptySet
<1>2. ASSUME NEW x \in S PROVE Cardinality(S) = 1
  <2>1. S = {x}
    OBVIOUS
  <2> QED
    BY <2>1, FS_Singleton
<1> QED
  BY <1>1, <1>2

(* The job has at most one turn that is queued, running or paused, and none  *)
(* once it is over (promote, park_job, recover), however many lanes, calls   *)
(* and crashes there are.                                                    *)
THEOREM OneLiveTurn == Calm => (Spec => []NoStrandedTurn)
<1>1. IInv => NoStrandedTurn
  <2> SUFFICES ASSUME IInv PROVE NoStrandedTurn
    OBVIOUS
  <2>1. Cardinality(With(Live)) <= 1
    BY AtMostOne DEF IInv, RowInv
  <2> QED
    BY <2>1 DEF IInv, RowInv, NoStrandedTurn, Undone
<1> QED
  BY <1>1, LifeInductive, PTL

(* The chat shows the message once, on the live turn while there is one      *)
(* (_attach_user_message, the persist transactions, park_job, recover).      *)
THEOREM OneMessage == Calm => (Spec => []MessageFollowsJob)
<1>1. IInv => MessageFollowsJob
  <2> SUFFICES ASSUME IInv PROVE MessageFollowsJob
    OBVIOUS
  <2>1. Cardinality(msgs) <= 1
    BY AtMostOne DEF IInv, MessageInv
  <2> QED
    BY <2>1 DEF IInv, MessageInv, MessageFollowsJob, Undone
<1> QED
  BY <1>1, LifeInductive, PTL

(* A driven turn is the running turn of a started job, and no second task    *)
(* drives: _cancel waits for the task before the job can run elsewhere.      *)
THEOREM OneDrive == Calm => (Spec => []NoZombieDrive)
<1>1. IInv => NoZombieDrive
  <2> SUFFICES ASSUME IInv, NEW w \in Tasks, pc[w] = "drive"
               PROVE  /\ turnStatus[taskTurn[w]] = "running" /\ jobStatus = "started"
                      /\ \A v \in Tasks : pc[v] = "drive" => v = w
    BY DEF NoZombieDrive
  <2>1. \A v \in Tasks : pc[v] = "drive" => /\ taskTurn[v] \in With(Open)
                                            /\ turnStatus[taskTurn[v]] = "running"
                                            /\ board[taskTurn[v]] = v
    BY DEF IInv, TaskInv, TaskOK, Active, OnBoard, With, Open
  <2>2. jobStatus = "started"
    BY <2>1 DEF IInv, RowInv
  <2>3. \A t, u \in With(Open) : t = u
    BY DEF IInv, RowInv, With, Live
  <2> QED
    BY <2>1, <2>2, <2>3
<1> QED
  BY <1>1, LifeInductive, PTL

(* However a job is moved, cancelled and retried, its message is on its one   *)
(* live turn, and the turn it left does not go on (park_job,                 *)
(* _preserve_retry_message).                                                 *)
THEOREM MovesKeepJobWhole == Calm => (Spec => []MovedJobIsWhole)
<1>1. MessageFollowsJob /\ NoStrandedTurn /\ NoZombieDrive => MovedJobIsWhole
  BY DEF MovedJobIsWhole
<1> QED
  BY <1>1, OneMessage, OneLiveTurn, OneDrive, PTL

-----------------------------------------------------------------------------
(* What is done stays done. A failure and a cancel are only ever rewritten   *)
(* into each other, and only by a failure record or stored cancel that read   *)
(* the row before the other was written (record_turn_failure, the persist_*  *)
(* cancels); nothing else that comes late rewrites an ending, and only        *)
(* park_job opens the job its move has cancelled.                            *)
THEOREM EndingsAreFinal == Calm => (Spec => EndingsStick)
<1>1. ASSUME Calm PROVE IInv /\ [Next]_vars => [Sticks]_vars
  BY <1>1, SticksStep
<1>2. CASE Calm
  BY <1>1, <1>2, LifeInductive, PTL DEF Spec, EndingsStick
<1> QED
  BY <1>2

-----------------------------------------------------------------------------
(* The refinement. The used turns are 1, 2, ... without a gap, the live one   *)
(* is the last; so a step changes the last try or adds one.                  *)
States == Ended \cup Live

LEMMA TriesShape ==
    ASSUME IInv
    PROVE  /\ Tries \in Seq(States) /\ Len(Tries) \in Nat /\ Len(Tries) <= MaxTurns
           /\ DOMAIN Tries = 1..Len(Tries) /\ Used = 1..Len(Tries)
           /\ Tries = [t \in 1..Len(Tries) |-> turnStatus[t]]
           /\ \A t \in Used : Tries[t] = turnStatus[t]
           /\ \A t \in With(Live) : t = Len(Tries)
<1>1. TypeOK /\ RowInv
  BY DEF IInv
<1>2. Used \subseteq 1..MaxTurns /\ MaxTurns \in Nat /\ Used = With(States)
  BY <1>1, TurnLifeAssumption DEF Used, Unused, Turns, With, TypeOK, States, Ended, Live, Open
<1>3. PICK k \in Nat : Used = 1..k /\ k <= MaxTurns
  <2>1. CASE Used = {}
    BY <1>2, <2>1
  <2>2. CASE Used # {}
    <3>1. Used \subseteq 0..MaxTurns
      BY <1>2
    <3>2. PICK k \in Used : \A u \in Used : u <= k
      BY <1>2, <2>2, <3>1, GreatestElement
    <3>3. k \in Nat /\ k <= MaxTurns
      BY <1>2
    <3>4. ASSUME NEW t \in 1..k PROVE t \in Used
      BY <1>1, <1>2, <3>2, <3>3 DEF RowInv, Used, Turns
    <3>5. ASSUME NEW t \in Used PROVE t \in 1..k
      BY <1>2, <3>2, <3>3
    <3> QED
      BY <3>3, <3>4, <3>5
  <2> QED
    BY <2>1, <2>2
<1>4. Tries = [t \in 1..k |-> turnStatus[t]]
  BY <1>2, <1>3 DEF Tries, States
<1>5. \A t \in 1..k : turnStatus[t] \in States
  BY <1>2, <1>3 DEF With
<1>6. Tries \in Seq(States) /\ Len(Tries) = k /\ DOMAIN Tries = 1..k
  BY <1>4, <1>5
<1>7. \A t \in With(Live) : t = k
  <2> SUFFICES ASSUME NEW t \in With(Live) PROVE t = k
    OBVIOUS
  <2>1. t \in Used /\ \A u \in Used : u <= t
    BY <1>1, <1>2 DEF RowInv, With, States
  <2> QED
    BY <1>3, <2>1
<1> QED
  BY <1>3, <1>4, <1>6, <1>7

(* The last try gets another state.                                          *)
LEMMA LastChanges ==
    ASSUME IInv, NEW t, t \in With(Live) \/ (t \in Used /\ \A u \in Used : u <= t),
           NEW s \in States,
           turnStatus' = [turnStatus EXCEPT ![t] = s]
    PROVE  /\ t = Len(Tries) /\ Len(Tries) > 0 /\ Tries[Len(Tries)] = turnStatus[t]
           /\ Tries' = [Tries EXCEPT ![Len(Tries)] = s]
<1>1. /\ Tries \in Seq(States) /\ Len(Tries) \in Nat /\ DOMAIN Tries = 1..Len(Tries)
      /\ Used = 1..Len(Tries) /\ t = Len(Tries) /\ \A u \in Used : Tries[u] = turnStatus[u]
  <2>1. CASE t \in With(Live)
    BY <2>1, TriesShape
  <2>2. CASE t \in Used /\ \A u \in Used : u <= t
    <3>1. Used = 1..Len(Tries) /\ Len(Tries) \in Nat
      BY TriesShape
    <3>2. t = Len(Tries)
      BY <2>2, <3>1
    <3> QED
      BY <3>2, TriesShape
  <2> QED
    BY <2>1, <2>2
<1>2. TypeOK /\ t \in Turns /\ t \in Used /\ Used = With(States)
  BY DEF IInv, With, Used, Unused, TypeOK, States, Live, Open, Ended
<1>3. With(States)' = With(States)
  BY <1>2 DEF With, TypeOK
<1>4. Tries' = [u \in Used |-> turnStatus'[u]]
  BY <1>2, <1>3 DEF Tries, States
<1>5. \A u \in Used : turnStatus'[u] = IF u = t THEN s ELSE Tries[u]
  BY <1>1, <1>2 DEF TypeOK, Used
<1>6. Tries' = [u \in Used |-> IF u = t THEN s ELSE Tries[u]]
  BY <1>4, <1>5
<1>7. Tries = [u \in Used |-> Tries[u]]
  BY <1>1, TriesShape
<1> QED
  BY <1>1, <1>2, <1>6, <1>7

(* A new try, beside which the others are as in the sequence before.          *)
LEMMA TryAdded ==
    ASSUME IInv, NEW n \in Unused, \A u \in Unused : n <= u,
           NEW before \in Seq(States), Len(before) = Len(Tries),
           NEW s \in States, turnStatus'[n] = s,
           \A u \in Used : turnStatus'[u] = before[u],
           \A u \in Unused : u # n => turnStatus'[u] = "none"
    PROVE  n = Len(Tries) + 1 /\ Tries' = Append(before, s)
<1>1. Len(Tries) \in Nat /\ Used = 1..Len(Tries)
  BY TriesShape
<1>2. Turns = 1..MaxTurns /\ MaxTurns \in Nat /\ n \in Turns
  BY TurnLifeAssumption DEF Turns, Unused, With
<1>3. n = Len(Tries) + 1
  <2>1. n \notin 1..Len(Tries)
    BY <1>1 DEF Used
  <2>2. CASE n > Len(Tries) + 1
    <3>1. Len(Tries) + 1 \in Turns /\ Len(Tries) + 1 \notin Used
      BY <1>1, <1>2, <2>2
    <3>2. Len(Tries) + 1 \in Unused
      BY <3>1 DEF Used
    <3> QED
      BY <1>1, <1>2, <2>2, <3>2
  <2> QED
    BY <1>1, <1>2, <2>1, <2>2
<1>4. \A u \in Turns : u \in With(States)' <=> u \in Used \cup {n}
  <2>1. "none" \notin States
    BY DEF States, Ended, Live, Open
  <2>2. \A u \in Used : before[u] \in States
    BY <1>1
  <2>3. \A u \in Turns : u \in With(States)' <=> turnStatus'[u] \in States
    BY DEF With
  <2> QED
    BY <2>1, <2>2, <2>3 DEF Used
<1>5. With(States)' = 1..Len(Tries) + 1
  <2>1. With(States)' \subseteq Turns
    BY DEF With
  <2>2. ASSUME NEW u PROVE u \in With(States)' <=> u \in Used \cup {n}
    BY <1>2, <1>4, <2>1 DEF Used
  <2>3. With(States)' = Used \cup {n}
    BY <2>2
  <2> QED
    BY <1>1, <1>3, <2>3
<1>6. Tries' = [u \in 1..Len(Tries) + 1 |-> turnStatus'[u]]
  BY <1>5 DEF Tries, States
<1>7. Append(before, s) = [u \in 1..Len(Tries) + 1 |-> IF u = n THEN s ELSE before[u]]
  <2>1. /\ Append(before, s) \in Seq(States) /\ Len(Append(before, s)) = Len(Tries) + 1
        /\ \A u \in 1..Len(Tries) : Append(before, s)[u] = before[u]
        /\ Append(before, s)[Len(Tries) + 1] = s
    BY <1>1
  <2> DEFINE A == Append(before, s)
  <2>2. A = [u \in 1..Len(A) |-> A[u]]
    <3>1. A \in [1..Len(A) -> States]
      BY <2>1, LenProperties
    <3> QED
      BY <3>1
  <2> HIDE DEF A
  <2>3. \A u \in 1..Len(Tries) + 1 : A[u] = IF u = n THEN s ELSE before[u]
    BY <1>1, <1>3, <2>1 DEF A
  <2>4. A = [u \in 1..Len(Tries) + 1 |-> A[u]]
    BY <2>1, <2>2 DEF A
  <2> QED
    BY <2>3, <2>4 DEF A
<1>8. \A u \in 1..Len(Tries) + 1 : turnStatus'[u] = IF u = n THEN s ELSE before[u]
  BY <1>1, <1>3
<1> QED
  BY <1>3, <1>6, <1>7, <1>8

LEMMA TriesKept ==
    ASSUME turnStatus' = turnStatus PROVE Tries' = Tries
BY DEF Tries, With

LEMMA JobStates ==
    /\ jobStatus \in Undone => JobState = "todo"
    /\ jobStatus \in Ended => JobState = jobStatus
    /\ jobStatus = "none" => JobState = "new"
    /\ jobStatus' \in Undone => JobState' = "todo"
    /\ jobStatus' \in Ended => JobState' = jobStatus'
BY DEF JobState, Undone, Ended

LEMMA LastTry ==
    ASSUME IInv
    PROVE  /\ \A t \in With(Live) : Life!Alive /\ Life!Now(turnStatus[t])
           /\ \A s \in States : Life!Now(s) => With({s}) # {}
           /\ With(Live) = {} => ~Life!Alive
<1>1. /\ Len(Tries) \in Nat /\ Used = 1..Len(Tries)
      /\ \A u \in Used : Tries[u] = turnStatus[u]
      /\ \A u \in With(Live) : u = Len(Tries)
  BY TriesShape
<1>2. With(Live) \subseteq Used /\ Used \subseteq Turns
  BY DEF With, Used, Unused, Live, Open
<1>3. ASSUME NEW t \in With(Live) PROVE Life!Alive /\ Life!Now(turnStatus[t])
  <2>1. turnStatus[t] \in Live /\ Tries[Len(Tries)] = turnStatus[t] /\ Len(Tries) > 0
    BY <1>1, <1>2 DEF With
  <2> QED
    BY <2>1 DEF Life!Alive, Life!Now, Life!Last, Live, Open
<1>4. ASSUME NEW s \in States, Life!Now(s) PROVE With({s}) # {}
  <2>1. Len(Tries) \in Used /\ Tries[Len(Tries)] = s
    BY <1>1, <1>4 DEF Life!Now, Life!Last
  <2> QED
    BY <1>1, <1>2, <2>1 DEF With
<1>5. ASSUME With(Live) = {} PROVE ~Life!Alive
  BY <1>4, <1>5 DEF With, Life!Alive, States, Live, Open
<1> QED
  BY <1>3, <1>4, <1>5

(* A job that is to be done has its message with its live turn.               *)
LEMMA Held ==
    ASSUME IInv, jobStatus \in Undone
    PROVE  msgs \subseteq With(Live) /\ \A t \in With(Live) : msgs \cup {t} = {t}
BY DEF IInv, MessageInv, RowInv

LEMMA EndsLife ==
    ASSUME IInv, NEW t, NEW s, Ends(t, s), s = "done" => turnStatus[t] = "running",
           s = "failed" => turnStatus[t] \in Open
    PROVE  Life!JobNext
<1>1. /\ t \in With(Live) /\ s \in States /\ s \in Ended
      /\ turnStatus' = [turnStatus EXCEPT ![t] = s] /\ jobStatus' = s
      /\ msgs' = msgs \/ msgs' = msgs \cup {t}
      /\ jobAgent' = jobAgent
  BY DEF Ends, States
<1>2. /\ t = Len(Tries) /\ Len(Tries) > 0 /\ Tries[Len(Tries)] = turnStatus[t]
      /\ Tries' = [Tries EXCEPT ![Len(Tries)] = s]
  BY <1>1, LastChanges
<1>3. jobStatus \in Undone
  BY <1>1 DEF IInv, RowInv
<1>4. msgs' \in {msgs, {Len(Tries)}}
  BY <1>1, <1>2, <1>3, Held
<1>5. JobState = "todo" /\ JobState' = s
  BY <1>1, <1>3, JobStates
<1>6. Life!Alive
  BY <1>1, LastTry
<1>7. s = "done" => Life!Now("running")
  BY <1>2 DEF Life!Now, Life!Last
<1>8. s = "failed" => ~Life!Now("queued")
  BY <1>2 DEF Life!Now, Life!Last, Open
<1>9. Life!End(s)
  BY <1>1, <1>2, <1>4, <1>5, <1>6, <1>7, <1>8 DEF Life!End, Life!Becomes, Life!Last
<1> QED
  BY <1>1, <1>9 DEF Life!JobNext, Ended

(* A failure and a cancel that meet: either may be written over the other.    *)
LEMMA AmendsLife ==
    ASSUME IInv, NEW t, NEW s, Amends(t, s)
    PROVE  Life!JobNext
<1>1. /\ t \in Used /\ \A u \in Used : u <= t
      /\ turnStatus[t] \in {"failed", "cancelled"} /\ s \in {"failed", "cancelled"}
      /\ jobStatus \in {"failed", "cancelled"} /\ jobStatus' \in {"failed", "cancelled"}
      /\ turnStatus' = turnStatus \/ turnStatus' = [turnStatus EXCEPT ![t] = s]
      /\ msgs' = msgs \/ msgs' = msgs \cup {t}
      /\ jobAgent' = jobAgent
  BY DEF Amends, Stopped
<1>2. /\ Tries \in Seq(States) /\ Len(Tries) \in Nat /\ Used = 1..Len(Tries)
      /\ \A u \in Used : Tries[u] = turnStatus[u]
  BY TriesShape
<1>3. t = Len(Tries) /\ Len(Tries) > 0 /\ Tries[Len(Tries)] = turnStatus[t]
  BY <1>1, <1>2
<1>4. Tries' = Tries \/ Tries' = [Tries EXCEPT ![Len(Tries)] = s]
  <2>1. CASE turnStatus' = turnStatus
    BY <2>1, TriesKept
  <2>2. CASE turnStatus' = [turnStatus EXCEPT ![t] = s]
    <3>1. s \in States
      BY <1>1 DEF States, Ended
    <3> QED
      BY <1>1, <2>2, <3>1, LastChanges
  <2> QED
    BY <1>1, <2>1, <2>2
<1>5. msgs' \in {msgs, {Len(Tries)}}
  <2>1. \A m \in msgs : m \in Used /\ t <= m
    BY <1>1 DEF IInv, MessageInv
  <2>2. \A m \in msgs : m = t
    BY <1>1, <1>2, <2>1
  <2>3. msgs \cup {t} = {t}
    BY <2>2
  <2> QED
    BY <1>1, <1>3, <2>3
<1>6. JobState = jobStatus /\ JobState' = jobStatus'
  BY <1>1, JobStates DEF Ended
<1>7. Life!Now(turnStatus[t])
  BY <1>3 DEF Life!Now, Life!Last
<1>8. Life!Amend
  BY <1>1, <1>4, <1>5, <1>6, <1>7 DEF Life!Amend, Life!Becomes, Life!Last
<1> QED
  BY <1>8 DEF Life!JobNext

LEMMA PausesLife ==
    ASSUME IInv, NEW t \in Turns, Pauses(t)
    PROVE  Life!JobNext
<1>1. /\ t \in With(Live) /\ "waiting" \in States /\ turnStatus[t] = "running"
      /\ turnStatus' = [turnStatus EXCEPT ![t] = "waiting"]
      /\ msgs' = msgs \cup {t} /\ UNCHANGED <<jobStatus, jobAgent>>
  BY DEF Pauses, States, With, Live, Open
<1>2. /\ t = Len(Tries) /\ Len(Tries) > 0 /\ Tries[Len(Tries)] = turnStatus[t]
      /\ Tries' = [Tries EXCEPT ![Len(Tries)] = "waiting"]
  BY <1>1, LastChanges
<1>3. jobStatus \in Undone
  BY <1>1 DEF IInv, RowInv
<1>4. msgs' = {Len(Tries)}
  BY <1>1, <1>2, <1>3, Held
<1>5. JobState' = JobState
  BY <1>1, <1>3, JobStates
<1>6. Life!Pause
  BY <1>1, <1>2, <1>4, <1>5 DEF Life!Pause, Life!Becomes, Life!Now, Life!Last
<1> QED
  BY <1>6 DEF Life!JobNext

(* A queued turn is started, or a paused one goes on.                         *)
LEMMA RunsLife ==
    ASSUME IInv, NEW t \in With({"queued", "waiting"}),
           turnStatus' = [turnStatus EXCEPT ![t] = "running"],
           UNCHANGED <<jobStatus, jobAgent, msgs>>
    PROVE  Life!JobNext
<1>1. t \in With(Live) /\ "running" \in States /\ turnStatus[t] \in {"queued", "waiting"}
  BY DEF With, States, Live, Open
<1>2. /\ Len(Tries) > 0 /\ Tries[Len(Tries)] = turnStatus[t]
      /\ Tries' = [Tries EXCEPT ![Len(Tries)] = "running"]
  BY <1>1, LastChanges
<1>3. JobState' = JobState
  BY JobStates DEF JobState
<1>4. Life!Start \/ Life!Resume
  BY <1>1, <1>2, <1>3 DEF Life!Start, Life!Resume, Life!Becomes, Life!Now, Life!Last
<1> QED
  BY <1>4 DEF Life!JobNext

LEMMA TryLife ==
    ASSUME IInv, With(Live) = {}, jobStatus \in Undone,
           NEW n \in Unused, \A u \in Unused : n <= u, NEW s \in {"queued", "running"},
           turnStatus' = [turnStatus EXCEPT ![n] = s],
           msgs' = IF s = "queued" THEN {n} ELSE msgs,
           UNCHANGED <<jobStatus, jobAgent>>
    PROVE  Life!JobNext
<1>1. s \in States /\ Tries \in Seq(States) /\ \A u \in Used : Tries[u] = turnStatus[u]
  BY TriesShape DEF States, Live, Open
<1>2. /\ turnStatus'[n] = s /\ \A u \in Used : turnStatus'[u] = Tries[u]
      /\ \A u \in Unused : u # n => turnStatus'[u] = "none"
  BY <1>1 DEF IInv, TypeOK, Used, Unused, With
<1>3. n = Len(Tries) + 1 /\ Tries' = Append(Tries, s)
  BY <1>1, <1>2, TryAdded
<1>4. JobState = "todo" /\ JobState' = JobState
  BY JobStates DEF JobState
<1>5. msgs = {} /\ ~Life!Alive
  BY Held, LastTry
<1>6. Life!Try
  BY <1>3, <1>4, <1>5 DEF Life!Try, Life!TryWithMessage, Life!Last
<1> QED
  BY <1>6 DEF Life!JobNext

LEMMA DropLife ==
    ASSUME IInv, With(Live) = {}, jobStatus \in Undone, jobStatus' = "cancelled",
           UNCHANGED <<turnStatus, jobAgent, msgs>>
    PROVE  Life!JobNext
<1>1. JobState = "todo" /\ JobState' = "cancelled"
  BY JobStates DEF Ended
<1>2. ~Life!Alive /\ Tries' = Tries
  BY LastTry, TriesKept
<1>3. Life!Drop
  BY <1>1, <1>2 DEF Life!Drop
<1> QED
  BY <1>3 DEF Life!JobNext

LEMMA MovesLife ==
    ASSUME IInv, NEW a \in Agents, Moves(a), With(Open) = {}, jobStatus # "none"
    PROVE  Life!JobNext
<1>1. jobStatus \in Undone \cup {"cancelled"} /\ jobStatus' \in Undone
  BY DEF IInv, TypeOK, Moves, Ended, Undone
<1>2. /\ JobState' = "todo" /\ JobState \in {"todo", "cancelled"}
      /\ JobState = "cancelled" => jobStatus = "cancelled"
  BY <1>1, JobStates DEF Ended
<1>3. ~Life!Now("running") /\ ~Life!Now("waiting")
  BY LastTry DEF With, Open, States, Live
<1>4. Tries' = Tries /\ msgs' = msgs /\ jobAgent' = a /\ (jobStatus = "cancelled" => msgs = {})
  BY TriesKept DEF Moves
<1>5. Life!Move
  BY <1>2, <1>3, <1>4 DEF Life!Move
<1> QED
  BY <1>5 DEF Life!JobNext

(* A move takes a cancelled attempt's message to a new turn.                  *)
LEMMA TakesUpLife ==
    ASSUME IInv, NEW a \in Agents, NEW n \in Turns, Gives(n, a), With({"running"}) = {},
           jobStatus = "cancelled", msgs # {}
    PROVE  Life!JobNext
<1>1. With(Live) = {}
  BY DEF IInv, RowInv, Undone
<1>2. /\ "queued" \in States /\ "running" \in States /\ "waiting" \in States
      /\ Tries \in Seq(States) /\ \A u \in Used : Tries[u] = turnStatus[u]
  BY TriesShape DEF States, Live, Open
<1>3. turnStatus' = [turnStatus EXCEPT ![n] = "queued"]
  BY DEF Gives, Lapsed, IInv, TypeOK, With
<1>4. /\ turnStatus'[n] = "queued" /\ \A u \in Used : turnStatus'[u] = Tries[u]
      /\ \A u \in Unused : u # n => turnStatus'[u] = "none"
  BY <1>2, <1>3 DEF Gives, IInv, TypeOK, Used, Unused, With
<1>5. n = Len(Tries) + 1 /\ Tries' = Append(Tries, "queued")
  BY <1>2, <1>4, TryAdded DEF Gives
<1>6. JobState = "cancelled" /\ JobState' = "todo"
  BY JobStates DEF Gives, Ended, Undone
<1>7. ~Life!Now("running") /\ ~Life!Now("waiting")
  BY <1>1, <1>2, LastTry DEF With, Live, Open
<1>8. Life!Move
  BY <1>5, <1>6, <1>7 DEF Life!Move, Life!TryWithMessage, Life!Last, Gives
<1> QED
  BY <1>8 DEF Life!JobNext

(* The running turn fails, and its message goes to a new one.                 *)
LEMMA RetryLife ==
    ASSUME IInv, NEW n \in Turns, Gives(n, jobAgent), jobStatus = "started", msgs # {}
    PROVE  Life!JobNext
<1>1. PICK r \in With(Live) : With(Live) = {r} /\ turnStatus[r] = "running"
  <2>1. msgs \subseteq With(Live)
    BY Held DEF Undone
  <2> QED
    BY <2>1 DEF Gives, With, IInv, RowInv
<1> DEFINE before == [Tries EXCEPT ![Len(Tries)] = "failed"]
<1>2. /\ "queued" \in States /\ "failed" \in States
      /\ Tries \in Seq(States) /\ \A u \in Used : Tries[u] = turnStatus[u]
      /\ Len(Tries) \in Nat /\ Used = 1..Len(Tries) /\ DOMAIN Tries = 1..Len(Tries)
      /\ r = Len(Tries) /\ r \in Used
  BY TriesShape DEF States, Live, Open, Ended, With, Used, Unused
<1>3. before \in Seq(States) /\ Len(before) = Len(Tries)
  BY <1>2
<1>4. ASSUME NEW u \in Used PROVE before[u] = IF u = r THEN "failed" ELSE turnStatus[u]
  <2>1. u \in DOMAIN Tries /\ Tries[u] = turnStatus[u] /\ r = Len(Tries)
    BY <1>2
  <2> QED
    BY <2>1
<1> HIDE DEF before
<1>5. /\ turnStatus'[n] = "queued"
      /\ \A u \in Used : turnStatus'[u] = IF u = r THEN "failed" ELSE turnStatus[u]
      /\ \A u \in Unused : u # n => turnStatus'[u] = "none"
  BY <1>1 DEF Gives, Lapsed, IInv, TypeOK, Used, Unused, With, Live, Open
<1>6. n = Len(Tries) + 1 /\ Tries' = Append(before, "queued")
  <2>1. \A u \in Used : turnStatus'[u] = before[u]
    BY <1>4, <1>5
  <2>2. n \in Unused /\ \A u \in Unused : n <= u
    BY DEF Gives
  <2>3. "queued" \in States
    BY <1>2
  <2>4. turnStatus'[n] = "queued" /\ \A u \in Unused : u # n => turnStatus'[u] = "none"
    BY <1>5
  <2> QED
    BY <1>3, <2>1, <2>2, <2>3, <2>4, TryAdded, Zenon
<1>7. JobState = "todo" /\ JobState' = "todo"
  BY JobStates DEF Gives, Undone
<1>8. Life!Now("running")
  BY <1>1, LastTry
<1>9. Life!Retry
  BY <1>6, <1>7, <1>8 DEF Life!Retry, Life!Becomes, Life!Last, Gives, before
<1> QED
  BY <1>9 DEF Life!JobNext

(* The running turn, if there is one, fails, and there is no message yet.     *)
LEMMA RestartsLife ==
    ASSUME IInv, Restarts
    PROVE  Life!JobNext \/ UNCHANGED Life!jobVars
<1>1. JobState = "todo" /\ JobState' = "todo"
  BY JobStates DEF Restarts, Undone
<1>2. CASE With({"running"}) = {}
  <2>1. turnStatus' = turnStatus
    BY <1>2 DEF Restarts, Lapsed, IInv, TypeOK, With
  <2>2. Tries' = Tries
    BY <2>1, TriesKept
  <2> QED
    BY <1>1, <2>2 DEF Restarts, Life!jobVars
<1>3. CASE With({"running"}) # {}
  <2>1. PICK r \in With({"running"}) : TRUE
    BY <1>3
  <2>2. r \in With(Live) /\ With(Live) = {r} /\ turnStatus[r] = "running" /\ "failed" \in States
    BY <2>1 DEF IInv, RowInv, With, Live, Open, States, Ended
  <2>3. turnStatus' = [turnStatus EXCEPT ![r] = "failed"]
    BY <2>2 DEF Restarts, Lapsed, IInv, TypeOK, With, Live, Open
  <2>4. Tries' = [Tries EXCEPT ![Len(Tries)] = "failed"]
    BY <2>2, <2>3, LastChanges
  <2>5. msgs = {}
    BY <2>1, <2>2, Held DEF Restarts, Undone
  <2>6. Life!Now("running")
    BY <2>2, LastTry
  <2>7. Life!Retry
    BY <1>1, <2>4, <2>5, <2>6 DEF Life!Retry, Life!Becomes, Life!Last, Restarts
  <2> QED
    BY <2>7 DEF Life!JobNext
<1> QED
  BY <1>2, <1>3

(* Every step of the host is one step of the job's life, or none of it.       *)
LEMMA LifeStep == Calm /\ IInv /\ [Next]_vars => [Life!JobNext]_(Life!jobVars)
<1> DEFINE Does == Life!JobNext \/ UNCHANGED Life!jobVars
<1> SUFFICES ASSUME Calm, IInv, [Next]_vars PROVE Does
  OBVIOUS
<1>a. TypeOK /\ LockInv /\ RowInv /\ MessageInv /\ TaskInv /\ CallInv
  BY DEF IInv
<1>t. ASSUME UNCHANGED <<jobStatus, jobAgent, turnStatus, msgs>> PROVE Does
  <2>1. Tries' = Tries
    BY <1>t, TriesKept
  <2>2. JobState' = JobState
    BY <1>t DEF JobState
  <2> QED
    BY <1>t, <2>1, <2>2 DEF Life!jobVars
<1>y. ASSUME UNCHANGED rows PROVE Does
  BY <1>y, <1>t DEF rows
<1>z. ASSUME UNCHANGED jobRows PROVE Does
  BY <1>z, <1>t DEF jobRows
<1> HIDE DEF Does
<1>1. ASSUME NEW a \in Agents, NEW k \in Kinds, Enqueue(k, a) PROVE Does
  <2>1. jobStatus = "none" /\ jobStatus' \in Undone /\ jobAgent' = a
    BY <1>1, <1>a DEF Enqueue, RowInv, Undone
  <2>2. Tries' = Tries /\ msgs' = msgs
    BY <1>1, TriesKept DEF Enqueue
  <2>3. Life!Accept
    BY <2>1, <2>2, JobStates DEF Life!Accept
  <2> QED
    BY <2>3 DEF Does, Life!JobNext
<1>2. ASSUME NEW a \in Agents, Attach(a) PROVE Does
  <2> DEFINE n == First(Unused)
  <2>1. Unused # {} /\ Used = {} /\ jobStatus \in Undone
    BY <1>2, <1>a DEF Attach, RowInv, Undone
  <2>2. n \in Unused /\ \A u \in Unused : n <= u
    BY <2>1, FirstIn DEF Unused, With
  <2>3. With(Live) = {} /\ msgs = {}
    BY <2>1, <1>a DEF MessageInv, With, Used, Unused, Live, Open
  <2>4. /\ turnStatus' = [turnStatus EXCEPT ![n] = "queued"] /\ msgs' = {n}
        /\ UNCHANGED <<jobStatus, jobAgent>>
    BY <1>2, <2>3 DEF Attach
  <2> HIDE DEF n
  <2>5. Life!JobNext
    BY <2>1, <2>2, <2>3, <2>4, TryLife
  <2> QED
    BY <2>5 DEF Does
<1>3. ASSUME NEW a \in Agents, PumpSelect(a) PROVE Does
  BY <1>3, <1>y DEF PumpSelect
<1>4. ASSUME NEW a \in Agents, PumpClaim(a) PROVE Does
  <2>1. UNCHANGED <<jobAgent, turnStatus, msgs>>
    BY <1>4 DEF PumpClaim
  <2>2. jobStatus' = jobStatus \/ (jobStatus = "queued" /\ jobStatus' = "started")
    BY <1>4 DEF PumpClaim
  <2>3. JobState' = JobState
    BY <2>2 DEF JobState, Ended
  <2> QED
    BY <2>1, <2>3, TriesKept DEF Does, Life!jobVars
<1>5. ASSUME NEW a \in Agents, PumpPromote(a) PROVE Does
  <2>1. jobStatus = "started" /\ With(Open) = {} /\ With({"queued", "none"}) # {}
    BY <1>5, <1>a DEF PumpPromote, TaskInv, PromoteInv
  <2>2. UNCHANGED <<jobStatus, jobAgent, msgs>>
    BY <1>5 DEF PumpPromote
  <2>3. CASE With({"queued"}) # {}
    <3> DEFINE t == First(With({"queued"}))
    <3>1. t \in With({"queued"})
      BY <2>3, FirstIn DEF With
    <3>2. turnStatus' = [turnStatus EXCEPT ![t] = "running"]
      BY <1>5, <2>3 DEF PumpPromote
    <3> HIDE DEF t
    <3>3. t \in With({"queued", "waiting"})
      BY <3>1 DEF With
    <3> QED
      BY <2>2, <3>2, <3>3, RunsLife DEF Does
  <2>4. CASE With({"queued"}) = {}
    <3> DEFINE n == First(Unused)
    <3>1. Unused # {} /\ With(Live) = {}
      BY <2>1, <2>4 DEF With, Unused, Live, Open
    <3>2. n \in Unused /\ \A u \in Unused : n <= u
      BY <3>1, FirstIn DEF Unused, With
    <3>3. turnStatus' = [turnStatus EXCEPT ![n] = "running"]
      BY <1>5, <2>4 DEF PumpPromote
    <3> HIDE DEF n
    <3>4. jobStatus \in Undone
      BY <2>1 DEF Undone
    <3>5. Life!JobNext
      BY <2>2, <3>1, <3>2, <3>3, <3>4, TryLife
    <3> QED
      BY <3>5 DEF Does
  <2> QED
    BY <2>3, <2>4
<1>6. ASSUME NEW t \in Turns, Answer(t) PROVE Does
  BY <1>6, <1>t DEF Answer
<1>7. ASSUME NEW t \in Turns, StartResume(t) PROVE Does
  BY <1>7, <1>y DEF StartResume
<1>8. ASSUME NEW a \in Agents, ResumeClaim(a) PROVE Does
  <2> DEFINE t == taskTurn[Resume(a)]
             go == a \notin cancelling /\ turnStatus[t] \in Open
  <2>1. t \in Turns
    BY <1>8, <1>a, TaskNames DEF ResumeClaim, TaskInv, TaskOK
  <2>2. /\ turnStatus' = IF go THEN [turnStatus EXCEPT ![t] = "running"] ELSE turnStatus
        /\ UNCHANGED <<jobStatus, jobAgent, msgs>>
    BY <1>8 DEF ResumeClaim
  <2> HIDE DEF t
  <2>3. CASE go /\ turnStatus[t] = "waiting"
    <3>1. t \in With({"queued", "waiting"})
      BY <2>1, <2>3 DEF With
    <3> QED
      BY <2>2, <2>3, <3>1, RunsLife DEF Does
  <2>4. CASE ~(go /\ turnStatus[t] = "waiting")
    <3>1. turnStatus' = turnStatus
      BY <1>a, <2>1, <2>2, <2>4 DEF TypeOK, Open
    <3> QED
      BY <1>t, <2>2, <3>1
  <2> QED
    BY <2>3, <2>4
<1>9. ASSUME NEW w \in Tasks, NEW how \in Outcomes, DriveEnds(w, how) PROVE Does
  BY <1>9, <1>y DEF DriveEnds
<1>10. ASSUME NEW w \in Tasks, Persist(w) PROVE Does
  <2>1. taskTurn[w] \in Turns /\ turnStatus[taskTurn[w]] \in {"running", "cancelled"}
    BY <1>10, <1>a DEF Persist, TaskInv, TaskOK, Active, OnBoard
  <2>2. CASE Pauses(taskTurn[w])
    BY <2>1, <2>2, PausesLife DEF Does
  <2>3. ASSUME Ends(taskTurn[w], "done") PROVE Does
    <3>1. turnStatus[taskTurn[w]] = "running"
      BY <2>1, <2>3 DEF Ends, With, Live, Open
    <3> QED
      BY <2>3, <3>1, EndsLife DEF Does
  <2>4. ASSUME Ends(taskTurn[w], "cancelled") PROVE Does
    BY <2>4, EndsLife DEF Does
  <2> QED
    BY <1>10, PersistRows, <1>z, <2>2, <2>3, <2>4
<1>11. ASSUME NEW w \in Tasks, Unwind(w) PROVE Does
  BY <1>11, <1>y DEF Unwind
<1>12. ASSUME NEW w \in Tasks, FailWrites(w) PROVE Does
  <2>1. ASSUME Ends(taskTurn[w], "failed") PROVE Does
    <3>1. turnStatus[taskTurn[w]] \in Open
      BY <1>12, <2>1, <1>a DEF FailWrites, Ends, TaskInv, TaskOK, Active, Begun, With, Live, Open, Ended
    <3> QED
      BY <2>1, <3>1, EndsLife DEF Does
  <2>2. ASSUME Amends(taskTurn[w], "failed") PROVE Does
    BY <2>2, AmendsLife DEF Does
  <2> QED
    BY <1>12, FailRows, <1>z, <2>1, <2>2
<1>13. ASSUME NEW w \in Tasks, Interrupted(w) PROVE Does
  BY <1>13, <1>y DEF Interrupted
<1>14. ASSUME NEW w \in Tasks, Dies(w) PROVE Does
  BY <1>14, <1>y DEF Dies
<1>15. ASSUME NEW c \in Callers, NEW t \in Turns, CallTurn(c, t) PROVE Does
  BY <1>15, <1>y DEF CallTurn
<1>16. ASSUME NEW c \in Callers, NEW a \in Agents, CallLane(c, a) PROVE Does
  BY <1>16, <1>y DEF CallLane
<1>17. ASSUME NEW c \in Callers, NEW a \in Agents, CallMove(c, a) PROVE Does
  BY <1>17, <1>y DEF CallMove
<1>18. ASSUME NEW c \in Callers, CallLocks(c) PROVE Does
  BY <1>18, <1>y DEF CallLocks
<1>19. ASSUME NEW c \in Callers, CancelReads(c) PROVE Does
  BY <1>19, <1>y DEF CancelReads
<1>20. ASSUME NEW c \in Callers, CancelInterrupts(c) PROVE Does
  BY <1>20, <1>y DEF CancelInterrupts
<1>21. ASSUME NEW c \in Callers, CancelAwaits(c) PROVE Does
  BY <1>21, <1>y DEF CancelAwaits
<1>22. ASSUME NEW c \in Callers, CancelPersists(c) PROVE Does
  <2>1. ASSUME Ends(cTurn[c], "cancelled") PROVE Does
    BY <2>1, EndsLife DEF Does
  <2>2. ASSUME Amends(cTurn[c], "cancelled") PROVE Does
    BY <2>2, AmendsLife DEF Does
  <2> QED
    BY <1>22, CancelRows, <1>z, <2>1, <2>2
<1>23. ASSUME NEW c \in Callers, LaneMarks(c) PROVE Does
  <2>1. With(Live) = {} /\ UNCHANGED <<jobAgent, turnStatus, msgs>>
    BY <1>23, <1>a DEF LaneMarks, CallInv, CallOK
  <2>2. jobStatus' = jobStatus \/ (jobStatus \in Undone /\ jobStatus' = "cancelled")
    BY <1>23 DEF LaneMarks, Undone
  <2>3. ASSUME jobStatus \in Undone, jobStatus' = "cancelled" PROVE Does
    BY <2>1, <2>3, DropLife DEF Does
  <2> QED
    BY <1>t, <2>1, <2>2, <2>3
<1>24. ASSUME NEW c \in Callers, Park(c) PROVE Does
  <2>1. /\ cAgent[c] \in Agents /\ With(Open) = {}
        /\ jobStatus # "none"
    BY <1>24, <1>a DEF Park, CallInv, CallOK, LockInv, RowInv
  <2>2. CASE Moves(cAgent[c])
    BY <2>1, <2>2, MovesLife DEF Does
  <2>3. ASSUME With({"running"}) = {}, jobStatus = "cancelled", msgs # {},
               NEW n \in Turns, Gives(n, cAgent[c])
        PROVE  Does
    BY <2>1, <2>3, TakesUpLife DEF Does
  <2> QED
    BY <1>24, ParkRows, <1>z, <2>2, <2>3
<1>25. CASE Crash
  <2>1. CASE /\ jobStatus = "started" /\ jobStatus' = "cancelled" /\ With(Live) = {}
             /\ UNCHANGED <<jobAgent, turnStatus, turnAgent, msgs>>
    BY <2>1, DropLife DEF Does, Undone
  <2>2. CASE Restarts
    BY <2>2, RestartsLife DEF Does
  <2>3. ASSUME jobStatus = "started", msgs # {}, NEW n \in Turns, Gives(n, jobAgent)
        PROVE  Does
    BY <2>3, RetryLife DEF Does
  <2> QED
    BY <1>25, CrashRows, <1>z, <2>1, <2>2, <2>3
<1>26. CASE UNCHANGED vars
  BY <1>26, <1>y DEF vars
<1>27. ASSUME NEW w \in Tasks, FailReads(w) PROVE Does
  BY <1>27, <1>y DEF FailReads
<1>28. ASSUME NEW w \in Tasks, FailLooks(w) PROVE Does
  BY <1>28, <1>y DEF FailLooks
<1>29. ASSUME NEW c \in Callers, CancelFinds(c) PROVE Does
  BY <1>29, <1>y DEF CancelFinds
<1> QED
  BY <1>1, <1>2, <1>3, <1>4, <1>5, <1>6, <1>7, <1>8, <1>9, <1>10, <1>11, <1>12, <1>13, <1>14,
     <1>15, <1>16, <1>17, <1>18, <1>19, <1>20, <1>21, <1>22, <1>23, <1>24, <1>25, <1>26,
     <1>27, <1>28, <1>29
  DEF Next, TaskStep, CallStep, Rest

LEMMA LifeStart == Init => Life!JobInit
<1> SUFFICES ASSUME Init PROVE Life!JobInit
  OBVIOUS
<1>1. jobStatus = "none" /\ jobAgent = Nobody /\ msgs = {} /\ With(States) = {}
  BY DEF Init, With, States, Ended, Live, Open
<1>2. Tries = <<>>
  <2>1. Tries = [t \in {} |-> turnStatus[t]]
    BY <1>1 DEF Tries, States
  <2> QED
    BY <2>1
<1>3. JobState = "new"
  BY <1>1, JobStates
<1> QED
  BY <1>1, <1>2, <1>3 DEF Life!JobInit

(* The tasks, calls and recovery are an implementation of JobLife: every     *)
(* step of the runner, a cancel, a close, a move or a restart (record_*,     *)
(* _persist_*, park_job, recover) is one step of the job's life or leaves it *)
(* as it is, for any number of lanes, callers, turns and restarts.           *)
THEOREM JobsLive == Calm => (Spec => ImplementsJobLife)
<1>1. ASSUME Calm PROVE IInv /\ [Next]_vars => [Life!JobNext]_(Life!jobVars)
  BY <1>1, LifeStep
<1>2. CASE Calm
  BY <1>1, <1>2, LifeStart, LifeInductive, PTL DEF Spec, ImplementsJobLife, Life!JobSpec
<1> QED
  BY <1>2
=============================================================================
