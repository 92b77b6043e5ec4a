----------------------------- MODULE TurnLife ------------------------------
(***************************************************************************)
(* The life of one message: its job, the turns that attempt it, and the     *)
(* tasks that race for them. A delivery stores job, turn and message; the   *)
(* pump or the resume of a lane runs the turn; clients cancel the turn,     *)
(* close its lane or move the job to another lane; the host crashes and     *)
(* recovers.                                                               *)
(*                                                                         *)
(* Rows survive a crash; tasks, the job lock, the board and calls do not.   *)
(* When a lane gets a slot is module Lanes' matter: here a pump may select  *)
(* the queued job at any time its lane's lock is free.                      *)
(***************************************************************************)
EXTENDS Naturals, FiniteSets

CONSTANTS
    Agents,      \* lanes of the bot
    MaxTurns,    \* bound: turn rows of the job
    Kinds,       \* how the job comes in: "chat", "ask", "routine"
    Outcomes,    \* how a drive ends: "done", "waiting", "fail"
    Callers,     \* client calls
    Modes,       \* what they do: "turn", "lane", "move"
    MaxCrashes,  \* bound: crashes of the host
    Nobody       \* no lane, task, owner or turn

Turns == 1..MaxTurns
Tasks == {"pump", "resume"} \X Agents
Pump(a) == <<"pump", a>>
Resume(a) == <<"resume", a>>

ASSUME TurnLifeAssumption ==
    /\ MaxTurns \in Nat \ {0} /\ MaxCrashes \in Nat
    /\ Kinds \subseteq {"chat", "ask", "routine"}
    /\ Outcomes \subseteq {"done", "waiting", "fail"}
    /\ Modes \subseteq {"turn", "lane", "move"}
    /\ Agents \cap Callers = {} /\ "delivery" \notin Agents \cup Callers
    /\ Nobody \notin Agents \cup Callers /\ Nobody # "delivery"
    /\ Nobody \notin Turns /\ Nobody \notin Tasks

VARIABLES
    jobStatus, jobAgent,
    turnStatus, turnAgent,
    msgs,        \* turns that hold a copy of the user message
    checkpoint,  \* turns whose model_messages is stored
    answered,    \* turns of which every approval is resolved
    jobLock,     \* domain.jobs.job_lock: the pump (by lane), call or delivery inside
    cancelling,  \* Worker._cancelling_agents
    board,       \* _Board._tasks: the task a live turn runs in
    flagged,     \* _Board._cancelled
    pc, taskTurn, out,   \* pumps and resumes
    hit,         \* tasks on which task.cancel() was called
    reads,       \* the rows that a failure record has read
    calling,     \* answered turns whose start_resume is about to be called
    dPc, dKind,  \* the delivery
    cPc, cMode, cTurn, cTask, cAgent,   \* client calls
    crashes

rows == <<jobStatus, jobAgent, turnStatus, turnAgent, msgs, checkpoint, answered>>
watch == <<board, flagged>>
tasks == <<pc, taskTurn, out, hit, reads>>
delivery == <<dPc, dKind>>
calls == <<cPc, cMode, cTurn, cTask, cAgent>>
vars == <<rows, jobLock, cancelling, watch, tasks, calling, delivery, calls, crashes>>

Ended == {"done", "failed", "cancelled"}
Open == {"running", "waiting"}
Live == Open \cup {"queued"}

NoRead == [job |-> FALSE, lane |-> Nobody, turn |-> Nobody, as |-> "none"]

ReadsOK ==
    reads \in [Tasks -> [job : BOOLEAN, lane : Agents \cup {Nobody},
                         turn : Turns \cup {Nobody}, as : Ended \cup Live \cup {"none"}]]

TypeOK ==
    /\ jobStatus \in Ended \cup {"none", "asked", "queued", "started"}
    /\ jobAgent \in Agents \cup {Nobody}
    /\ turnStatus \in [Turns -> Ended \cup Live \cup {"none"}]
    /\ turnAgent \in [Turns -> Agents \cup {Nobody}]
    /\ msgs \subseteq Turns /\ checkpoint \subseteq Turns /\ answered \subseteq Turns
    /\ jobLock \in Agents \cup Callers \cup {"delivery", Nobody}
    /\ cancelling \subseteq Agents
    /\ board \in [Turns -> Tasks \cup {Nobody}]
    /\ flagged \subseteq Turns
    /\ pc \in [Tasks -> {"off", "lock", "claim", "promote", "drive", "persist",
                         "unwind", "fail", "look", "record"}]
    /\ taskTurn \in [Tasks -> Turns \cup {Nobody}]
    /\ out \in [Tasks -> {"none", "done", "waiting", "fail", "cancelled", "stopped"}]
    /\ hit \subseteq Tasks /\ calling \subseteq Turns
    /\ ReadsOK
    /\ dPc \in {"new", "attach", "end"} /\ dKind \in Kinds \cup {"none"}
    /\ cPc \in [Callers -> {"off", "lock", "status", "interrupt", "await", "persist",
                            "write", "mark", "park", "end"}]
    /\ cMode \in [Callers -> Modes \cup {"none"}]
    /\ cTurn \in [Callers -> Turns \cup {Nobody}]
    /\ cTask \in [Callers -> Tasks \cup {Nobody}]
    /\ cAgent \in [Callers -> Agents \cup {Nobody}]
    /\ crashes \in Nat

Init ==
    /\ jobStatus = "none" /\ jobAgent = Nobody
    /\ turnStatus = [t \in Turns |-> "none"]
    /\ turnAgent = [t \in Turns |-> Nobody]
    /\ msgs = {} /\ checkpoint = {} /\ answered = {}
    /\ jobLock = Nobody /\ cancelling = {}
    /\ board = [t \in Turns |-> Nobody] /\ flagged = {}
    /\ pc = [w \in Tasks |-> "off"]
    /\ taskTurn = [w \in Tasks |-> Nobody]
    /\ out = [w \in Tasks |-> "none"]
    /\ hit = {} /\ calling = {}
    /\ reads = [w \in Tasks |-> NoRead]
    /\ dPc = "new" /\ dKind = "none"
    /\ cPc = [c \in Callers |-> "off"]
    /\ cMode = [c \in Callers |-> "none"]
    /\ cTurn = [c \in Callers |-> Nobody]
    /\ cTask = [c \in Callers |-> Nobody]
    /\ cAgent = [c \in Callers |-> Nobody]
    /\ crashes = 0

-----------------------------------------------------------------------------
With(statuses) == {t \in Turns : turnStatus[t] \in statuses}
Unused == With({"none"})
First(S) == CHOOSE t \in S : \A u \in S : t <= u
LastTurn(S) == CHOOSE t \in S : \A u \in S : u <= t
LaneFree(a) == \A w \in Tasks : w[2] = a => pc[w] \in {"off", "lock"}

(* A transaction that ends turn t ends the job the same way, keeps or drops  *)
(* the checkpoint, and stores the user message if the turn has none.         *)
EndTurn(t, status) ==
    /\ turnStatus' = [turnStatus EXCEPT ![t] = status]
    /\ jobStatus' = status
    /\ checkpoint' = IF status = "done" THEN checkpoint \cup {t} ELSE checkpoint \ {t}
    /\ msgs' = msgs \cup {t}
    /\ UNCHANGED <<jobAgent, turnAgent, answered>>

-----------------------------------------------------------------------------
(* Delivery: deliver holds the job lock from the job row to the queued turn; *)
(* queue_on_lane does not take it. A message that asks the user which lane   *)
(* is meant gets a job that no pump selects.                                *)
Enqueue(k, a) ==
    /\ dPc = "new" /\ k \in Kinds
    /\ jobStatus' = IF k = "ask" THEN "asked" ELSE "queued"
    /\ jobAgent' = a
    /\ jobLock' = IF k = "routine" THEN jobLock ELSE "delivery"
    /\ dPc' = "attach" /\ dKind' = k
    /\ UNCHANGED <<turnStatus, turnAgent, msgs, checkpoint, answered, cancelling, watch,
                   tasks, calling, calls, crashes>>

(* _attach_user_message.                                                    *)
Attach(a) ==
    /\ dPc = "attach" /\ a = jobAgent /\ Unused # {}
    /\ turnStatus' = [turnStatus EXCEPT ![First(Unused)] = "queued"]
    /\ turnAgent' = [turnAgent EXCEPT ![First(Unused)] = a]
    /\ msgs' = msgs \cup {First(Unused)}
    /\ jobLock' = IF jobLock = "delivery" THEN Nobody ELSE jobLock
    /\ dPc' = "end"
    /\ UNCHANGED <<jobStatus, jobAgent, checkpoint, answered, cancelling, watch, tasks,
                   calling, dKind, calls, crashes>>

-----------------------------------------------------------------------------
(* Pumps and resumes.                                                       *)

PumpSelect(a) ==
    /\ pc[Pump(a)] = "off" /\ LaneFree(a) /\ a \notin cancelling
    /\ jobStatus = "queued" /\ jobAgent = a
    /\ \A t \in With({"waiting"}) : turnAgent[t] # a
    /\ pc' = [pc EXCEPT ![Pump(a)] = "claim"]
    /\ UNCHANGED <<rows, jobLock, cancelling, watch, taskTurn, out, hit, reads, calling,
                   delivery, calls, crashes>>

(* Faulty variant: the claim does not look at the job's status.              *)
PumpClaimBlind(a) ==
    /\ pc[Pump(a)] = "claim" /\ jobLock = Nobody
    /\ jobStatus' = "started" /\ jobLock' = a
    /\ pc' = [pc EXCEPT ![Pump(a)] = "promote"]
    /\ UNCHANGED <<jobAgent, turnStatus, turnAgent, msgs, checkpoint, answered,
                   cancelling, watch, taskTurn, out, hit, reads, calling, delivery, calls,
                   crashes>>

(* TurnRunner.run takes the job lock; _mark_started claims the job only      *)
(* while it is queued on this lane.                                         *)
PumpClaim(a) ==
    /\ pc[Pump(a)] = "claim" /\ jobLock = Nobody
    /\ IF jobStatus = "queued" /\ jobAgent = a
       THEN /\ jobStatus' = "started" /\ jobLock' = a
            /\ pc' = [pc EXCEPT ![Pump(a)] = "promote"]
       ELSE pc' = [pc EXCEPT ![Pump(a)] = "off"] /\ UNCHANGED <<jobStatus, jobLock>>
    /\ UNCHANGED <<jobAgent, turnStatus, turnAgent, msgs, checkpoint, answered,
                   cancelling, watch, taskTurn, out, hit, reads, calling, delivery, calls,
                   crashes>>

(* The stored queued turn, or a new one, becomes the running turn and is on  *)
(* the board before the job lock is released.                               *)
PumpPromote(a) ==
    LET t == First(IF With({"queued"}) # {} THEN With({"queued"}) ELSE Unused)
    IN /\ pc[Pump(a)] = "promote" /\ With({"queued", "none"}) # {}
       /\ turnStatus' = [turnStatus EXCEPT ![t] = "running"]
       /\ turnAgent' = [turnAgent EXCEPT ![t] = a]
       /\ board' = [board EXCEPT ![t] = Pump(a)]
       /\ taskTurn' = [taskTurn EXCEPT ![Pump(a)] = t]
       /\ jobLock' = Nobody
       /\ pc' = [pc EXCEPT ![Pump(a)] = "drive"]
       /\ UNCHANGED <<jobStatus, jobAgent, msgs, checkpoint, answered, cancelling,
                      flagged, out, hit, reads, calling, delivery, calls, crashes>>

(* The last approval of a paused turn is saved...                            *)
Answer(t) ==
    /\ turnStatus[t] = "waiting" /\ t \notin answered
    /\ answered' = answered \cup {t}
    /\ calling' = calling \cup {t}
    /\ UNCHANGED <<jobStatus, jobAgent, turnStatus, turnAgent, msgs, checkpoint, jobLock,
                   cancelling, watch, tasks, delivery, calls, crashes>>

(* ...and start_resume continues it, unless its lane is being closed.        *)
StartResume(t) ==
    LET w == Resume(turnAgent[t])
    IN /\ t \in calling /\ pc[w] = "off"
       /\ calling' = calling \ {t}
       /\ IF turnAgent[t] \in cancelling
          THEN UNCHANGED <<pc, taskTurn>>
          ELSE /\ pc' = [pc EXCEPT ![w] = "lock"]
               /\ taskTurn' = [taskTurn EXCEPT ![w] = t]
       /\ UNCHANGED <<rows, jobLock, cancelling, watch, out, hit, reads, delivery, calls,
                      crashes>>

(* TurnRunner.resume under the lane's lock and the job lock: a turn that is  *)
(* no longer paused or running is left alone.                               *)
ResumeClaim(a) ==
    LET t == taskTurn[Resume(a)]
        go == a \notin cancelling /\ turnStatus[t] \in Open
    IN /\ pc[Resume(a)] = "lock" /\ LaneFree(a)
       /\ a \notin cancelling => jobLock = Nobody
       /\ turnStatus' = IF go THEN [turnStatus EXCEPT ![t] = "running"] ELSE turnStatus
       /\ board' = IF go THEN [board EXCEPT ![t] = Resume(a)] ELSE board
       /\ pc' = [pc EXCEPT ![Resume(a)] = IF go THEN "drive" ELSE "off"]
       /\ taskTurn' = IF go THEN taskTurn ELSE [taskTurn EXCEPT ![Resume(a)] = Nobody]
       /\ UNCHANGED <<jobStatus, jobAgent, turnAgent, msgs, checkpoint, answered,
                      jobLock, cancelling, flagged, out, hit, reads, calling, delivery, calls,
                      crashes>>

(* The model run ends; a turn flagged meanwhile is cancelled whatever it     *)
(* returned. A failed run has nothing to store.                             *)
DriveEnds(w, how) ==
    /\ pc[w] = "drive" /\ w \notin hit /\ how \in Outcomes
    /\ out' = [out EXCEPT ![w] =
                 IF taskTurn[w] \in flagged /\ how # "fail" THEN "cancelled" ELSE how]
    /\ pc' = [pc EXCEPT ![w] = IF how = "fail" THEN "unwind" ELSE "persist"]
    /\ UNCHANGED <<rows, jobLock, cancelling, watch, taskTurn, hit, reads, calling, delivery,
                   calls, crashes>>

(* _persist_done, _persist_waiting, _persist_cancelled: a turn that is       *)
(* already stored as cancelled is left alone. What follows the commit may    *)
(* still raise.                                                             *)
Persist(w) ==
    LET t == taskTurn[w]
    IN /\ pc[w] = "persist"
       /\ CASE turnStatus[t] = "cancelled" -> UNCHANGED rows
            [] turnStatus[t] # "cancelled" /\ out[w] = "waiting" ->
                 /\ turnStatus' = [turnStatus EXCEPT ![t] = "waiting"]
                 /\ checkpoint' = checkpoint \cup {t}
                 /\ answered' = answered \ {t}
                 /\ msgs' = msgs \cup {t}
                 /\ UNCHANGED <<jobStatus, jobAgent, turnAgent>>
            [] turnStatus[t] # "cancelled" /\ out[w] = "done" -> EndTurn(t, "done")
            [] OTHER -> EndTurn(t, "cancelled")
       /\ pc' = [pc EXCEPT ![w] = "unwind"]
       /\ \/ UNCHANGED out
          \/ "fail" \in Outcomes /\ w \notin hit /\ out' = [out EXCEPT ![w] = "fail"]
       /\ UNCHANGED <<jobLock, cancelling, watch, taskTurn, hit, reads, calling, delivery,
                      calls, crashes>>

Gone(w) ==
    /\ taskTurn' = [taskTurn EXCEPT ![w] = Nobody]
    /\ out' = [out EXCEPT ![w] = "none"]
    /\ hit' = hit \ {w}
    /\ reads' = [reads EXCEPT ![w] = NoRead]

(* The runtime is closed and the turn leaves the board.                      *)
Unwind(w) ==
    LET t == taskTurn[w]
    IN /\ pc[w] = "unwind" /\ (w \in hit => out[w] = "stopped")
       /\ board' = [board EXCEPT ![t] = Nobody]
       /\ flagged' = flagged \ {t}
       /\ IF out[w] = "fail"
          THEN pc' = [pc EXCEPT ![w] = "fail"] /\ UNCHANGED <<taskTurn, out, hit, reads>>
          ELSE pc' = [pc EXCEPT ![w] = "off"] /\ Gone(w)
       /\ UNCHANGED <<rows, jobLock, cancelling, calling, delivery, calls, crashes>>

(* record_turn_failure reads two rows: the pump the job, then its open turn  *)
(* on the lane the job was read on; the resume its own turn, then the job.    *)
JobRead(r) == [r EXCEPT !.job = jobStatus \in {"queued", "started"}, !.lane = jobAgent]
TurnRead(r, t) == [r EXCEPT !.turn = t, !.as = turnStatus[t]]

FailReads(w) ==
    /\ pc[w] = "fail"
    /\ reads' = [reads EXCEPT ![w] = IF w[1] = "resume" THEN TurnRead(NoRead, taskTurn[w])
                                     ELSE JobRead(NoRead)]
    /\ pc' = [pc EXCEPT ![w] = "look"]
    /\ UNCHANGED <<rows, jobLock, cancelling, watch, taskTurn, out, hit, calling, delivery,
                   calls, crashes>>

FailLooks(w) ==
    LET mine == {t \in With(Open) : turnAgent[t] = reads[w].lane}
    IN /\ pc[w] = "look"
       /\ reads' = [reads EXCEPT ![w] =
                       IF w[1] = "resume" THEN JobRead(reads[w])
                       ELSE IF mine = {} THEN reads[w] ELSE TurnRead(reads[w], First(mine))]
       /\ pc' = [pc EXCEPT ![w] = "record"]
       /\ UNCHANGED <<rows, jobLock, cancelling, watch, taskTurn, out, hit, calling,
                      delivery, calls, crashes>>

(* A turn that it read ended, or paused on an approval that is still open, is *)
(* left alone with its job. Everything else is written as it was read: a      *)
(* cancel stored since then, with the approvals it resolved, is overwritten.  *)
FailWrites(w) ==
    LET r == reads[w]
        left == \/ r.as \in Ended
                \/ r.as = "waiting" /\ r.turn \notin answered /\ turnStatus[r.turn] \notin Ended
    IN /\ pc[w] = "record"
       /\ jobStatus' = IF ~left /\ r.job THEN "failed" ELSE jobStatus
       /\ IF ~left /\ r.as \in Open
          THEN /\ turnStatus' = [turnStatus EXCEPT ![r.turn] = "failed"]
               /\ checkpoint' = checkpoint \ {r.turn}
               /\ msgs' = msgs \cup {r.turn}
          ELSE UNCHANGED <<turnStatus, checkpoint, msgs>>
       /\ pc' = [pc EXCEPT ![w] = "off"]
       /\ Gone(w)
       /\ UNCHANGED <<jobAgent, turnAgent, answered, jobLock, cancelling, watch, calling,
                      delivery, calls, crashes>>

(* task.cancel() reaches the drive: a flagged turn is stored as cancelled... *)
Interrupted(w) ==
    /\ w \in hit /\ pc[w] = "drive"
    /\ out' = [out EXCEPT ![w] = "stopped"]
    /\ pc' = [pc EXCEPT ![w] = IF taskTurn[w] \in flagged THEN "persist" ELSE "unwind"]
    /\ UNCHANGED <<rows, jobLock, cancelling, watch, taskTurn, hit, reads, calling, delivery,
                   calls, crashes>>

(* ...or it reaches a task that is storing or closing: the transaction may   *)
(* be rolled back, and the turn may stay on the board.                       *)
Dies(w) ==
    LET t == taskTurn[w]
    IN /\ w \in hit /\ pc[w] \in {"persist", "unwind"} /\ out[w] # "stopped"
       /\ \/ board' = [board EXCEPT ![t] = Nobody] /\ flagged' = flagged \ {t}
          \/ UNCHANGED watch
       /\ pc' = [pc EXCEPT ![w] = "off"]
       /\ Gone(w)
       /\ UNCHANGED <<rows, jobLock, cancelling, calling, delivery, calls, crashes>>

-----------------------------------------------------------------------------
(* Client calls. Each takes the job lock and runs Worker._cancel on a turn;  *)
(* closing a lane and moving the job do more with the lock held.             *)

(* Faulty variant: a call returns without leaving the job lock.              *)
ReturnsLocked(c) ==
    /\ cPc' = [cPc EXCEPT ![c] = "end"]
    /\ cTurn' = [cTurn EXCEPT ![c] = Nobody]
    /\ cTask' = [cTask EXCEPT ![c] = Nobody]
    /\ UNCHANGED jobLock

Returns(c) ==
    /\ cPc' = [cPc EXCEPT ![c] = "end"]
    /\ cTurn' = [cTurn EXCEPT ![c] = Nobody]
    /\ cTask' = [cTask EXCEPT ![c] = Nobody]
    /\ jobLock' = IF jobLock = c THEN Nobody ELSE jobLock

(* turns.cancel on a turn the client has seen.                               *)
CallTurn(c, t) ==
    /\ cPc[c] = "off" /\ "turn" \in Modes /\ turnStatus[t] # "none"
    /\ cMode' = [cMode EXCEPT ![c] = "turn"]
    /\ cTurn' = [cTurn EXCEPT ![c] = t]
    /\ cPc' = [cPc EXCEPT ![c] = "lock"]
    /\ UNCHANGED <<rows, jobLock, cancelling, watch, tasks, calling, delivery, cTask,
                   cAgent, crashes>>

(* cancel_agent: lane cancels go one at a time; the lane is marked, and its  *)
(* list of jobs has this one in it.                                         *)
CallLane(c, a) ==
    /\ cPc[c] = "off" /\ "lane" \in Modes /\ cancelling = {}
    /\ jobAgent = a /\ jobStatus \in {"queued", "started"}
    /\ cMode' = [cMode EXCEPT ![c] = "lane"]
    /\ cAgent' = [cAgent EXCEPT ![c] = a]
    /\ cancelling' = {a}
    /\ cPc' = [cPc EXCEPT ![c] = "lock"]
    /\ UNCHANGED <<rows, jobLock, watch, tasks, calling, delivery, cTurn, cTask, crashes>>

(* reroute: an ended job is refused here and again under the lock.           *)
CallMove(c, b) ==
    /\ cPc[c] = "off" /\ "move" \in Modes
    /\ msgs # {} /\ jobStatus \notin Ended /\ b # jobAgent
    /\ cMode' = [cMode EXCEPT ![c] = "move"]
    /\ cAgent' = [cAgent EXCEPT ![c] = b]
    /\ cPc' = [cPc EXCEPT ![c] = "lock"]
    /\ UNCHANGED <<rows, jobLock, cancelling, watch, tasks, calling, delivery, cTurn,
                   cTask, crashes>>

(* The job lock is taken and the turn to cancel, if any, is looked up.       *)
CallLocks(c) ==
    LET a == cAgent[c]
        found == CASE cMode[c] = "turn" -> {cTurn[c]}
                   [] cMode[c] = "lane" -> {t \in With(Live) : turnAgent[t] = a}
                   [] cMode[c] = "move" -> With(Open)
        refused == \/ cMode[c] = "lane" /\ jobAgent # a
                   \/ cMode[c] = "move" /\ jobStatus \in Ended
        next == CASE found # {} -> "status"
                  [] found = {} /\ cMode[c] = "lane" -> "mark"
                  [] OTHER -> "park"
    IN /\ cPc[c] = "lock" /\ jobLock = Nobody
       /\ IF refused
          THEN Returns(c) /\ cancelling' = IF cMode[c] = "lane" THEN {} ELSE cancelling
          ELSE /\ jobLock' = c
               /\ cPc' = [cPc EXCEPT ![c] = next]
               /\ cTurn' = [cTurn EXCEPT ![c] = IF found = {} THEN Nobody ELSE First(found)]
               /\ UNCHANGED <<cTask, cancelling>>
       /\ UNCHANGED <<rows, watch, tasks, calling, delivery, cMode, cAgent, crashes>>

(* What follows _cancel: the lane marks its queued job, the move parks the   *)
(* job if the turn is cancelled now, and gives up otherwise.                 *)
AfterCancel(c, status) ==
    IF cMode[c] = "turn" \/ (cMode[c] = "move" /\ status # "cancelled")
    THEN Returns(c)
    ELSE /\ cPc' = [cPc EXCEPT ![c] = IF cMode[c] = "lane" THEN "mark" ELSE "park"]
         /\ UNCHANGED <<jobLock, cTurn, cTask>>

(* _cancel reads the status; a turn that is not over is flagged, and its     *)
(* task remembered.                                                         *)
CancelReads(c) ==
    LET t == cTurn[c]
    IN /\ cPc[c] = "status"
       /\ IF turnStatus[t] \in Ended
          THEN AfterCancel(c, turnStatus[t]) /\ UNCHANGED flagged
          ELSE /\ flagged' = flagged \cup {t}
               /\ cTask' = [cTask EXCEPT ![c] = board[t]]
               /\ cPc' = [cPc EXCEPT ![c] =
                            IF board[t] = Nobody THEN "persist" ELSE "interrupt"]
               /\ UNCHANGED <<jobLock, cTurn>>
       /\ UNCHANGED <<rows, cancelling, board, tasks, calling, delivery, cMode, cAgent,
                      crashes>>

(* Faulty variant: the task is cancelled and not waited for.                 *)
CancelInterruptsOnly(c) ==
    /\ cPc[c] = "interrupt"
    /\ hit' = IF board[cTurn[c]] = cTask[c] /\ taskTurn[cTask[c]] = cTurn[c]
              THEN hit \cup {cTask[c]} ELSE hit
    /\ cPc' = [cPc EXCEPT ![c] = "persist"]
    /\ UNCHANGED <<rows, jobLock, cancelling, watch, pc, taskTurn, out, reads, calling, delivery,
                   cMode, cTurn, cTask, cAgent, crashes>>

(* The task is cancelled if it is still the one on the board. A task that    *)
(* has ended leaves nothing to wait for.                                    *)
CancelInterrupts(c) ==
    /\ cPc[c] = "interrupt"
    /\ IF board[cTurn[c]] = cTask[c] /\ taskTurn[cTask[c]] = cTurn[c]
       THEN /\ hit' = hit \cup {cTask[c]}
            /\ cPc' = [cPc EXCEPT ![c] = "await"]
       ELSE hit' = hit /\ cPc' = [cPc EXCEPT ![c] = "persist"]
    /\ UNCHANGED <<rows, jobLock, cancelling, watch, pc, taskTurn, out, reads, calling, delivery,
                   cMode, cTurn, cTask, cAgent, crashes>>

CancelAwaits(c) ==
    /\ cPc[c] = "await" /\ cTask[c] \notin hit
    /\ cPc' = [cPc EXCEPT ![c] = "persist"]
    /\ UNCHANGED <<rows, jobLock, cancelling, watch, tasks, calling, delivery, cMode,
                   cTurn, cTask, cAgent, crashes>>

(* Of the three stored cancels each reads the turn on its own, and the one    *)
(* that finds its status goes on to write. None for a turn that is over.      *)
CancelFinds(c) ==
    LET t == cTurn[c]
    IN /\ cPc[c] = "persist"
       /\ IF turnStatus[t] \in Live
          THEN cPc' = [cPc EXCEPT ![c] = "write"] /\ UNCHANGED <<jobLock, cTurn, cTask>>
          ELSE AfterCancel(c, turnStatus[t])
       /\ UNCHANGED <<rows, cancelling, watch, tasks, calling, delivery, cMode, cAgent,
                      crashes>>

(* Faulty variant: of a queued turn only the job is cancelled.               *)
CancelPersistsJob(c) ==
    LET t == cTurn[c]
    IN /\ cPc[c] = "write"
       /\ IF turnStatus[t] = "queued"
          THEN /\ jobStatus' = "cancelled"
               /\ UNCHANGED <<jobAgent, turnStatus, turnAgent, msgs, checkpoint, answered>>
          ELSE EndTurn(t, "cancelled")
       /\ AfterCancel(c, "cancelled")
       /\ UNCHANGED <<cancelling, watch, tasks, calling, delivery, cMode, cAgent, crashes>>

(* persist_running_cancel, persist_queued_cancel, cancel_persisted_waiting:  *)
(* turn and job end as cancelled whatever they are by now. Only a running     *)
(* turn may lack the user message, and a failure stored since then added it.  *)
CancelPersists(c) ==
    LET t == cTurn[c]
    IN /\ cPc[c] = "write"
       /\ turnStatus' = [turnStatus EXCEPT ![t] = "cancelled"]
       /\ jobStatus' = "cancelled"
       /\ checkpoint' = checkpoint \ {t}
       /\ msgs' = IF turnStatus[t] \in {"waiting", "queued"} THEN msgs ELSE msgs \cup {t}
       /\ AfterCancel(c, "cancelled")
       /\ UNCHANGED <<jobAgent, turnAgent, answered, cancelling, watch, tasks, calling,
                      delivery, cMode, cAgent, crashes>>

(* The end of cancel_agent: a job that is still queued on the lane is        *)
(* cancelled, and the lane can be woken again.                              *)
LaneMarks(c) ==
    /\ cPc[c] = "mark"
    /\ jobStatus' = IF jobAgent = cAgent[c] /\ jobStatus = "queued"
                    THEN "cancelled" ELSE jobStatus
    /\ cancelling' = {}
    /\ Returns(c)
    /\ UNCHANGED <<jobAgent, turnStatus, turnAgent, msgs, checkpoint, answered, watch,
                   tasks, calling, delivery, cMode, cAgent, crashes>>

(* park_job: the job is queued on the other lane. A queued turn of the old   *)
(* lane moves along; a cancelled one hands its message to a fresh turn.      *)
Park(c) ==
    LET b == cAgent[c]
        moved == {t \in With({"queued"}) : turnAgent[t] = jobAgent}
        old == {t \in With({"cancelled"}) \cap msgs : turnAgent[t] = jobAgent}
        new == IF old = {} THEN {} ELSE {First(Unused)}
    IN /\ cPc[c] = "park"
       /\ IF jobStatus \in {"done", "failed"}
          THEN UNCHANGED rows
          ELSE /\ old # {} => Unused # {}
               /\ jobStatus' = "queued" /\ jobAgent' = b
               /\ turnStatus' = [t \in Turns |-> IF t \in new THEN "queued"
                                                 ELSE turnStatus[t]]
               /\ turnAgent' = [t \in Turns |-> IF t \in moved \cup new THEN b
                                                ELSE turnAgent[t]]
               /\ msgs' = (msgs \ old) \cup new
               /\ UNCHANGED <<checkpoint, answered>>
       /\ Returns(c)
       /\ UNCHANGED <<cancelling, watch, tasks, calling, delivery, cMode, cAgent, crashes>>

-----------------------------------------------------------------------------
(* Faulty variant: the message stays on the failed attempt.                  *)
RetryKeeps(failed) == {}

(* _preserve_retry_message: the failed attempts whose message moves.         *)
RetryMoves(failed) == failed \cap msgs

(* The host stops and restarts. recover looks at a job that was started: an  *)
(* answered or paused turn keeps it, cancelled turns end it, a stored result *)
(* leaves it; otherwise running turns fail and the job is queued again, its  *)
(* message moved to a fresh queued turn. Answered turns are resumed.         *)
Crash ==
    LET related == With(Ended \cup Live)
        ready == {t \in With(Open) \cap checkpoint \cap answered :
                    With({"waiting"}) \subseteq answered}
        over == related # {} /\ related = With({"cancelled"})
        retry == /\ jobStatus = "started" /\ ready = {} /\ With({"waiting"}) = {}
                 /\ ~over /\ checkpoint = {}
        failed == With({"running", "failed"})
        kept == RetryMoves(failed)
        new == IF kept = {} THEN {} ELSE {First(Unused)}
        resumed(w) == {t \in ready : w = Resume(turnAgent[t]) /\ jobStatus = "started"}
    IN /\ crashes < MaxCrashes /\ crashes' = crashes + 1
       /\ IF retry
          THEN /\ kept # {} => Unused # {}
               /\ jobStatus' = "queued"
               /\ turnStatus' = [t \in Turns |->
                     CASE t \in failed -> "failed" [] t \in new -> "queued"
                       [] OTHER -> turnStatus[t]]
               /\ turnAgent' = [t \in Turns |-> IF t \in new THEN turnAgent[LastTurn(failed)]
                                                ELSE turnAgent[t]]
               /\ msgs' = (msgs \ kept) \cup new
          ELSE /\ jobStatus' = IF jobStatus = "started" /\ ready = {} /\ over
                               THEN "cancelled" ELSE jobStatus
               /\ UNCHANGED <<turnStatus, turnAgent, msgs>>
       /\ pc' = [w \in Tasks |-> IF resumed(w) # {} THEN "lock" ELSE "off"]
       /\ taskTurn' = [w \in Tasks |-> IF resumed(w) # {} THEN First(resumed(w))
                                       ELSE Nobody]
       /\ out' = [w \in Tasks |-> "none"] /\ hit' = {} /\ calling' = {}
       /\ reads' = [w \in Tasks |-> NoRead]
       /\ jobLock' = Nobody /\ cancelling' = {}
       /\ board' = [t \in Turns |-> Nobody] /\ flagged' = {}
       /\ dPc' = IF dPc = "attach" THEN "end" ELSE dPc
       /\ cPc' = [c \in Callers |-> IF cPc[c] = "off" THEN "off" ELSE "end"]
       /\ cTurn' = [c \in Callers |-> Nobody] /\ cTask' = [c \in Callers |-> Nobody]
       /\ UNCHANGED <<jobAgent, checkpoint, answered, dKind, cMode, cAgent>>

(* Nothing runs and no call is open.                                        *)
Rest ==
    /\ \A w \in Tasks : pc[w] = "off"
    /\ \A c \in Callers : cPc[c] \in {"off", "end"}
    /\ dPc = "end" /\ calling = {}
    /\ UNCHANGED vars

-----------------------------------------------------------------------------
TaskStep(w) ==
    \/ \E how \in Outcomes : DriveEnds(w, how)
    \/ Persist(w) \/ Unwind(w) \/ Interrupted(w) \/ Dies(w)
    \/ FailReads(w) \/ FailLooks(w) \/ FailWrites(w)

CallStep(c) ==
    \/ CancelReads(c) \/ CancelInterrupts(c) \/ CancelAwaits(c)
    \/ CancelFinds(c) \/ CancelPersists(c) \/ LaneMarks(c) \/ Park(c)

Next ==
    \/ \E a \in Agents : \/ \E k \in Kinds : Enqueue(k, a)
                         \/ Attach(a) \/ PumpSelect(a) \/ PumpClaim(a)
                         \/ PumpPromote(a) \/ ResumeClaim(a)
    \/ \E t \in Turns : Answer(t) \/ StartResume(t)
    \/ \E w \in Tasks : TaskStep(w)
    \/ \E c \in Callers : \/ \E t \in Turns : CallTurn(c, t)
                          \/ \E a \in Agents : CallLane(c, a) \/ CallMove(c, a)
                          \/ CallLocks(c) \/ CallStep(c)
    \/ Crash
    \/ Rest

Spec == Init /\ [][Next]_vars

(* What has begun goes on, drives return, and the job lock serves its        *)
(* waiters first come first served. No client call and no answer has to come.*)
Fairness ==
    /\ WF_vars(\E a \in Agents : Attach(a))
    /\ \A a \in Agents : /\ SF_vars(PumpClaim(a)) /\ WF_vars(PumpPromote(a))
                          /\ SF_vars(ResumeClaim(a))
    /\ \A w \in Tasks : WF_vars(TaskStep(w))
    /\ \A c \in Callers : SF_vars(CallLocks(c)) /\ WF_vars(CallStep(c))

FairSpec == Spec /\ Fairness

-----------------------------------------------------------------------------
(* Properties.                                                              *)

(* The chat shows the message once, and while the job is to be run or runs   *)
(* it is on the live turn: _attach_user_message, the persist transactions,   *)
(* park_job and recover neither copy it nor leave it on an attempt that is   *)
(* over.                                                                    *)
MessageFollowsJob ==
    /\ Cardinality(msgs) <= 1
    /\ jobStatus \in {"asked", "queued", "started"} => msgs \subseteq With(Live)

(* The job has at most one turn that is queued, running or paused, and none   *)
(* once it is over: promote, park_job and recover open no second one, and no *)
(* turn shows as queued or running for ever (recover: "so the retry is not a *)
(* second running turn for the same job").                                  *)
NoStrandedTurn ==
    /\ Cardinality(With(Live)) <= 1
    /\ With(Live) # {} => jobStatus \in {"asked", "queued", "started"}

(* Nobody drives a turn that is over, and no two tasks drive the job:        *)
(* _cancel waits for the task before it stores the cancel and before the job *)
(* can run on another lane.                                                 *)
NoZombieDrive ==
    \A w \in Tasks : pc[w] = "drive" =>
        /\ turnStatus[taskTurn[w]] = "running" /\ jobStatus = "started"
        /\ \A v \in Tasks : pc[v] = "drive" => v = w

(* A job that is moved, cancelled or retried after a crash keeps its message *)
(* on its one live turn, and the turn it left does not go on (park_job,      *)
(* _preserve_retry_message).                                                 *)
MovedJobIsWhole == MessageFollowsJob /\ NoStrandedTurn /\ NoZombieDrive

(* An ending is final, but for a write that was already on its way: what is   *)
(* done stays done, and a failure or a cancel is rewritten only into the      *)
(* other, by a failure record or stored cancel that read the turn, or the     *)
(* job, while it was open (record_turn_failure and the stored cancels hold     *)
(* different locks). No late persist, claim, resume or recovery rewrites an    *)
(* ending. park_job requeues the job its own move has just cancelled.         *)
Stale(t) ==
    \/ \E w \in Tasks : pc[w] = "record" /\ reads[w].turn = t /\ reads[w].as \in Open
    \/ \E c \in Callers : cPc[c] = "write" /\ cTurn[c] = t

Sticks ==
    /\ \A t \in Turns : turnStatus[t] \in Ended =>
          \/ turnStatus'[t] = turnStatus[t]
          \/ {turnStatus[t], turnStatus'[t]} = {"failed", "cancelled"} /\ Stale(t)
    /\ jobStatus = "done" => jobStatus' = "done"
    /\ jobStatus = "failed" /\ jobStatus' # "failed" =>
         jobStatus' = "cancelled" /\ \E c \in Callers : cPc[c] = "write"
    /\ jobStatus = "cancelled" /\ jobStatus' # "cancelled" =>
         \/ \E c \in Callers : cMode[c] = "move" /\ cPc[c] = "park"
         \/ jobStatus' = "failed" /\ \E w \in Tasks : pc[w] = "record" /\ reads[w].job

EndingsStick == [][Sticks]_vars

(* All of this implements JobLife: whatever locks, tasks, calls and restarts  *)
(* do, one step at a time the job's tries follow each other, the job ends in  *)
(* the step in which its try does, and the message goes along (record_*,     *)
(* _persist_*, park_job, recover).                                           *)
JobState ==
    CASE jobStatus = "none" -> "new"
      [] jobStatus \in Ended -> jobStatus
      [] jobStatus \in {"asked", "queued", "started"} -> "todo"
Tries == [t \in With(Ended \cup Live) |-> turnStatus[t]]
Life == INSTANCE JobLife WITH
    Lanes <- Agents, Nowhere <- Nobody,
    state <- JobState, lane <- jobAgent, tries <- Tries, holders <- msgs
ImplementsJobLife == Life!JobSpec

(* Every call that cancels, closes or moves comes back: no task and call     *)
(* wait for each other over the job lock.                                   *)
CallsEnd == \A c \in Callers : cPc[c] # "off" ~> cPc[c] = "end"

(* A move leaves the job to be run: while it is queued only a claim or a     *)
(* cancel takes it out of the queue (interrupt_and_requeue).                 *)
QueuedJobNotFailed == [][jobStatus = "queued" => jobStatus' # "failed"]_vars
=============================================================================
