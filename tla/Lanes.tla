------------------------------- MODULE Lanes -------------------------------
(***************************************************************************)
(* The lanes of one bot: deliveries queue jobs on agents, the worker's      *)
(* pumps run them one turn at a time per agent under the bot cap and the    *)
(* host cap, turns pause for approvals and are resumed, clients stop turns, *)
(* move jobs and close lanes, the host crashes and recovers.                *)
(*                                                                         *)
(* Rows survive a crash; pumps, resumes, reservations and calls do not. One *)
(* database transaction is one step; the code up to the next await joins    *)
(* it. A job's attempts share the entry turn[j]; what happens inside the    *)
(* job lock (claim and promote, cancel and park) is one step here and is    *)
(* taken apart in module TurnLife.                                          *)
(***************************************************************************)
EXTENDS Naturals, FiniteSets

CONSTANTS
    Agents,      \* agent rows the bot may come to have
    Jobs,        \* messages that may be delivered
    Kinds,       \* deliveries tried, a subset of AllKinds
    Outcomes,    \* how a drive may end, a subset of AllOutcomes
    Cap,         \* bots.max_parallel_agents
    Slots,       \* runtime.max_running_turns
    Budget,      \* bound: how often each of Rare happens
    Nobody       \* no job, no agent

AllKinds == {"fresh", "chit_chat", "follow_up", "steer", "routine"}
AllOutcomes == {"done", "waiting", "fail"}
Rare == {"stop", "move", "close", "expire", "crash"}

ASSUME LanesAssumption ==
    /\ Cap \in Nat \ {0} /\ Slots \in Nat \ {0}
    /\ Kinds \subseteq AllKinds /\ Outcomes \subseteq AllOutcomes
    /\ Budget \in [Rare -> Nat]
    /\ Nobody \notin Agents \cup Jobs
    /\ IsFiniteSet(Agents) /\ IsFiniteSet(Jobs)

Tasks == {"pump", "resume"} \X Agents
Pump(a) == <<"pump", a>>
Resume(a) == <<"resume", a>>

VARIABLES
    agentStatus, jobStatus, jobAgent,
    born,        \* order of the jobs' created_at, 0 for a job not yet stored
    turn,        \* status of the job's newest turn
    answered,    \* jobs whose paused turn has every approval resolved
    again,       \* Worker._again
    reserved,    \* Worker._reserved
    cancelling,  \* Worker._cancelling_agents
    pc, taskJob, \* pumps and resumes
    owed,        \* agents whose _release is about to run
    calling,     \* answered jobs whose start_resume is about to be called
    dPc, dKind, held,     \* deliveries (and moves), one per job
    cAgent, cTodo,        \* the lane cancel in progress and its snapshot
    used

rows == <<agentStatus, jobStatus, jobAgent, born, turn, answered>>
worker == <<again, reserved, cancelling>>
tasks == <<pc, taskJob>>
deliveries == <<dPc, dKind, held>>
closing == <<cAgent, cTodo>>
vars == <<rows, worker, tasks, owed, calling, deliveries, closing, used>>

Open == {"running", "waiting"}
Live == {"queued", "started"}

TypeOK ==
    /\ agentStatus \in [Agents -> {"none", "idle", "running", "waiting", "done"}]
    /\ jobStatus \in [Jobs -> Live \cup {"none", "done", "failed", "cancelled"}]
    /\ jobAgent \in [Jobs -> Agents \cup {Nobody}]
    /\ born \in [Jobs -> Nat]
    /\ turn \in [Jobs -> Open \cup {"none", "queued", "ended"}]
    /\ answered \subseteq Jobs
    /\ again \subseteq Agents /\ reserved \subseteq Agents
    /\ cancelling \subseteq Agents
    /\ pc \in [Tasks -> {"off", "lock", "check", "next", "reserve", "rest", "slot",
                         "drive", "after"}]
    /\ taskJob \in [Tasks -> Jobs \cup {Nobody}]
    /\ owed \subseteq Agents /\ calling \subseteq Jobs
    /\ dPc \in [Jobs -> {"new", "revive", "cap", "enqueue", "kick", "end"}]
    /\ dKind \in [Jobs -> Kinds \cup {"none", "move"}]
    /\ held \subseteq Jobs
    /\ cAgent \in Agents \cup {Nobody}
    /\ cTodo \in (SUBSET Jobs) \cup {Nobody}
    /\ used \in [Rare -> Nat]

Init ==
    /\ agentStatus = [a \in Agents |-> "none"]
    /\ jobStatus = [j \in Jobs |-> "none"]
    /\ jobAgent = [j \in Jobs |-> Nobody]
    /\ born = [j \in Jobs |-> 0]
    /\ turn = [j \in Jobs |-> "none"]
    /\ answered = {}
    /\ again = {} /\ reserved = {} /\ cancelling = {}
    /\ pc = [w \in Tasks |-> "off"]
    /\ taskJob = [w \in Tasks |-> Nobody]
    /\ owed = {} /\ calling = {}
    /\ dPc = [j \in Jobs |-> "new"]
    /\ dKind = [j \in Jobs |-> "none"]
    /\ held = {}
    /\ cAgent = Nobody /\ cTodo = {}
    /\ used = [r \in Rare |-> 0]

-----------------------------------------------------------------------------
(* Reads of the rows, and wake-ups.                                         *)

Occupying == {a \in Agents : agentStatus[a] \in Open}

QueuedOn(a) == {j \in Jobs : jobStatus[j] = "queued" /\ jobAgent[j] = a}

Oldest(S) == CHOOSE j \in S : \A i \in S : born[j] <= born[i]

OpenTurns(a) == {j \in Jobs : jobAgent[j] = a /\ turn[j] \in Open}

LaneWaits(a) == \E j \in Jobs : jobAgent[j] = a /\ turn[j] = "waiting"

OverCap == Cardinality(Occupying) >= Cap

(* kick: a lane being closed is not woken; a running pump is told to look    *)
(* again, a finished one is started.                                        *)
Woken(S) == S \ cancelling
AfterKicks(S, f) ==
    [w \in Tasks |-> IF w[1] = "pump" /\ w[2] \in Woken(S) /\ f[w] = "off"
                     THEN "lock" ELSE f[w]]

(* _open_slots(a): the other lanes with queued work, oldest job first, as    *)
(* many as the cap leaves room for; lanes that hold a slot are skipped.      *)
Sleeping(a) ==
    {b \in Agents \ (reserved \cup {a}) :
        QueuedOn(b) # {} /\ agentStatus[b] \notin Open}
OpenSlots(a) ==
    LET first(b) == born[Oldest(QueuedOn(b))]
        ahead(b) == {d \in Sleeping(a) : first(d) < first(b)}
    IN {b \in Sleeping(a) : Cardinality(Occupying) + Cardinality(ahead(b)) < Cap}

LockFree(a) == \A w \in Tasks : w[2] = a => pc[w] \in {"off", "lock"}
SlotHolders == {w \in Tasks : pc[w] \in {"drive", "after"}}
SlotFree == Cardinality(SlotHolders) < Slots

Spend(r) == used[r] < Budget[r] /\ used' = [used EXCEPT ![r] = @ + 1]

-----------------------------------------------------------------------------
(* Deliveries: deliver and queue_on_lane.                                   *)

(* _act for a new lane, or a routine's spawn before queue_on_lane.           *)
RouteFresh(j, k, a) ==
    /\ dPc[j] = "new" /\ k \in {"fresh", "chit_chat", "routine"}
    /\ agentStatus[a] = "none"
    /\ agentStatus' = [agentStatus EXCEPT ![a] = "idle"]
    /\ jobAgent' = [jobAgent EXCEPT ![j] = a]
    /\ dKind' = [dKind EXCEPT ![j] = k]
    /\ dPc' = [dPc EXCEPT ![j] = IF k = "routine" THEN "enqueue" ELSE "cap"]
    /\ UNCHANGED <<jobStatus, born, turn, answered, worker, tasks, owed, calling,
                   held, closing, used>>

(* _act for a target lane: what _over_cap later sees of it is read here.      *)
RouteTarget(j, k, a) ==
    /\ dPc[j] = "new" /\ k \in {"follow_up", "steer"}
    /\ agentStatus[a] # "none"
    /\ jobAgent' = [jobAgent EXCEPT ![j] = a]
    /\ dKind' = [dKind EXCEPT ![j] = k]
    /\ dPc' = [dPc EXCEPT ![j] =
                 CASE agentStatus[a] \in Open -> "enqueue"
                   [] agentStatus[a] = "done" /\ k = "follow_up" -> "revive"
                   [] OTHER -> "cap"]
    /\ UNCHANGED <<agentStatus, jobStatus, born, turn, answered, worker, tasks,
                   owed, calling, held, closing, used>>

(* revive's second transaction: it writes idle whatever the row says by now. *)
Revive(j) ==
    /\ dPc[j] = "revive"
    /\ agentStatus' = [agentStatus EXCEPT ![jobAgent[j]] = "idle"]
    /\ dPc' = [dPc EXCEPT ![j] = "cap"]
    /\ UNCHANGED <<jobStatus, jobAgent, born, turn, answered, worker, tasks, owed,
                   calling, dKind, held, closing, used>>

(* _over_cap: before the job row exists in deliver, after it in              *)
(* queue_on_lane and reroute.                                               *)
ReadCap(j) ==
    /\ dPc[j] = "cap"
    /\ held' = IF OverCap /\ (dKind[j] = "move" => agentStatus[jobAgent[j]] \notin Open)
               THEN held \cup {j} ELSE held
    /\ dPc' = [dPc EXCEPT ![j] = IF jobStatus[j] = "none" THEN "enqueue" ELSE "kick"]
    /\ UNCHANGED <<rows, worker, tasks, owed, calling, dKind, closing, used>>

(* JobService.enqueue and _attach_user_message.                              *)
Enqueue(j) ==
    /\ dPc[j] = "enqueue"
    /\ jobStatus' = [jobStatus EXCEPT ![j] = "queued"]
    /\ turn' = [turn EXCEPT ![j] = "queued"]
    /\ born' = [born EXCEPT ![j] = 1 + Cardinality({i \in Jobs : born[i] > 0})]
    /\ dPc' = [dPc EXCEPT ![j] = IF dKind[j] = "routine" THEN "cap" ELSE "kick"]
    /\ UNCHANGED <<agentStatus, jobAgent, answered, worker, tasks, owed, calling,
                   dKind, held, closing, used>>

(* _start, unless the job is held behind the cap.                            *)
Kick(j) ==
    /\ dPc[j] = "kick"
    /\ LET S == IF j \in held THEN {} ELSE {jobAgent[j]}
       IN again' = again \cup Woken(S) /\ pc' = AfterKicks(S, pc)
    /\ dPc' = [dPc EXCEPT ![j] = "end"]
    /\ held' = held \ {j}
    /\ UNCHANGED <<rows, reserved, cancelling, taskJob, owed, calling, dKind, closing,
                   used>>

-----------------------------------------------------------------------------
(* The pump of an agent.                                                    *)

Goto(w, label) == pc' = [pc EXCEPT ![w] = label]

(* The pump is at the head of its loop, or gets the lane's lock and is there. *)
AtHead(a) == pc[Pump(a)] = "check" \/ (pc[Pump(a)] = "lock" /\ LockFree(a))

(* Faulty variant: the pump does not look for a paused turn of its lane.     *)
PumpCheckNoWait(a) ==
    /\ AtHead(a)
    /\ again' = again \ {a}
    /\ Goto(Pump(a), "next")
    /\ UNCHANGED <<rows, reserved, cancelling, taskJob, owed, calling, deliveries,
                   closing, used>>

(* The head of the loop: a lane being closed ends the pump.                  *)
PumpCheck(a) ==
    /\ AtHead(a)
    /\ IF a \in cancelling
       THEN again' = again /\ Goto(Pump(a), "off")
       ELSE /\ again' = again \ {a}
            /\ Goto(Pump(a), IF LaneWaits(a) THEN "rest" ELSE "next")
    /\ UNCHANGED <<rows, reserved, cancelling, taskJob, owed, calling, deliveries,
                   closing, used>>

PumpNext(a) ==
    /\ pc[Pump(a)] = "next"
    /\ IF QueuedOn(a) = {}
       THEN Goto(Pump(a), "rest") /\ UNCHANGED taskJob
       ELSE /\ Goto(Pump(a), "reserve")
            /\ taskJob' = [taskJob EXCEPT ![Pump(a)] = Oldest(QueuedOn(a))]
    /\ UNCHANGED <<rows, worker, owed, calling, deliveries, closing, used>>

(* Faulty variant: admission counts the stored statuses only.                *)
PumpReserveStored(a) ==
    /\ pc[Pump(a)] = "reserve"
    /\ IF Cardinality(Occupying \ {a}) >= Cap
       THEN /\ Goto(Pump(a), "rest") /\ UNCHANGED reserved
            /\ taskJob' = [taskJob EXCEPT ![Pump(a)] = Nobody]
       ELSE /\ Goto(Pump(a), "slot") /\ UNCHANGED taskJob
            /\ reserved' = reserved \cup {a}
    /\ UNCHANGED <<rows, again, cancelling, owed, calling, deliveries, closing, used>>

(* _reserve, under the admission lock.                                      *)
PumpReserve(a) ==
    /\ pc[Pump(a)] = "reserve"
    /\ IF Cardinality((Occupying \cup reserved) \ {a}) >= Cap
       THEN /\ Goto(Pump(a), "rest") /\ UNCHANGED reserved
            /\ taskJob' = [taskJob EXCEPT ![Pump(a)] = Nobody]
       ELSE /\ Goto(Pump(a), "slot") /\ UNCHANGED taskJob
            /\ reserved' = reserved \cup {a}
    /\ UNCHANGED <<rows, again, cancelling, owed, calling, deliveries, closing, used>>

(* Faulty variant: the pump returns without looking at the kicks it got.     *)
PumpRestDeaf(a) ==
    /\ pc[Pump(a)] = "rest"
    /\ Goto(Pump(a), "off")
    /\ UNCHANGED <<rows, worker, taskJob, owed, calling, deliveries, closing, used>>

(* The pump returns, unless it was kicked since the head of the loop.        *)
PumpRest(a) ==
    /\ pc[Pump(a)] = "rest"
    /\ Goto(Pump(a), IF a \in again THEN "check" ELSE "off")
    /\ UNCHANGED <<rows, worker, taskJob, owed, calling, deliveries, closing, used>>

(* With a slot of the host-wide semaphore, _mark_started claims the job only *)
(* while it is queued on this lane; the turn is promoted before the job lock *)
(* is released.                                                             *)
PumpClaim(a) ==
    LET j == taskJob[Pump(a)]
    IN /\ pc[Pump(a)] = "slot" /\ SlotFree
       /\ IF j \in QueuedOn(a)
          THEN /\ jobStatus' = [jobStatus EXCEPT ![j] = "started"]
               /\ turn' = [turn EXCEPT ![j] = "running"]
               /\ agentStatus' = [agentStatus EXCEPT ![a] = "running"]
               /\ Goto(Pump(a), "drive")
          ELSE Goto(Pump(a), "after") /\ UNCHANGED <<jobStatus, turn, agentStatus>>
       /\ UNCHANGED <<jobAgent, born, answered, worker, taskJob, owed, calling,
                      deliveries, closing, used>>

(* The end of a drive, stored by _persist_done, _persist_waiting or           *)
(* record_turn_failure.                                                      *)
DriveEnds(w, how) ==
    LET j == taskJob[w]
        a == w[2]
    IN /\ pc[w] = "drive" /\ how \in Outcomes
       /\ turn' = [turn EXCEPT ![j] = IF how = "waiting" THEN "waiting" ELSE "ended"]
       /\ jobStatus' = [jobStatus EXCEPT ![j] =
                          CASE how = "done" -> "done"
                            [] how = "fail" -> "failed"
                            [] OTHER -> @]
       /\ agentStatus' = [agentStatus EXCEPT ![a] =
                            CASE how = "waiting" -> "waiting"
                              [] how = "done" /\ dKind[j] = "chit_chat" -> "done"
                              [] OTHER -> "idle"]
       /\ answered' = answered \ {j}
       /\ Goto(w, "after")
       /\ UNCHANGED <<jobAgent, born, worker, taskJob, owed, calling, deliveries,
                      closing, used>>

(* Faulty variant: the lanes behind the cap are not woken.                   *)
PumpAfterAlone(a) ==
    /\ pc[Pump(a)] = "after"
    /\ reserved' = reserved \ {a}
    /\ taskJob' = [taskJob EXCEPT ![Pump(a)] = Nobody]
    /\ Goto(Pump(a), "check")
    /\ UNCHANGED <<rows, again, cancelling, owed, calling, deliveries, closing, used>>

(* The slot and the reservation are given back, _open_slots wakes the lanes  *)
(* behind the cap, and the loop goes on.                                    *)
PumpAfter(a) ==
    /\ pc[Pump(a)] = "after"
    /\ reserved' = reserved \ {a}
    /\ taskJob' = [taskJob EXCEPT ![Pump(a)] = Nobody]
    /\ again' = again \cup Woken(OpenSlots(a))
    /\ pc' = AfterKicks(OpenSlots(a), [pc EXCEPT ![Pump(a)] = "check"])
    /\ UNCHANGED <<rows, cancelling, owed, calling, deliveries, closing, used>>

-----------------------------------------------------------------------------
(* Approvals and resumes.                                                   *)

(* The last approval of a paused turn is saved.                              *)
Answer(j) ==
    /\ turn[j] = "waiting" /\ j \notin answered
    /\ answered' = answered \cup {j}
    /\ calling' = calling \cup {j}
    /\ UNCHANGED <<agentStatus, jobStatus, jobAgent, born, turn, worker, tasks, owed,
                   deliveries, closing, used>>

(* start_resume: dropped for a lane that is being closed.                    *)
StartResume(j) ==
    LET w == Resume(jobAgent[j])
    IN /\ j \in calling /\ pc[w] = "off"
       /\ calling' = calling \ {j}
       /\ IF jobAgent[j] \in cancelling
          THEN UNCHANGED tasks
          ELSE Goto(w, "lock") /\ taskJob' = [taskJob EXCEPT ![w] = j]
       /\ UNCHANGED <<rows, worker, owed, deliveries, closing, used>>

ResumeLock(a) ==
    /\ pc[Resume(a)] = "lock" /\ LockFree(a)
    /\ IF a \in cancelling
       THEN /\ Goto(Resume(a), "off")
            /\ taskJob' = [taskJob EXCEPT ![Resume(a)] = Nobody]
            /\ owed' = owed \cup {a}
       ELSE Goto(Resume(a), "slot") /\ UNCHANGED <<taskJob, owed>>
    /\ UNCHANGED <<rows, worker, calling, deliveries, closing, used>>

(* TurnRunner.resume: a turn that ended meanwhile is left alone.              *)
ResumeClaim(a) ==
    LET j == taskJob[Resume(a)]
    IN /\ pc[Resume(a)] = "slot" /\ SlotFree
       /\ IF turn[j] \in Open
          THEN /\ turn' = [turn EXCEPT ![j] = "running"]
               /\ agentStatus' = IF turn[j] = "waiting"
                                 THEN [agentStatus EXCEPT ![a] = "running"]
                                 ELSE agentStatus
               /\ Goto(Resume(a), "drive")
          ELSE Goto(Resume(a), "after") /\ UNCHANGED <<turn, agentStatus>>
       /\ UNCHANGED <<jobStatus, jobAgent, born, answered, worker, taskJob, owed,
                      calling, deliveries, closing, used>>

ResumeAfter(a) ==
    /\ pc[Resume(a)] = "after"
    /\ Goto(Resume(a), "off")
    /\ taskJob' = [taskJob EXCEPT ![Resume(a)] = Nobody]
    /\ owed' = owed \cup {a}
    /\ UNCHANGED <<rows, worker, calling, deliveries, closing, used>>

(* _release: wake this lane, then the lanes that wait for its slot.          *)
Release(a) ==
    LET S == {a} \cup OpenSlots(a)
    IN /\ a \in owed
       /\ owed' = owed \ {a}
       /\ again' = again \cup Woken(S)
       /\ pc' = AfterKicks(S, pc)
       /\ UNCHANGED <<rows, reserved, cancelling, taskJob, calling, deliveries,
                      closing, used>>

-----------------------------------------------------------------------------
(* Client calls, the expiry sweep, crash and recovery.                      *)

Drivers(j) == {w \in Tasks : pc[w] = "drive" /\ taskJob[w] = j}

(* Faulty variant: a running turn's task is stopped and its row left as is.  *)
StoppedTaskOnly(j, s) ==
    /\ turn[j] \in Open \cup {"queued"}
    /\ turn' = [turn EXCEPT ![j] = IF @ = "running" THEN @ ELSE "ended"]
    /\ jobStatus' = [jobStatus EXCEPT ![j] = s]
    /\ UNCHANGED agentStatus
    /\ answered' = answered \ {j}
    /\ pc' = [w \in Tasks |-> IF w \in Drivers(j) THEN "off" ELSE pc[w]]
    /\ taskJob' = [w \in Tasks |-> IF w \in Drivers(j) THEN Nobody ELSE taskJob[w]]
    /\ reserved' = reserved \ {a \in Agents : Pump(a) \in Drivers(j)}

(* Worker._cancel on the job's turn: the task that drives it is stopped and  *)
(* leaves its lock, slot and reservation; the turn ends and its lane is      *)
(* free. The job gets status s, which is cancelled or, for a move, queued.   *)
Stopped(j, s) ==
    /\ turn[j] \in Open \cup {"queued"}
    /\ turn' = [turn EXCEPT ![j] = IF s = "queued" THEN "queued" ELSE "ended"]
    /\ jobStatus' = [jobStatus EXCEPT ![j] = s]
    /\ agentStatus' = IF turn[j] \in Open
                      THEN [agentStatus EXCEPT ![jobAgent[j]] = "idle"] ELSE agentStatus
    /\ answered' = answered \ {j}
    /\ pc' = [w \in Tasks |-> IF w \in Drivers(j) THEN "off" ELSE pc[w]]
    /\ taskJob' = [w \in Tasks |-> IF w \in Drivers(j) THEN Nobody ELSE taskJob[w]]
    /\ reserved' = reserved \ {a \in Agents : Pump(a) \in Drivers(j)}

(* turn.cancel.                                                             *)
Stop(j) ==
    /\ Stopped(j, "cancelled")
    /\ owed' = owed \cup {jobAgent[j]}
    /\ Spend("stop")
    /\ UNCHANGED <<jobAgent, born, again, cancelling, calling, deliveries, closing>>

(* reroute: an open turn is cancelled, which wakes its lane later, and the   *)
(* job is parked on lane b, which is woken unless the cap holds it (ReadCap, *)
(* Kick). A queued job has no open turn: the lane it leaves is not woken.    *)
Move(j, b) ==
    /\ dPc[j] = "end" /\ b # jobAgent[j] /\ agentStatus[b] # "none"
    /\ Stopped(j, "queued")
    /\ jobAgent' = [jobAgent EXCEPT ![j] = b]
    /\ dPc' = [dPc EXCEPT ![j] = "cap"]
    /\ dKind' = [dKind EXCEPT ![j] = "move"]
    /\ owed' = IF turn[j] \in Open THEN owed \cup {jobAgent[j]} ELSE owed
    /\ Spend("move")
    /\ UNCHANGED <<born, again, cancelling, calling, held, closing>>

(* cancel_agent, one at a time: the lane is marked, its jobs are listed...   *)
CloseLane(a) ==
    /\ cAgent = Nobody /\ agentStatus[a] # "none"
    /\ cAgent' = a /\ cTodo' = Nobody
    /\ cancelling' = cancelling \cup {a}
    /\ Spend("close")
    /\ UNCHANGED <<rows, again, reserved, tasks, owed, calling, deliveries>>

CloseList ==
    /\ cAgent # Nobody /\ cTodo = Nobody
    /\ cTodo' = {j \in Jobs : jobAgent[j] = cAgent /\ jobStatus[j] \in Live}
    /\ UNCHANGED <<rows, worker, tasks, owed, calling, deliveries, cAgent, used>>

(* ...each is cancelled if it is still there and not ended...                *)
CloseJob(j) ==
    /\ cAgent # Nobody /\ cTodo # Nobody /\ j \in cTodo
    /\ cTodo' = cTodo \ {j}
    /\ IF jobAgent[j] = cAgent /\ turn[j] \in Open \cup {"queued"}
       THEN Stopped(j, "cancelled") /\ owed' = owed \cup {cAgent}
       ELSE UNCHANGED <<agentStatus, jobStatus, turn, answered, reserved, tasks, owed>>
    /\ UNCHANGED <<jobAgent, born, again, cancelling, calling, deliveries, cAgent, used>>

(* ...and the lane becomes done.                                            *)
CloseEnd ==
    /\ cAgent # Nobody /\ cTodo = {}
    /\ agentStatus' = [agentStatus EXCEPT ![cAgent] = "done"]
    /\ cancelling' = cancelling \ {cAgent}
    /\ owed' = owed \cup {cAgent}
    /\ cAgent' = Nobody /\ UNCHANGED cTodo
    /\ UNCHANGED <<jobStatus, jobAgent, born, turn, answered, again, reserved, tasks,
                   calling, deliveries, used>>

(* expire_agents: an idle lane is done after a day, when whatever was in     *)
(* flight on it has long ended.                                             *)
Expire(a) ==
    /\ agentStatus[a] = "idle"
    /\ \A w \in Tasks : w[2] = a => pc[w] = "off"
    /\ \A j \in Jobs : jobAgent[j] = a => dPc[j] = "end"
    /\ agentStatus' = [agentStatus EXCEPT ![a] = "done"]
    /\ Spend("expire")
    /\ UNCHANGED <<jobStatus, jobAgent, born, turn, answered, worker, tasks, owed,
                   calling, deliveries, closing>>

(* The jobs whose turn ran when the host stopped and did not go on from a    *)
(* stored checkpoint with all its approvals.                                *)
Retried == {j \in Jobs : /\ jobStatus[j] = "started" /\ turn[j] = "running"
                         /\ j \notin answered}

(* The host stops and restarts: recover requeues the turns that ran from     *)
(* the start, the lifespan kicks the lanes with queued jobs and resumes the  *)
(* answered turns. A delivery in flight is lost.                             *)
Crash ==
    LET retry == Retried
        freed == {a \in Agents : /\ agentStatus[a] = "running"
                                 /\ \E j \in retry : jobAgent[j] = a
                                 /\ OpenTurns(a) \subseteq retry}
        kicked == {a \in Agents : \E j \in Jobs : /\ jobAgent[j] = a
                                                  /\ \/ jobStatus[j] = "queued"
                                                     \/ j \in retry}
        resumed(a) == {j \in answered : jobAgent[j] = a /\ turn[j] \in Open}
    IN /\ jobStatus' = [j \in Jobs |-> IF j \in retry THEN "queued" ELSE jobStatus[j]]
       /\ turn' = [j \in Jobs |-> IF j \in retry THEN "queued" ELSE turn[j]]
       /\ agentStatus' = [a \in Agents |-> IF a \in freed THEN "idle" ELSE agentStatus[a]]
       /\ again' = kicked /\ reserved' = {} /\ cancelling' = {}
       /\ pc' = [w \in Tasks |->
                   IF \/ w[1] = "pump" /\ w[2] \in kicked
                      \/ w[1] = "resume" /\ resumed(w[2]) # {}
                   THEN "lock" ELSE "off"]
       /\ taskJob' = [w \in Tasks |->
                        IF w[1] = "resume" /\ resumed(w[2]) # {}
                        THEN Oldest(resumed(w[2])) ELSE Nobody]
       /\ owed' = {} /\ calling' = {} /\ cAgent' = Nobody /\ cTodo' = {}
       /\ dPc' = [j \in Jobs |-> IF dPc[j] = "new" THEN "new" ELSE "end"]
       /\ Spend("crash")
       /\ held' = {}
       /\ UNCHANGED <<jobAgent, born, answered, dKind>>

(* Nothing is left to do: every delivery is in and nothing runs.             *)
Idle ==
    /\ \A w \in Tasks : pc[w] = "off"
    /\ owed = {} /\ calling = {} /\ cAgent = Nobody
    /\ \A j \in Jobs : dPc[j] \in {"new", "end"}

Rest == Idle /\ UNCHANGED vars

-----------------------------------------------------------------------------
DeliveryStep(j) == Revive(j) \/ ReadCap(j) \/ Enqueue(j) \/ Kick(j)

PumpStep(a) ==
    \/ PumpCheck(a) \/ PumpNext(a) \/ PumpReserve(a) \/ PumpRest(a)
    \/ PumpClaim(a) \/ PumpAfter(a)

ResumeStep(a) == ResumeLock(a) \/ ResumeClaim(a) \/ ResumeAfter(a)

Next ==
    \/ \E j \in Jobs, k \in Kinds, a \in Agents :
          RouteFresh(j, k, a) \/ RouteTarget(j, k, a)
    \/ \E j \in Jobs : DeliveryStep(j) \/ Answer(j) \/ StartResume(j) \/ Stop(j)
    \/ \E j \in Jobs, b \in Agents : Move(j, b)
    \/ \E a \in Agents : PumpStep(a) \/ ResumeStep(a) \/ Release(a)
    \/ \E w \in Tasks : \E how \in Outcomes : DriveEnds(w, how)
    \/ \E a \in Agents : CloseLane(a) \/ Expire(a)
    \/ CloseList \/ (\E j \in Jobs : CloseJob(j)) \/ CloseEnd
    \/ Crash
    \/ Rest

Spec == Init /\ [][Next]_vars

(* Every task and call that has begun goes on, a drive returns, and the      *)
(* asyncio locks and the semaphore serve their waiters first come first      *)
(* served. No client call and no answer has to come.                        *)
Fairness ==
    /\ \A j \in Jobs : WF_vars(DeliveryStep(j)) /\ WF_vars(StartResume(j))
    /\ \A a \in Agents : /\ SF_vars(PumpStep(a)) /\ SF_vars(ResumeStep(a))
                          /\ WF_vars(Release(a))
    /\ \A w \in Tasks : WF_vars(\E how \in Outcomes : DriveEnds(w, how))
    /\ WF_vars(CloseList \/ (\E j \in Jobs : CloseJob(j)) \/ CloseEnd)

FairSpec == Spec /\ Fairness

-----------------------------------------------------------------------------
(* Properties.                                                              *)

(* One turn at a time per agent: a lane has at most one turn that runs or is *)
(* paused, whatever pump, resume and stop are doing (Worker, "Run queued     *)
(* jobs one turn at a time per agent").                                     *)
LaneSerial == \A a \in Agents : Cardinality(OpenTurns(a)) <= 1

(* The bot cap: no more lanes hold an open turn than max_parallel_agents,    *)
(* although _reserve decides before the claim stores the running status.     *)
CapRespected == Cardinality({a \in Agents : OpenTurns(a) # {}}) <= Cap

(* A lane runs its messages one at a time and in the order they came in:      *)
(* while one is queued no younger one of its lane is open (_next_queued,     *)
(* retry after a crash).                                                    *)
LaneInOrder ==
    /\ LaneSerial
    /\ \A i, j \in Jobs :
           /\ jobAgent[i] = jobAgent[j] /\ jobStatus[i] = "queued" /\ born[i] < born[j]
           => turn[j] \notin Open

(* A running turn has the task that drives it, or after a restart a resume   *)
(* that is about to; none is left behind by a cancel or by recovery.         *)
RunningIsDriven ==
    \A j \in Jobs : turn[j] = "running" =>
        \E w \in Tasks :
            /\ taskJob[w] = j
            /\ \/ pc[w] = "drive"
               \/ w[1] = "resume" /\ pc[w] \in {"lock", "slot"}

(* A job held behind the cap is started when a slot frees: when everything   *)
(* has come to rest, work is queued only on a paused lane or behind a full   *)
(* cap (_over_cap, kick, _open_slots, _release).                             *)
NoSleepingWork ==
    Idle => \A a \in Agents : QueuedOn(a) # {} => LaneWaits(a) \/ OverCap

(* Nothing is left asleep: no queued job, and no paused turn whose approvals  *)
(* are all saved (start_resume, Worker.resume).                              *)
NothingSleeps == NoSleepingWork /\ (Idle => \A j \in answered : turn[j] # "waiting")

(* Every queued job is started, or ended, in the end.                        *)
QueuedJobsRun ==
    \A j \in Jobs : jobStatus[j] = "queued" ~> jobStatus[j] # "queued"
=============================================================================
