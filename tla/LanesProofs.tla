---------------------------- MODULE LanesProofs -----------------------------
(***************************************************************************)
(* The lanes of a bot, proved for any number of lanes and jobs: one turn at *)
(* a time and in order, a task for every running turn, the bot cap, and no  *)
(* lane left asleep. Crashes and moves are left out, as in the runs of      *)
(* these invariants: a crash can give a lane a second open turn             *)
(* (MCLanesResumeCrash). The cap needs, besides, that nothing writes a      *)
(* lane's status while its turn is open: no revive and no close; and waking *)
(* needs that a delivery reads the cap after its job is stored, as a        *)
(* routine's does (MCLanesHeld shows the others).                           *)
(***************************************************************************)
EXTENDS Lanes, Induction, FiniteSetTheorems

Steady == Budget["crash"] = 0 /\ Budget["move"] = 0
Counted == Budget["close"] = 0 /\ "follow_up" \notin Kinds

Working == {"check", "next", "reserve", "rest", "slot", "drive", "after"}
Stored == {j \in Jobs : born[j] > 0}

(* The rows: a job and its turn agree, and jobs are numbered as they come.   *)
RowOK(j) ==
    /\ jobStatus[j] = "none" <=> turn[j] = "none"
    /\ jobStatus[j] = "none" <=> born[j] = 0
    /\ jobStatus[j] = "queued" <=> turn[j] = "queued"
    /\ jobStatus[j] = "started" <=> turn[j] \in Open
    /\ dPc[j] \in {"new", "revive", "enqueue"} => jobStatus[j] = "none"
    /\ jobStatus[j] # "none" \/ dPc[j] # "new" => jobAgent[j] \in Agents

NumberInv == \A j \in Jobs : born[j] <= Cardinality(Stored)

RowInv == (\A j \in Jobs : RowOK(j)) /\ NumberInv

(* The tasks: one a lane at work, each on a job of its lane; what runs is    *)
(* driven.                                                                  *)
TaskOK(w) ==
    /\ w[1] = "pump" => pc[w] \in Working \cup {"off", "lock"}
    /\ w[1] = "resume" => pc[w] \in {"off", "lock", "slot", "drive", "after"}
    /\ pc[w] \in {"reserve", "slot", "drive"} \/ (w[1] = "resume" /\ pc[w] # "off") =>
         /\ taskJob[w] \in Jobs /\ jobStatus[taskJob[w]] # "none"
         /\ jobAgent[taskJob[w]] = w[2]
    /\ pc[w] = "drive" => turn[taskJob[w]] = "running"

LockInv ==
    \A w, v \in Tasks : w[2] = v[2] /\ pc[w] \in Working /\ pc[v] \in Working => w = v

DrivenInv ==
    \A j \in Jobs : turn[j] = "running" => \E w \in Tasks : pc[w] = "drive" /\ taskJob[w] = j

TaskInv ==
    /\ \A w \in Tasks : TaskOK(w)
    /\ LockInv /\ DrivenInv
    /\ \A j \in calling : jobStatus[j] # "none"

(* The lanes: one open turn, none while a pump is about to claim a job, and  *)
(* that job is the oldest one queued.                                        *)
SerialInv ==
    /\ \A i, j \in Jobs :
         jobAgent[i] = jobAgent[j] /\ turn[i] \in Open /\ turn[j] \in Open => i = j
    /\ \A a \in Agents, j \in Jobs :
         pc[Pump(a)] \in {"next", "reserve", "slot"} /\ jobAgent[j] = a => turn[j] \notin Open

OrderInv ==
    /\ \A a \in Agents, i \in Jobs :
         pc[Pump(a)] \in {"reserve", "slot"} /\ jobAgent[i] = a /\ jobStatus[i] = "queued" =>
             born[taskJob[Pump(a)]] <= born[i]
    /\ \A i, j \in Jobs :
         jobAgent[i] = jobAgent[j] /\ jobStatus[i] = "queued" /\ turn[j] \in Open =>
             born[j] <= born[i]

LaneInv == SerialInv /\ OrderInv

(* The cap: an open turn shows in its lane's status, a pump about to claim   *)
(* in the reservations, and both together keep within the cap.               *)
Taken == Occupying \cup reserved

ShownInv == \A j \in Jobs : turn[j] \in Open => jobAgent[j] \in Occupying
HeldInv == \A a \in Agents : pc[Pump(a)] = "slot" => a \in reserved
CountInv == Cardinality(Taken) <= Cap
QuietInv == cAgent = Nobody /\ \A j \in Jobs : dPc[j] # "revive"

CapInv == ShownInv /\ HeldInv /\ CountInv /\ QuietInv

IInv == TypeOK /\ RowInv /\ TaskInv /\ LaneInv

-----------------------------------------------------------------------------
LEMMA TaskNames ==
    /\ \A a \in Agents : Pump(a) \in Tasks /\ Resume(a) \in Tasks
    /\ \A a \in Agents : /\ Pump(a)[1] = "pump" /\ Pump(a)[2] = a
                         /\ Resume(a)[1] = "resume" /\ Resume(a)[2] = a
    /\ \A a, b \in Agents : Pump(a) # Resume(b)
    /\ \A w \in Tasks : /\ w[2] \in Agents
                        /\ w[1] = "pump" => w = Pump(w[2])
                        /\ w[1] = "resume" => w = Resume(w[2])
                        /\ w[1] \in {"pump", "resume"}
BY DEF Tasks, Pump, Resume

(* The oldest of some stored jobs.                                           *)
LEMMA OldestIn ==
    ASSUME NEW S, S \subseteq Jobs, S # {}, born \in [Jobs -> Nat]
    PROVE  Oldest(S) \in S /\ \A i \in S : born[Oldest(S)] <= born[i]
<1> DEFINE T == {born[i] : i \in S}
<1>1. T \subseteq Nat /\ T # {}
  OBVIOUS
<1>2. PICK x \in T : \A y \in T : x <= y
  BY <1>1, LeastElement
<1>3. PICK j \in S : born[j] = x
  OBVIOUS
<1>4. \A i \in S : born[j] <= born[i]
  BY <1>2, <1>3
<1> QED
  BY <1>4 DEF Oldest

(* A kick starts pumps that are off and leaves every other task where it is. *)
LEMMA Kicks ==
    ASSUME NEW S, NEW f
    PROVE  /\ AfterKicks(S, f) = [w \in Tasks |-> AfterKicks(S, f)[w]]
           /\ \A w \in Tasks : \/ AfterKicks(S, f)[w] = f[w]
                               \/ /\ w[1] = "pump" /\ f[w] = "off"
                                  /\ AfterKicks(S, f)[w] = "lock"
BY DEF AfterKicks

LEMMA StoredCount == TypeOK => IsFiniteSet(Stored) /\ Cardinality(Stored) \in Nat
BY LanesAssumption, FS_Subset, FS_CardinalityType DEF TypeOK, Stored

(* The lanes that a kick wakes are agents of the bot.                        *)
LEMMA WokenAgents ==
    ASSUME NEW S, S \subseteq Agents PROVE Woken(S) \subseteq Agents
BY DEF Woken

LEMMA OpenSlotsAgents == ASSUME NEW a PROVE OpenSlots(a) \subseteq Agents
BY DEF OpenSlots, Sleeping

LEMMA SpendType ==
    ASSUME TypeOK, NEW r \in Rare, Spend(r) PROVE used' \in [Rare -> Nat]
<1>1. used \in [Rare -> Nat] /\ used' = [used EXCEPT ![r] = used[r] + 1]
  BY DEF TypeOK, Spend
<1> QED
  BY <1>1

LEMMA StoppedType ==
    ASSUME TypeOK, NEW j \in Jobs, Stopped(j, "cancelled")
    PROVE  /\ turn' \in [Jobs -> Open \cup {"none", "queued", "ended"}]
           /\ jobStatus' \in [Jobs -> Live \cup {"none", "done", "failed", "cancelled"}]
           /\ agentStatus' \in [Agents -> {"none", "idle", "running", "waiting", "done"}]
           /\ answered' \subseteq Jobs /\ reserved' \subseteq Agents
           /\ pc' \in [Tasks -> {"off", "lock", "check", "next", "reserve", "rest", "slot",
                                 "drive", "after"}]
           /\ taskJob' \in [Tasks -> Jobs \cup {Nobody}]
<1>1. /\ turn' \in [Jobs -> Open \cup {"none", "queued", "ended"}]
      /\ jobStatus' \in [Jobs -> Live \cup {"none", "done", "failed", "cancelled"}]
      /\ agentStatus' \in [Agents -> {"none", "idle", "running", "waiting", "done"}]
      /\ answered' \subseteq Jobs /\ reserved' \subseteq Agents
  BY DEF Stopped, TypeOK
<1>2. /\ pc' \in [Tasks -> {"off", "lock", "check", "next", "reserve", "rest", "slot",
                            "drive", "after"}]
      /\ taskJob' \in [Tasks -> Jobs \cup {Nobody}]
  BY DEF Stopped, TypeOK
<1> QED
  BY <1>1, <1>2

LEMMA NoMoves ==
    ASSUME Steady, TypeOK
    PROVE  ~Crash /\ \A j \in Jobs, b \in Agents : ~Move(j, b)
BY LanesAssumption DEF Steady, TypeOK, Crash, Move, Spend, Rare

-----------------------------------------------------------------------------
(* Types.                                                                    *)
LEMMA TypeStep == Steady /\ IInv /\ [Next]_vars => TypeOK'
<1> SUFFICES ASSUME Steady, IInv, [Next]_vars PROVE TypeOK'
  OBVIOUS
<1>a. TypeOK
  BY DEF IInv
<1> USE <1>a, LanesAssumption, TaskNames
        DEF TypeOK, rows, worker, tasks, deliveries, closing, Open, Live
<1>1. ASSUME NEW j \in Jobs, NEW k \in Kinds, NEW a \in Agents, RouteFresh(j, k, a) PROVE TypeOK'
  BY <1>1 DEF RouteFresh
<1>2. ASSUME NEW j \in Jobs, NEW k \in Kinds, NEW a \in Agents, RouteTarget(j, k, a) PROVE TypeOK'
  BY <1>2 DEF RouteTarget
<1>3. ASSUME NEW j \in Jobs, Revive(j) PROVE TypeOK'
  BY <1>3 DEF Revive
<1>4. ASSUME NEW j \in Jobs, ReadCap(j) PROVE TypeOK'
  BY <1>4 DEF ReadCap
<1>5. ASSUME NEW j \in Jobs, Enqueue(j) PROVE TypeOK'
  <2>1. born' = [born EXCEPT ![j] = 1 + Cardinality(Stored)]
    BY <1>5 DEF Enqueue, Stored
  <2>2. born' \in [Jobs -> Nat]
    BY <2>1, StoredCount
  <2> QED
    BY <1>5, <2>2 DEF Enqueue
<1>6. ASSUME NEW j \in Jobs, Kick(j) PROVE TypeOK'
  <2> DEFINE S == IF j \in held THEN {} ELSE {jobAgent[j]}
  <2>1. /\ again' = again \cup Woken(S) /\ pc' = AfterKicks(S, pc)
        /\ dPc' = [dPc EXCEPT ![j] = "end"] /\ held' = held \ {j}
        /\ UNCHANGED <<rows, reserved, cancelling, taskJob, owed, calling, dKind, closing, used>>
    BY <1>6 DEF Kick
  <2>2. S \subseteq Agents
    BY <1>6 DEF Kick, IInv, RowInv, RowOK
  <2> HIDE DEF S
  <2>3. again' \subseteq Agents
    BY <2>1, <2>2, WokenAgents
  <2>4. pc' \in [Tasks -> {"off", "lock", "check", "next", "reserve", "rest", "slot",
                           "drive", "after"}]
    BY <2>1, Kicks
  <2> QED
    BY <2>1, <2>3, <2>4
<1>7. ASSUME NEW j \in Jobs, Answer(j) PROVE TypeOK'
  BY <1>7 DEF Answer
<1>8. ASSUME NEW j \in Jobs, StartResume(j) PROVE TypeOK'
  BY SMTT(30), <1>8 DEF StartResume, Goto
<1>9. ASSUME NEW j \in Jobs, Stop(j) PROVE TypeOK'
  <2>1. jobAgent[j] \in Agents
    BY <1>9 DEF Stop, Stopped, IInv, RowInv, RowOK, Open
  <2>2. used' \in [Rare -> Nat] /\ owed' \subseteq Agents
    BY <1>9, <2>1, SpendType DEF Stop, Rare
  <2>3. Stopped(j, "cancelled")
    BY <1>9 DEF Stop
  <2> QED
    BY <1>9, <2>2, <2>3, StoppedType DEF Stop
<1>10. ASSUME NEW a \in Agents, PumpCheck(a) PROVE TypeOK'
  BY <1>10 DEF PumpCheck, Goto
<1>11. ASSUME NEW a \in Agents, PumpNext(a) PROVE TypeOK'
  <2>1. CASE QueuedOn(a) = {}
    BY <1>11, <2>1 DEF PumpNext, Goto
  <2>2. CASE QueuedOn(a) # {}
    <3>1. QueuedOn(a) \subseteq Jobs
      BY DEF QueuedOn
    <3>2. Oldest(QueuedOn(a)) \in Jobs
      BY <2>2, <3>1, OldestIn
    <3>3. /\ pc' = [pc EXCEPT ![Pump(a)] = "reserve"]
          /\ taskJob' = [taskJob EXCEPT ![Pump(a)] = Oldest(QueuedOn(a))]
          /\ UNCHANGED <<rows, worker, owed, calling, deliveries, closing, used>>
      BY <1>11, <2>2 DEF PumpNext, Goto
    <3> QED
      BY <3>2, <3>3
  <2> QED
    BY <2>1, <2>2
<1>12. ASSUME NEW a \in Agents, PumpReserve(a) PROVE TypeOK'
  BY SMTT(30), <1>12 DEF PumpReserve, Goto
<1>13. ASSUME NEW a \in Agents, PumpRest(a) PROVE TypeOK'
  BY <1>13 DEF PumpRest, Goto
<1>14. ASSUME NEW a \in Agents, PumpClaim(a) PROVE TypeOK'
  <2>1. CASE taskJob[Pump(a)] \in QueuedOn(a)
    <3>1. taskJob[Pump(a)] \in Jobs
      BY <2>1 DEF QueuedOn
    <3>2. /\ jobStatus' = [jobStatus EXCEPT ![taskJob[Pump(a)]] = "started"]
          /\ turn' = [turn EXCEPT ![taskJob[Pump(a)]] = "running"]
          /\ agentStatus' = [agentStatus EXCEPT ![a] = "running"]
          /\ pc' = [pc EXCEPT ![Pump(a)] = "drive"]
          /\ UNCHANGED <<jobAgent, born, answered, worker, taskJob, owed, calling,
                         deliveries, closing, used>>
      BY <1>14, <2>1 DEF PumpClaim, Goto
    <3> QED
      BY <3>1, <3>2
  <2>2. CASE taskJob[Pump(a)] \notin QueuedOn(a)
    BY <1>14, <2>2 DEF PumpClaim, Goto
  <2> QED
    BY <2>1, <2>2
<1>15. ASSUME NEW a \in Agents, PumpAfter(a) PROVE TypeOK'
  <2>1. again' \subseteq Agents
    BY <1>15, OpenSlotsAgents, WokenAgents DEF PumpAfter
  <2>2. pc' \in [Tasks -> {"off", "lock", "check", "next", "reserve", "rest", "slot",
                           "drive", "after"}]
    <3> DEFINE f == [pc EXCEPT ![Pump(a)] = "check"]
    <3>1. f \in [Tasks -> {"off", "lock", "check", "next", "reserve", "rest", "slot",
                           "drive", "after"}]
      OBVIOUS
    <3>2. pc' = AfterKicks(OpenSlots(a), f)
      BY <1>15 DEF PumpAfter
    <3> HIDE DEF f
    <3> QED
      BY <3>1, <3>2, Kicks
  <2> QED
    BY <1>15, <2>1, <2>2 DEF PumpAfter
<1>16. ASSUME NEW a \in Agents, ResumeLock(a) PROVE TypeOK'
  BY <1>16 DEF ResumeLock, Goto
<1>17. ASSUME NEW a \in Agents, ResumeClaim(a) PROVE TypeOK'
  BY <1>17 DEF ResumeClaim, Goto
<1>18. ASSUME NEW a \in Agents, ResumeAfter(a) PROVE TypeOK'
  BY <1>18 DEF ResumeAfter, Goto
<1>19. ASSUME NEW a \in Agents, Release(a) PROVE TypeOK'
  <2>1. again' \subseteq Agents
    <3>1. {a} \cup OpenSlots(a) \subseteq Agents
      BY OpenSlotsAgents
    <3> QED
      BY <1>19, <3>1, WokenAgents DEF Release
  <2>2. pc' \in [Tasks -> {"off", "lock", "check", "next", "reserve", "rest", "slot",
                           "drive", "after"}]
    BY <1>19, Kicks DEF Release
  <2> QED
    BY <1>19, <2>1, <2>2 DEF Release
<1>20. ASSUME NEW w \in Tasks, NEW how \in Outcomes, DriveEnds(w, how) PROVE TypeOK'
  <2>1. /\ turn' \in [Jobs -> Open \cup {"none", "queued", "ended"}]
        /\ jobStatus' \in [Jobs -> Live \cup {"none", "done", "failed", "cancelled"}]
    <3>1. taskJob[w] \in Jobs
      BY <1>20 DEF DriveEnds, IInv, TaskInv, TaskOK
    <3>2. CASE how = "done"
      BY <1>20, <3>1, <3>2 DEF DriveEnds
    <3>3. CASE how = "fail"
      BY <1>20, <3>1, <3>3 DEF DriveEnds
    <3>4. CASE how = "waiting"
      BY <1>20, <3>1, <3>4 DEF DriveEnds
    <3> QED
      BY <3>2, <3>3, <3>4 DEF AllOutcomes
  <2>2. agentStatus' \in [Agents -> {"none", "idle", "running", "waiting", "done"}]
    BY <1>20 DEF DriveEnds
  <2>3. answered' \subseteq Jobs /\ pc' = [pc EXCEPT ![w] = "after"]
    BY <1>20 DEF DriveEnds, Goto
  <2> QED
    BY <1>20, <2>1, <2>2, <2>3 DEF DriveEnds
<1>21. ASSUME NEW a \in Agents, CloseLane(a) PROVE TypeOK'
  <2>1. used' \in [Rare -> Nat]
    BY <1>21, SpendType DEF CloseLane, Rare
  <2> QED
    BY <1>21, <2>1 DEF CloseLane
<1>22. ASSUME NEW a \in Agents, Expire(a) PROVE TypeOK'
  <2>1. used' \in [Rare -> Nat]
    BY <1>22, SpendType DEF Expire, Rare
  <2> QED
    BY <1>22, <2>1 DEF Expire
<1>23. ASSUME CloseList PROVE TypeOK'
  BY <1>23 DEF CloseList
<1>24. ASSUME NEW j \in Jobs, CloseJob(j) PROVE TypeOK'
  <2>1. /\ cAgent \in Agents /\ cTodo' \in SUBSET Jobs
        /\ UNCHANGED <<jobAgent, born, again, cancelling, calling, deliveries, cAgent, used>>
    BY <1>24 DEF CloseJob
  <2>2. CASE Stopped(j, "cancelled") /\ owed' = owed \cup {cAgent}
    BY <2>1, <2>2, StoppedType
  <2>3. CASE UNCHANGED <<agentStatus, jobStatus, turn, answered, reserved, tasks, owed>>
    BY <2>1, <2>3
  <2> QED
    BY <1>24, <2>2, <2>3 DEF CloseJob
<1>25. ASSUME CloseEnd PROVE TypeOK'
  BY <1>25 DEF CloseEnd
<1>26. CASE UNCHANGED vars
  BY <1>26 DEF vars
<1> QED
  BY NoMoves, <1>1, <1>2, <1>3, <1>4, <1>5, <1>6, <1>7, <1>8, <1>9, <1>10, <1>11, <1>12,
     <1>13, <1>14, <1>15, <1>16, <1>17, <1>18, <1>19, <1>20, <1>21, <1>22, <1>23, <1>24,
     <1>25, <1>26
  DEF Next, DeliveryStep, PumpStep, ResumeStep, Rest

-----------------------------------------------------------------------------
(* What the longer actions do, in the terms of the invariants.               *)
LEMMA StoppedDoes ==
    ASSUME IInv, NEW j \in Jobs, Stopped(j, "cancelled")
    PROVE  /\ jobStatus[j] \in Live /\ jobAgent[j] \in Agents
           /\ turn' = [turn EXCEPT ![j] = "ended"]
           /\ jobStatus' = [jobStatus EXCEPT ![j] = "cancelled"]
           /\ \A w \in Tasks : \/ pc'[w] = pc[w] /\ taskJob'[w] = taskJob[w]
                               \/ pc[w] = "drive" /\ taskJob[w] = j /\ pc'[w] = "off"
           /\ \A w \in Tasks : pc'[w] = "drive" => taskJob[w] # j
<1>1. /\ turn' = [turn EXCEPT ![j] = "ended"]
      /\ jobStatus' = [jobStatus EXCEPT ![j] = "cancelled"]
  BY DEF Stopped
<1>2. /\ \A w \in Tasks : \/ pc'[w] = pc[w] /\ taskJob'[w] = taskJob[w]
                          \/ pc[w] = "drive" /\ taskJob[w] = j /\ pc'[w] = "off"
      /\ \A w \in Tasks : pc'[w] = "drive" => taskJob[w] # j
  BY DEF Stopped, Drivers
<1>3. jobStatus[j] \in Live
  BY DEF Stopped, IInv, RowInv, RowOK, Live
<1> QED
  BY <1>1, <1>2, <1>3 DEF IInv, RowInv, RowOK, Live

LEMMA DriveEndsDoes ==
    ASSUME IInv, NEW w \in Tasks, NEW how \in Outcomes, DriveEnds(w, how)
    PROVE  /\ taskJob[w] \in Jobs /\ turn[taskJob[w]] = "running"
           /\ pc[w] = "drive" /\ pc' = [pc EXCEPT ![w] = "after"]
           /\ UNCHANGED <<jobAgent, born, taskJob, calling, dPc>>
           /\ \/ /\ turn' = [turn EXCEPT ![taskJob[w]] = "waiting"]
                 /\ jobStatus' = jobStatus
              \/ /\ turn' = [turn EXCEPT ![taskJob[w]] = "ended"]
                 /\ \E s \in {"done", "failed"} :
                       jobStatus' = [jobStatus EXCEPT ![taskJob[w]] = s]
<1> DEFINE j == taskJob[w]
<1>1. /\ j \in Jobs /\ turn[j] = "running"
      /\ pc[w] = "drive" /\ pc' = [pc EXCEPT ![w] = "after"]
      /\ UNCHANGED <<jobAgent, born, taskJob, calling, dPc>>
  BY DEF DriveEnds, Goto, IInv, TaskInv, TaskOK, deliveries
<1>2. CASE how = "waiting"
  <2>1. /\ turn' = [turn EXCEPT ![j] = "waiting"]
        /\ jobStatus' = [jobStatus EXCEPT ![j] = jobStatus[j]]
    BY <1>2 DEF DriveEnds
  <2> QED
    BY <1>1, <2>1 DEF IInv, TypeOK
<1>3. CASE how = "done"
  BY <1>1, <1>3 DEF DriveEnds
<1>4. CASE how = "fail"
  BY <1>1, <1>4 DEF DriveEnds
<1> QED
  BY <1>2, <1>3, <1>4, LanesAssumption DEF AllOutcomes

LEMMA PumpClaimDoes ==
    ASSUME IInv, NEW a \in Agents, PumpClaim(a)
    PROVE  /\ pc[Pump(a)] = "slot" /\ taskJob[Pump(a)] \in Jobs
           /\ UNCHANGED <<jobAgent, born, taskJob, calling, dPc>>
           /\ \/ /\ jobStatus[taskJob[Pump(a)]] = "queued" /\ jobAgent[taskJob[Pump(a)]] = a
                 /\ jobStatus' = [jobStatus EXCEPT ![taskJob[Pump(a)]] = "started"]
                 /\ turn' = [turn EXCEPT ![taskJob[Pump(a)]] = "running"]
                 /\ pc' = [pc EXCEPT ![Pump(a)] = "drive"]
              \/ UNCHANGED <<jobStatus, turn>> /\ pc' = [pc EXCEPT ![Pump(a)] = "after"]
<1>1. /\ pc[Pump(a)] = "slot" /\ taskJob[Pump(a)] \in Jobs
      /\ UNCHANGED <<jobAgent, born, taskJob, calling, dPc>>
  BY TaskNames DEF PumpClaim, IInv, TaskInv, TaskOK, deliveries
<1> QED
  BY <1>1 DEF PumpClaim, QueuedOn, Goto

-----------------------------------------------------------------------------
(* The rows.                                                                 *)
LEMMA RowStep == Steady /\ IInv /\ [Next]_vars => \A i \in Jobs : RowOK(i)'
<1> SUFFICES ASSUME Steady, IInv, [Next]_vars PROVE \A i \in Jobs : RowOK(i)'
  OBVIOUS
<1>a. TypeOK /\ \A i \in Jobs : RowOK(i)
  BY DEF IInv, RowInv
<1>b. TaskInv /\ LaneInv
  BY DEF IInv
<1> USE <1>a, LanesAssumption, TaskNames
        DEF RowOK, TypeOK, rows, worker, tasks, deliveries, closing, Open, Live
<1>1. ASSUME NEW j \in Jobs, NEW k \in Kinds, NEW a \in Agents, RouteFresh(j, k, a) PROVE \A i \in Jobs : RowOK(i)'
  BY <1>1 DEF RouteFresh
<1>2. ASSUME NEW j \in Jobs, NEW k \in Kinds, NEW a \in Agents, RouteTarget(j, k, a) PROVE \A i \in Jobs : RowOK(i)'
  BY <1>2 DEF RouteTarget
<1>3. ASSUME NEW j \in Jobs, Revive(j) PROVE \A i \in Jobs : RowOK(i)'
  BY <1>3 DEF Revive
<1>4. ASSUME NEW j \in Jobs, ReadCap(j) PROVE \A i \in Jobs : RowOK(i)'
  BY <1>4 DEF ReadCap
<1>5. ASSUME NEW j \in Jobs, Enqueue(j) PROVE \A i \in Jobs : RowOK(i)'
  <2>1. born' = [born EXCEPT ![j] = 1 + Cardinality(Stored)]
    BY <1>5 DEF Enqueue, Stored
  <2>2. Cardinality(Stored) \in Nat
    BY StoredCount
  <2>3. born'[j] # 0 /\ \A i \in Jobs : i # j => born'[i] = born[i]
    BY <2>1, <2>2
  <2> QED
    BY <1>5, <2>3 DEF Enqueue
<1>6. ASSUME NEW j \in Jobs, Kick(j) PROVE \A i \in Jobs : RowOK(i)'
  BY <1>6 DEF Kick
<1>7. ASSUME NEW j \in Jobs, Answer(j) PROVE \A i \in Jobs : RowOK(i)'
  BY <1>7 DEF Answer
<1>8. ASSUME NEW j \in Jobs, StartResume(j) PROVE \A i \in Jobs : RowOK(i)'
  BY <1>8 DEF StartResume, Goto
<1>9. ASSUME NEW j \in Jobs, Stop(j) PROVE \A i \in Jobs : RowOK(i)'
  <2>1. Stopped(j, "cancelled") /\ UNCHANGED <<jobAgent, born, dPc>>
    BY <1>9 DEF Stop
  <2> QED
    BY <2>1, StoppedDoes
<1>10. ASSUME NEW a \in Agents, PumpCheck(a) PROVE \A i \in Jobs : RowOK(i)'
  BY <1>10 DEF PumpCheck, Goto
<1>11. ASSUME NEW a \in Agents, PumpNext(a) PROVE \A i \in Jobs : RowOK(i)'
  BY <1>11 DEF PumpNext, Goto
<1>12. ASSUME NEW a \in Agents, PumpReserve(a) PROVE \A i \in Jobs : RowOK(i)'
  BY <1>12 DEF PumpReserve, Goto
<1>13. ASSUME NEW a \in Agents, PumpRest(a) PROVE \A i \in Jobs : RowOK(i)'
  BY <1>13 DEF PumpRest, Goto
<1>14. ASSUME NEW a \in Agents, PumpClaim(a) PROVE \A i \in Jobs : RowOK(i)'
  BY <1>14, PumpClaimDoes
<1>15. ASSUME NEW a \in Agents, PumpAfter(a) PROVE \A i \in Jobs : RowOK(i)'
  BY <1>15 DEF PumpAfter
<1>16. ASSUME NEW a \in Agents, ResumeLock(a) PROVE \A i \in Jobs : RowOK(i)'
  BY <1>16 DEF ResumeLock, Goto
<1>17. ASSUME NEW a \in Agents, ResumeClaim(a) PROVE \A i \in Jobs : RowOK(i)'
  BY <1>17 DEF ResumeClaim, Goto
<1>18. ASSUME NEW a \in Agents, ResumeAfter(a) PROVE \A i \in Jobs : RowOK(i)'
  BY <1>18 DEF ResumeAfter, Goto
<1>19. ASSUME NEW a \in Agents, Release(a) PROVE \A i \in Jobs : RowOK(i)'
  BY <1>19 DEF Release
<1>20. ASSUME NEW w \in Tasks, NEW how \in Outcomes, DriveEnds(w, how) PROVE \A i \in Jobs : RowOK(i)'
  BY <1>20, DriveEndsDoes
<1>21. ASSUME NEW a \in Agents, CloseLane(a) PROVE \A i \in Jobs : RowOK(i)'
  BY <1>21 DEF CloseLane, Spend, Rare
<1>22. ASSUME NEW a \in Agents, Expire(a) PROVE \A i \in Jobs : RowOK(i)'
  BY <1>22 DEF Expire, Spend, Rare
<1>23. ASSUME CloseList PROVE \A i \in Jobs : RowOK(i)'
  BY <1>23 DEF CloseList
<1>24. ASSUME NEW j \in Jobs, CloseJob(j) PROVE \A i \in Jobs : RowOK(i)'
  <2>1. CASE Stopped(j, "cancelled")
    BY <1>24, <2>1, StoppedDoes DEF CloseJob
  <2>2. CASE UNCHANGED <<jobStatus, turn>>
    BY <1>24, <2>2 DEF CloseJob
  <2> QED
    BY <1>24, <2>1, <2>2 DEF CloseJob
<1>25. ASSUME CloseEnd PROVE \A i \in Jobs : RowOK(i)'
  BY <1>25 DEF CloseEnd
<1>26. CASE UNCHANGED vars
  BY <1>26 DEF vars
<1> QED
  BY NoMoves, <1>1, <1>2, <1>3, <1>4, <1>5, <1>6, <1>7, <1>8, <1>9, <1>10, <1>11, <1>12,
     <1>13, <1>14, <1>15, <1>16, <1>17, <1>18, <1>19, <1>20, <1>21, <1>22, <1>23, <1>24,
     <1>25, <1>26
  DEF Next, DeliveryStep, PumpStep, ResumeStep, Rest

LEMMA NumberStep == Steady /\ IInv /\ [Next]_vars => NumberInv'
<1> SUFFICES ASSUME Steady, IInv, [Next]_vars PROVE NumberInv'
  OBVIOUS
<1>a. TypeOK /\ NumberInv
  BY DEF IInv, RowInv
<1>1. CASE UNCHANGED born
  BY <1>a, <1>1 DEF NumberInv, Stored
<1>2. ASSUME NEW j \in Jobs, Enqueue(j) PROVE NumberInv'
  <2>1. born' = [born EXCEPT ![j] = 1 + Cardinality(Stored)]
    BY <1>2 DEF Enqueue, Stored
  <2>2. j \notin Stored /\ IsFiniteSet(Stored) /\ Cardinality(Stored) \in Nat
    BY <1>2, <1>a, StoredCount DEF Enqueue, IInv, RowInv, RowOK, Stored
  <2>3. Stored' = Stored \cup {j}
    <3> DEFINE m == 1 + Cardinality(Stored)
    <3>1. m \in Nat /\ m > 0 /\ born' = [born EXCEPT ![j] = m]
      BY <2>1, <2>2
    <3> HIDE DEF m
    <3> QED
      BY <1>a, <3>1 DEF Stored, TypeOK
  <2>4. Cardinality(Stored') = Cardinality(Stored) + 1
    BY <2>2, <2>3, FS_AddElement
  <2> DEFINE n == Cardinality(Stored)
  <2>5. n \in Nat /\ Cardinality(Stored') = n + 1 /\ born' = [born EXCEPT ![j] = 1 + n]
        /\ \A i \in Jobs : born[i] <= n
    BY <1>a, <2>1, <2>2, <2>4 DEF NumberInv
  <2> HIDE DEF n
  <2>6. \A i \in Jobs : born'[i] <= n + 1
    BY <1>a, <2>5 DEF TypeOK
  <2> QED
    BY <2>5, <2>6 DEF NumberInv
<1> QED
  BY ZenonT(60), NoMoves, <1>a, <1>1, <1>2
  DEF Next, DeliveryStep, PumpStep, ResumeStep, Rest, vars, rows, RouteFresh, RouteTarget,
      Revive, ReadCap, Kick, Answer, StartResume, Stop, PumpCheck, PumpNext, PumpReserve,
      PumpRest, PumpClaim, PumpAfter, ResumeLock, ResumeClaim, ResumeAfter, Release,
      DriveEnds, CloseLane, Expire, CloseList, CloseJob, CloseEnd

-----------------------------------------------------------------------------
(* The tasks.                                                                *)
LEMMA TasksStep == Steady /\ IInv /\ [Next]_vars => TaskInv'
<1> SUFFICES ASSUME Steady, IInv, [Next]_vars PROVE TaskInv'
  OBVIOUS
<1>a. TypeOK /\ TaskInv
  BY DEF IInv
<1>b. \A i \in Jobs : RowOK(i)
  BY DEF IInv, RowInv
<1> USE <1>a, LanesAssumption, TaskNames
        DEF TaskInv, TaskOK, LockInv, DrivenInv, Working, TypeOK, rows, worker, tasks,
            deliveries, closing, Open, Live
<1>x. ASSUME NEW j \in Jobs, Stopped(j, "cancelled"), UNCHANGED <<jobAgent, calling>> PROVE TaskInv'
  <2>1. /\ turn' = [turn EXCEPT ![j] = "ended"]
        /\ jobStatus' = [jobStatus EXCEPT ![j] = "cancelled"]
        /\ \A w \in Tasks : \/ pc'[w] = pc[w] /\ taskJob'[w] = taskJob[w]
                            \/ pc[w] = "drive" /\ taskJob[w] = j /\ pc'[w] = "off"
        /\ \A w \in Tasks : pc'[w] = "drive" => taskJob[w] # j
    BY <1>x, StoppedDoes
  <2>2. \A w \in Tasks : TaskOK(w)'
    BY <1>x, <2>1
  <2>3. LockInv'
    BY <2>1
  <2>4. DrivenInv'
    BY <2>1
  <2> QED
    BY <1>x, <2>1, <2>2, <2>3, <2>4
<1>1. ASSUME NEW j \in Jobs, NEW k \in Kinds, NEW a \in Agents, RouteFresh(j, k, a) PROVE TaskInv'
  <2>1. jobStatus[j] = "none" /\ turn[j] = "none"
    BY <1>1, <1>b DEF RouteFresh, RowOK
  <2>2. \A w \in Tasks : TaskOK(w)'
    BY <1>1, <2>1 DEF RouteFresh
  <2> QED
    BY <1>1, <2>1, <2>2 DEF RouteFresh
<1>2. ASSUME NEW j \in Jobs, NEW k \in Kinds, NEW a \in Agents, RouteTarget(j, k, a) PROVE TaskInv'
  <2>1. jobStatus[j] = "none" /\ turn[j] = "none"
    BY <1>2, <1>b DEF RouteTarget, RowOK
  <2>2. \A w \in Tasks : TaskOK(w)'
    BY <1>2, <2>1 DEF RouteTarget
  <2> QED
    BY <1>2, <2>1, <2>2 DEF RouteTarget
<1>3. ASSUME NEW j \in Jobs, Revive(j) PROVE TaskInv'
  BY <1>3 DEF Revive
<1>4. ASSUME NEW j \in Jobs, ReadCap(j) PROVE TaskInv'
  BY <1>4 DEF ReadCap
<1>5. ASSUME NEW j \in Jobs, Enqueue(j) PROVE TaskInv'
  <2>1. jobStatus[j] = "none" /\ turn[j] = "none"
    BY <1>5, <1>b DEF Enqueue, RowOK
  <2>2. \A w \in Tasks : TaskOK(w)'
    BY <1>5, <2>1 DEF Enqueue
  <2> QED
    BY <1>5, <2>1, <2>2 DEF Enqueue
<1>6. ASSUME NEW j \in Jobs, Kick(j) PROVE TaskInv'
  <2> DEFINE S == IF j \in held THEN {} ELSE {jobAgent[j]}
  <2>1. /\ pc' = AfterKicks(S, pc)
        /\ UNCHANGED <<jobStatus, jobAgent, turn, taskJob, calling>>
    BY <1>6 DEF Kick
  <2> HIDE DEF S
  <2>2. \A w \in Tasks : pc'[w] = pc[w] \/ (w[1] = "pump" /\ pc[w] = "off" /\ pc'[w] = "lock")
    BY <2>1, Kicks
  <2>3. \A w \in Tasks : TaskOK(w)'
    BY <2>1, <2>2
  <2>4. LockInv' /\ DrivenInv'
    BY <2>1, <2>2
  <2> QED
    BY <2>1, <2>3, <2>4
<1>7. ASSUME NEW j \in Jobs, Answer(j) PROVE TaskInv'
  <2>1. jobStatus[j] # "none"
    BY <1>7, <1>b DEF Answer, RowOK
  <2> QED
    BY <1>7, <2>1 DEF Answer
<1>8. ASSUME NEW j \in Jobs, StartResume(j) PROVE TaskInv'
  <2> DEFINE v == Resume(jobAgent[j])
  <2>1. jobAgent[j] \in Agents /\ jobStatus[j] # "none"
    BY <1>8, <1>b DEF StartResume, RowOK
  <2>2. v \in Tasks /\ v[1] = "resume" /\ v[2] = jobAgent[j]
    BY <2>1
  <2> HIDE DEF v
  <2>3. pc[v] = "off" /\ calling' = calling \ {j} /\ UNCHANGED <<jobStatus, jobAgent, turn>>
    BY <1>8 DEF StartResume, v
  <2>4. CASE UNCHANGED tasks
    BY <2>3, <2>4
  <2>5. CASE pc' = [pc EXCEPT ![v] = "lock"] /\ taskJob' = [taskJob EXCEPT ![v] = j]
    <3>1. \A w \in Tasks : TaskOK(w)'
      BY <2>1, <2>2, <2>3, <2>5
    <3>2. LockInv'
      BY <2>2, <2>5
    <3>3. DrivenInv'
      BY <2>2, <2>3, <2>5
    <3> QED
      BY <2>3, <3>1, <3>2, <3>3
  <2> QED
    BY <1>8, <2>4, <2>5 DEF StartResume, Goto, v
<1>9. ASSUME NEW j \in Jobs, Stop(j) PROVE TaskInv'
  <2>1. Stopped(j, "cancelled") /\ UNCHANGED <<jobAgent, calling>>
    BY <1>9 DEF Stop
  <2> QED
    BY <1>x, <2>1
<1>10. ASSUME NEW a \in Agents, PumpCheck(a) PROVE TaskInv'
  <2>1. /\ AtHead(a) /\ UNCHANGED <<jobStatus, jobAgent, turn, taskJob, calling>>
        /\ \E l \in {"off", "rest", "next"} : pc' = [pc EXCEPT ![Pump(a)] = l]
    BY <1>10 DEF PumpCheck, Goto
  <2>2. \A w \in Tasks : w[2] = a /\ pc[w] \in Working => w = Pump(a)
    BY <2>1 DEF AtHead, LockFree
  <2>3. pc[Pump(a)] \in {"check", "lock"}
    BY <2>1 DEF AtHead
  <2>4. \A w \in Tasks : TaskOK(w)'
    BY <2>1, <2>3
  <2>5. LockInv'
    BY <2>1, <2>2
  <2>6. DrivenInv'
    BY <2>1, <2>3
  <2> QED
    BY <2>1, <2>4, <2>5, <2>6
<1>11. ASSUME NEW a \in Agents, PumpNext(a) PROVE TaskInv'
  <2>1. pc[Pump(a)] = "next" /\ UNCHANGED <<jobStatus, jobAgent, turn, calling>>
    BY <1>11 DEF PumpNext
  <2>2. CASE QueuedOn(a) = {}
    BY <1>11, <2>1, <2>2 DEF PumpNext, Goto
  <2>3. CASE QueuedOn(a) # {}
    <3> DEFINE i == Oldest(QueuedOn(a))
    <3>1. QueuedOn(a) \subseteq Jobs
      BY DEF QueuedOn
    <3>2. i \in QueuedOn(a)
      BY <2>3, <3>1, OldestIn
    <3>3. i \in Jobs /\ jobStatus[i] = "queued" /\ jobAgent[i] = a
      BY <3>2 DEF QueuedOn
    <3>4. pc' = [pc EXCEPT ![Pump(a)] = "reserve"] /\ taskJob' = [taskJob EXCEPT ![Pump(a)] = i]
      BY <1>11, <2>3 DEF PumpNext, Goto
    <3> HIDE DEF i
    <3>5. \A w \in Tasks : TaskOK(w)'
      BY <2>1, <3>3, <3>4
    <3>6. LockInv' /\ DrivenInv'
      BY <2>1, <3>4
    <3> QED
      BY <2>1, <3>5, <3>6
  <2> QED
    BY <2>2, <2>3
<1>12. ASSUME NEW a \in Agents, PumpReserve(a) PROVE TaskInv'
  <2>1. pc[Pump(a)] = "reserve" /\ UNCHANGED <<jobStatus, jobAgent, turn, calling>>
    BY <1>12 DEF PumpReserve
  <2>2. CASE pc' = [pc EXCEPT ![Pump(a)] = "rest"] /\ taskJob' = [taskJob EXCEPT ![Pump(a)] = Nobody]
    <3>1. \A w \in Tasks : TaskOK(w)'
      BY <2>1, <2>2
    <3>2. LockInv' /\ DrivenInv'
      BY <2>1, <2>2
    <3> QED
      BY <2>1, <3>1, <3>2
  <2>3. CASE pc' = [pc EXCEPT ![Pump(a)] = "slot"] /\ taskJob' = taskJob
    BY <2>1, <2>3
  <2> QED
    BY <1>12, <2>2, <2>3 DEF PumpReserve, Goto
<1>13. ASSUME NEW a \in Agents, PumpRest(a) PROVE TaskInv'
  BY <1>13 DEF PumpRest, Goto
<1>14. ASSUME NEW a \in Agents, PumpClaim(a) PROVE TaskInv'
  BY SMTT(30), <1>14 DEF PumpClaim, Goto
<1>15. ASSUME NEW a \in Agents, PumpAfter(a) PROVE TaskInv'
  <2> DEFINE f == [pc EXCEPT ![Pump(a)] = "check"]
  <2>1. /\ pc[Pump(a)] = "after" /\ taskJob' = [taskJob EXCEPT ![Pump(a)] = Nobody]
        /\ pc' = AfterKicks(OpenSlots(a), f)
        /\ UNCHANGED <<jobStatus, jobAgent, turn, calling>>
    BY <1>15 DEF PumpAfter
  <2>2. /\ \A w \in Tasks : f[w] = IF w = Pump(a) THEN "check" ELSE pc[w]
        /\ f \in [Tasks -> Working \cup {"off", "lock"}]
    OBVIOUS
  <2> HIDE DEF f
  <2>3. \A w \in Tasks : pc'[w] = f[w] \/ (w[1] = "pump" /\ f[w] = "off" /\ pc'[w] = "lock")
    BY <2>1, Kicks
  <2>4. \A w \in Tasks : w # Pump(a) =>
           pc'[w] = pc[w] \/ (w[1] = "pump" /\ pc[w] = "off" /\ pc'[w] = "lock")
    BY <2>2, <2>3
  <2>5. pc'[Pump(a)] = "check"
    BY <2>2, <2>3
  <2>6. \A w \in Tasks : TaskOK(w)'
    BY <2>1, <2>4, <2>5
  <2>7. LockInv' /\ DrivenInv'
    BY SMTT(30), <2>1, <2>4, <2>5
  <2> QED
    BY <2>1, <2>6, <2>7
<1>16. ASSUME NEW a \in Agents, ResumeLock(a) PROVE TaskInv'
  <2>1. /\ pc[Resume(a)] = "lock" /\ UNCHANGED <<jobStatus, jobAgent, turn, calling>>
        /\ \A w \in Tasks : w[2] = a => pc[w] \in {"off", "lock"}
    BY <1>16 DEF ResumeLock, LockFree
  <2>2. CASE pc' = [pc EXCEPT ![Resume(a)] = "off"] /\ taskJob' = [taskJob EXCEPT ![Resume(a)] = Nobody]
    BY <2>1, <2>2
  <2>3. CASE pc' = [pc EXCEPT ![Resume(a)] = "slot"] /\ taskJob' = taskJob
    <3>1. \A w \in Tasks : TaskOK(w)'
      BY <2>1, <2>3
    <3>2. LockInv' /\ DrivenInv'
      BY <2>1, <2>3
    <3> QED
      BY <2>1, <3>1, <3>2
  <2> QED
    BY <1>16, <2>2, <2>3 DEF ResumeLock, Goto
<1>17. ASSUME NEW a \in Agents, ResumeClaim(a) PROVE TaskInv'
  BY SMTT(30), <1>17 DEF ResumeClaim, Goto
<1>18. ASSUME NEW a \in Agents, ResumeAfter(a) PROVE TaskInv'
  BY <1>18 DEF ResumeAfter, Goto
<1>19. ASSUME NEW a \in Agents, Release(a) PROVE TaskInv'
  <2> DEFINE S == {a} \cup OpenSlots(a)
  <2>1. /\ pc' = AfterKicks(S, pc)
        /\ UNCHANGED <<jobStatus, jobAgent, turn, taskJob, calling>>
    BY <1>19 DEF Release
  <2> HIDE DEF S
  <2>2. \A w \in Tasks : pc'[w] = pc[w] \/ (w[1] = "pump" /\ pc[w] = "off" /\ pc'[w] = "lock")
    BY <2>1, Kicks
  <2>3. \A w \in Tasks : TaskOK(w)'
    BY <2>1, <2>2
  <2>4. LockInv' /\ DrivenInv'
    BY <2>1, <2>2
  <2> QED
    BY <2>1, <2>3, <2>4
<1>20. ASSUME NEW w \in Tasks, NEW how \in Outcomes, DriveEnds(w, how) PROVE TaskInv'
  BY SMTT(30), <1>20, DriveEndsDoes
<1>21. ASSUME NEW a \in Agents, CloseLane(a) PROVE TaskInv'
  BY <1>21 DEF CloseLane, Spend, Rare
<1>22. ASSUME NEW a \in Agents, Expire(a) PROVE TaskInv'
  BY <1>22 DEF Expire, Spend, Rare
<1>23. ASSUME CloseList PROVE TaskInv'
  BY <1>23 DEF CloseList
<1>24. ASSUME NEW j \in Jobs, CloseJob(j) PROVE TaskInv'
  <2>1. CASE Stopped(j, "cancelled")
    BY <1>24, <1>x, <2>1 DEF CloseJob
  <2>2. CASE UNCHANGED <<jobStatus, turn, tasks>>
    BY <1>24, <2>2 DEF CloseJob
  <2> QED
    BY <1>24, <2>1, <2>2 DEF CloseJob
<1>25. ASSUME CloseEnd PROVE TaskInv'
  BY <1>25 DEF CloseEnd
<1>26. CASE UNCHANGED vars
  BY <1>26 DEF vars
<1> QED
  BY NoMoves, <1>1, <1>2, <1>3, <1>4, <1>5, <1>6, <1>7, <1>8, <1>9, <1>10, <1>11, <1>12,
     <1>13, <1>14, <1>15, <1>16, <1>17, <1>18, <1>19, <1>20, <1>21, <1>22, <1>23, <1>24,
     <1>25, <1>26
  DEF Next, DeliveryStep, PumpStep, ResumeStep, Rest

-----------------------------------------------------------------------------
(* The lanes.                                                                *)
LEMMA LaneStep == Steady /\ IInv /\ [Next]_vars => LaneInv'
<1> SUFFICES ASSUME Steady, IInv, [Next]_vars PROVE LaneInv'
  OBVIOUS
<1>a. TypeOK /\ LaneInv
  BY DEF IInv
<1>b. /\ TaskInv /\ NumberInv /\ \A i \in Jobs : RowOK(i)
  BY DEF IInv, RowInv
<1> USE <1>a, LanesAssumption, TaskNames
        DEF LaneInv, SerialInv, OrderInv, TypeOK, rows, worker, tasks, deliveries, closing,
            Open, Live
<1>x. ASSUME NEW j \in Jobs, Stopped(j, "cancelled"), UNCHANGED <<jobAgent, born>> PROVE LaneInv'
  <2>1. /\ turn' = [turn EXCEPT ![j] = "ended"]
        /\ jobStatus' = [jobStatus EXCEPT ![j] = "cancelled"]
        /\ \A w \in Tasks : \/ pc'[w] = pc[w] /\ taskJob'[w] = taskJob[w]
                            \/ pc[w] = "drive" /\ taskJob[w] = j /\ pc'[w] = "off"
    BY <1>x, StoppedDoes
  <2>2. SerialInv'
    BY <1>x, <2>1
  <2>3. OrderInv'
    BY <1>x, <2>1
  <2> QED
    BY <2>2, <2>3
<1>y. ASSUME UNCHANGED <<jobStatus, jobAgent, born, turn>>,
             \A a \in Agents : pc'[Pump(a)] \in {"next", "reserve", "slot"} =>
                 pc'[Pump(a)] = pc[Pump(a)] /\ taskJob'[Pump(a)] = taskJob[Pump(a)]
      PROVE  LaneInv'
  <2>1. SerialInv'
    BY <1>y
  <2>2. OrderInv'
    BY <1>y
  <2> QED
    BY <2>1, <2>2
<1>1. ASSUME NEW j \in Jobs, NEW k \in Kinds, NEW a \in Agents, RouteFresh(j, k, a) PROVE LaneInv'
  <2>1. jobStatus[j] = "none" /\ turn[j] = "none"
    BY <1>1, <1>b DEF RouteFresh, RowOK
  <2>2. /\ UNCHANGED <<jobStatus, turn, born, pc, taskJob>>
        /\ jobAgent' = [jobAgent EXCEPT ![j] = a]
    BY <1>1 DEF RouteFresh
  <2>3. SerialInv'
    BY <2>1, <2>2
  <2>4. OrderInv'
    <3>1. \A b \in Agents : pc[Pump(b)] \in {"reserve", "slot"} => taskJob[Pump(b)] # j
      BY <1>b, <2>1 DEF TaskInv, TaskOK
    <3> QED
      BY <2>1, <2>2, <3>1
  <2> QED
    BY <2>3, <2>4
<1>2. ASSUME NEW j \in Jobs, NEW k \in Kinds, NEW a \in Agents, RouteTarget(j, k, a) PROVE LaneInv'
  <2>1. jobStatus[j] = "none" /\ turn[j] = "none"
    BY <1>2, <1>b DEF RouteTarget, RowOK
  <2>2. /\ UNCHANGED <<jobStatus, turn, born, pc, taskJob>>
        /\ jobAgent' = [jobAgent EXCEPT ![j] = a]
    BY <1>2 DEF RouteTarget
  <2>3. SerialInv'
    BY <2>1, <2>2
  <2>4. OrderInv'
    <3>1. \A b \in Agents : pc[Pump(b)] \in {"reserve", "slot"} => taskJob[Pump(b)] # j
      BY <1>b, <2>1 DEF TaskInv, TaskOK
    <3> QED
      BY <2>1, <2>2, <3>1
  <2> QED
    BY <2>3, <2>4
<1>3. ASSUME NEW j \in Jobs, Revive(j) PROVE LaneInv'
  BY <1>3 DEF Revive
<1>4. ASSUME NEW j \in Jobs, ReadCap(j) PROVE LaneInv'
  BY <1>4 DEF ReadCap
<1>5. ASSUME NEW j \in Jobs, Enqueue(j) PROVE LaneInv'
  <2> DEFINE n == Cardinality(Stored)
  <2>1. /\ jobStatus[j] = "none" /\ turn[j] = "none"
    BY <1>5, <1>b DEF Enqueue, RowOK
  <2>2. /\ jobStatus' = [jobStatus EXCEPT ![j] = "queued"]
        /\ turn' = [turn EXCEPT ![j] = "queued"]
        /\ born' = [born EXCEPT ![j] = 1 + n]
        /\ UNCHANGED <<jobAgent, pc, taskJob>>
    BY <1>5 DEF Enqueue, Stored
  <2>3. n \in Nat /\ \A i \in Jobs : born[i] <= n
    BY <1>b, StoredCount DEF NumberInv
  <2> HIDE DEF n
  <2>4. \A b \in Agents : pc[Pump(b)] \in {"reserve", "slot"} =>
           taskJob[Pump(b)] # j /\ taskJob[Pump(b)] \in Jobs
    BY <1>b, <2>1 DEF TaskInv, TaskOK
  <2>5. SerialInv'
    BY <2>1, <2>2
  <2>6. OrderInv'
    BY <2>1, <2>2, <2>3, <2>4
  <2> QED
    BY <2>5, <2>6
<1>6. ASSUME NEW j \in Jobs, Kick(j) PROVE LaneInv'
  <2> DEFINE S == IF j \in held THEN {} ELSE {jobAgent[j]}
  <2>1. /\ pc' = AfterKicks(S, pc) /\ UNCHANGED <<jobStatus, jobAgent, born, turn, taskJob>>
    BY <1>6 DEF Kick
  <2> HIDE DEF S
  <2>2. \A w \in Tasks : pc'[w] = pc[w] \/ (w[1] = "pump" /\ pc[w] = "off" /\ pc'[w] = "lock")
    BY <2>1, Kicks
  <2>3. \A b \in Agents : pc'[Pump(b)] \in {"next", "reserve", "slot"} =>
           pc'[Pump(b)] = pc[Pump(b)] /\ taskJob'[Pump(b)] = taskJob[Pump(b)]
    BY <2>1, <2>2
  <2> QED
    BY <1>y, <2>1, <2>3
<1>7. ASSUME NEW j \in Jobs, Answer(j) PROVE LaneInv'
  BY <1>7 DEF Answer
<1>8. ASSUME NEW j \in Jobs, StartResume(j) PROVE LaneInv'
  BY <1>8 DEF StartResume, Goto
<1>9. ASSUME NEW j \in Jobs, Stop(j) PROVE LaneInv'
  <2>1. Stopped(j, "cancelled") /\ UNCHANGED <<jobAgent, born>>
    BY <1>9 DEF Stop
  <2> QED
    BY <1>x, <2>1
<1>10. ASSUME NEW a \in Agents, PumpCheck(a) PROVE LaneInv'
  <2>1. /\ AtHead(a) /\ UNCHANGED <<jobStatus, jobAgent, born, turn, taskJob>>
    BY <1>10 DEF PumpCheck
  <2>2. CASE pc' = [pc EXCEPT ![Pump(a)] = "off"] \/ pc' = [pc EXCEPT ![Pump(a)] = "rest"]
    BY <1>y, <2>1, <2>2
  <2>3. CASE pc' = [pc EXCEPT ![Pump(a)] = "next"] /\ ~LaneWaits(a)
    <3>1. \A j \in Jobs : jobAgent[j] = a => turn[j] # "waiting"
      BY <2>3 DEF LaneWaits
    <3>2. \A w \in Tasks : pc[w] = "drive" => w[2] # a
      BY <1>b, <2>1 DEF AtHead, LockFree, TaskInv, LockInv, Working
    <3>3. \A j \in Jobs : jobAgent[j] = a => turn[j] # "running"
      BY <1>b, <3>2 DEF TaskInv, DrivenInv, TaskOK
    <3>4. SerialInv'
      BY <2>1, <2>3, <3>1, <3>3
    <3>5. OrderInv'
      BY <2>1, <2>3
    <3> QED
      BY <3>4, <3>5
  <2> QED
    BY <1>10, <2>2, <2>3 DEF PumpCheck, Goto
<1>11. ASSUME NEW a \in Agents, PumpNext(a) PROVE LaneInv'
  <2>1. pc[Pump(a)] = "next" /\ UNCHANGED <<jobStatus, jobAgent, born, turn>>
    BY <1>11 DEF PumpNext
  <2>2. CASE QueuedOn(a) = {}
    BY <1>11, <1>y, <2>1, <2>2 DEF PumpNext, Goto
  <2>3. CASE QueuedOn(a) # {}
    <3> DEFINE o == Oldest(QueuedOn(a))
    <3>1. QueuedOn(a) \subseteq Jobs
      BY DEF QueuedOn
    <3>2. o \in QueuedOn(a) /\ \A i \in QueuedOn(a) : born[o] <= born[i]
      BY <2>3, <3>1, OldestIn
    <3>3. pc' = [pc EXCEPT ![Pump(a)] = "reserve"] /\ taskJob' = [taskJob EXCEPT ![Pump(a)] = o]
      BY <1>11, <2>3 DEF PumpNext, Goto
    <3> HIDE DEF o
    <3>4. SerialInv'
      BY <2>1, <3>3
    <3>5. OrderInv'
      BY <2>1, <3>2, <3>3 DEF QueuedOn
    <3> QED
      BY <3>4, <3>5
  <2> QED
    BY <2>2, <2>3
<1>12. ASSUME NEW a \in Agents, PumpReserve(a) PROVE LaneInv'
  <2>1. pc[Pump(a)] = "reserve" /\ UNCHANGED <<jobStatus, jobAgent, born, turn>>
    BY <1>12 DEF PumpReserve
  <2>2. CASE pc' = [pc EXCEPT ![Pump(a)] = "rest"] /\ taskJob' = [taskJob EXCEPT ![Pump(a)] = Nobody]
    BY <1>y, <2>1, <2>2
  <2>3. CASE pc' = [pc EXCEPT ![Pump(a)] = "slot"] /\ taskJob' = taskJob
    BY <2>1, <2>3
  <2> QED
    BY <1>12, <2>2, <2>3 DEF PumpReserve, Goto
<1>13. ASSUME NEW a \in Agents, PumpRest(a) PROVE LaneInv'
  BY <1>13 DEF PumpRest, Goto
<1>14. ASSUME NEW a \in Agents, PumpClaim(a) PROVE LaneInv'
  <2> DEFINE j == taskJob[Pump(a)]
  <2>1. /\ pc[Pump(a)] = "slot" /\ j \in Jobs /\ UNCHANGED <<jobAgent, born, taskJob>>
    BY <1>14, PumpClaimDoes
  <2>2. CASE /\ jobStatus[j] = "queued" /\ jobAgent[j] = a
             /\ jobStatus' = [jobStatus EXCEPT ![j] = "started"]
             /\ turn' = [turn EXCEPT ![j] = "running"]
             /\ pc' = [pc EXCEPT ![Pump(a)] = "drive"]
    <3> HIDE DEF j
    <3>1. \A i \in Jobs : jobAgent[i] = a => turn[i] \notin Open
      BY <2>1
    <3>2. \A i \in Jobs : jobAgent[i] = a /\ jobStatus[i] = "queued" => born[j] <= born[i]
      BY <2>1 DEF j
    <3>3. SerialInv'
      BY <2>1, <2>2, <3>1
    <3>4. OrderInv'
      BY <2>1, <2>2, <3>2
    <3> QED
      BY <3>3, <3>4
  <2>3. CASE UNCHANGED <<jobStatus, turn>> /\ pc' = [pc EXCEPT ![Pump(a)] = "after"]
    BY <1>y, <2>1, <2>3
  <2> QED
    BY <1>14, PumpClaimDoes, <2>2, <2>3
<1>15. ASSUME NEW a \in Agents, PumpAfter(a) PROVE LaneInv'
  <2> DEFINE f == [pc EXCEPT ![Pump(a)] = "check"]
  <2>1. /\ taskJob' = [taskJob EXCEPT ![Pump(a)] = Nobody]
        /\ pc' = AfterKicks(OpenSlots(a), f)
        /\ UNCHANGED <<jobStatus, jobAgent, born, turn>>
    BY <1>15 DEF PumpAfter
  <2>2. \A w \in Tasks : f[w] = IF w = Pump(a) THEN "check" ELSE pc[w]
    OBVIOUS
  <2> HIDE DEF f
  <2>3. \A w \in Tasks : pc'[w] = f[w] \/ (w[1] = "pump" /\ f[w] = "off" /\ pc'[w] = "lock")
    BY <2>1, Kicks
  <2>4. \A b \in Agents : pc'[Pump(b)] \in {"next", "reserve", "slot"} =>
           pc'[Pump(b)] = pc[Pump(b)] /\ taskJob'[Pump(b)] = taskJob[Pump(b)]
    BY <2>1, <2>2, <2>3
  <2> QED
    BY <1>y, <2>1, <2>4
<1>16. ASSUME NEW a \in Agents, ResumeLock(a) PROVE LaneInv'
  BY <1>16 DEF ResumeLock, Goto
<1>17. ASSUME NEW a \in Agents, ResumeClaim(a) PROVE LaneInv'
  BY <1>17 DEF ResumeClaim, Goto
<1>18. ASSUME NEW a \in Agents, ResumeAfter(a) PROVE LaneInv'
  BY <1>18 DEF ResumeAfter, Goto
<1>19. ASSUME NEW a \in Agents, Release(a) PROVE LaneInv'
  <2> DEFINE S == {a} \cup OpenSlots(a)
  <2>1. /\ pc' = AfterKicks(S, pc) /\ UNCHANGED <<jobStatus, jobAgent, born, turn, taskJob>>
    BY <1>19 DEF Release
  <2> HIDE DEF S
  <2>2. \A w \in Tasks : pc'[w] = pc[w] \/ (w[1] = "pump" /\ pc[w] = "off" /\ pc'[w] = "lock")
    BY <2>1, Kicks
  <2>3. \A b \in Agents : pc'[Pump(b)] \in {"next", "reserve", "slot"} =>
           pc'[Pump(b)] = pc[Pump(b)] /\ taskJob'[Pump(b)] = taskJob[Pump(b)]
    BY <2>1, <2>2
  <2> QED
    BY <1>y, <2>1, <2>3
<1>20. ASSUME NEW w \in Tasks, NEW how \in Outcomes, DriveEnds(w, how) PROVE LaneInv'
  <2> DEFINE j == taskJob[w]
  <2>1. /\ j \in Jobs /\ turn[j] = "running" /\ pc' = [pc EXCEPT ![w] = "after"]
        /\ UNCHANGED <<jobAgent, born, taskJob>>
    BY <1>20, DriveEndsDoes
  <2>2. \A i \in Jobs : /\ turn'[i] \in Open => turn[i] \in Open
                        /\ jobStatus'[i] = "queued" => jobStatus[i] = "queued"
    BY SMTT(30), <1>20, DriveEndsDoes, <2>1
  <2> HIDE DEF j
  <2>a. \A b \in Agents : pc'[Pump(b)] \in {"next", "reserve", "slot"} =>
           pc'[Pump(b)] = pc[Pump(b)]
    BY <2>1
  <2>b. UNCHANGED <<jobAgent, born, taskJob>>
    BY <2>1
  <2>3. SerialInv'
    BY <2>2, <2>a, <2>b
  <2>4. OrderInv'
    BY <2>2, <2>a, <2>b
  <2> QED
    BY <2>3, <2>4
<1>21. ASSUME NEW a \in Agents, CloseLane(a) PROVE LaneInv'
  BY <1>21 DEF CloseLane, Spend, Rare
<1>22. ASSUME NEW a \in Agents, Expire(a) PROVE LaneInv'
  BY <1>22 DEF Expire, Spend, Rare
<1>23. ASSUME CloseList PROVE LaneInv'
  BY <1>23 DEF CloseList
<1>24. ASSUME NEW j \in Jobs, CloseJob(j) PROVE LaneInv'
  <2>1. CASE Stopped(j, "cancelled")
    BY <1>24, <1>x, <2>1 DEF CloseJob
  <2>2. CASE UNCHANGED <<jobStatus, turn, tasks>>
    BY <1>24, <2>2 DEF CloseJob
  <2> QED
    BY <1>24, <2>1, <2>2 DEF CloseJob
<1>25. ASSUME CloseEnd PROVE LaneInv'
  BY <1>25 DEF CloseEnd
<1>26. CASE UNCHANGED vars
  BY <1>26 DEF vars
<1> QED
  BY NoMoves, <1>1, <1>2, <1>3, <1>4, <1>5, <1>6, <1>7, <1>8, <1>9, <1>10, <1>11, <1>12,
     <1>13, <1>14, <1>15, <1>16, <1>17, <1>18, <1>19, <1>20, <1>21, <1>22, <1>23, <1>24,
     <1>25, <1>26
  DEF Next, DeliveryStep, PumpStep, ResumeStep, Rest

-----------------------------------------------------------------------------
LEMMA LanesInit == Init => IInv
<1> SUFFICES ASSUME Init PROVE IInv
  OBVIOUS
<1> USE LanesAssumption, TaskNames DEF Init
<1>1. TypeOK
  BY DEF TypeOK, Rare
<1>2. \A j \in Jobs : RowOK(j)
  BY DEF RowOK, Open
<1>3. NumberInv
  BY <1>1, StoredCount DEF NumberInv
<1>4. TaskInv
  BY DEF TaskInv, TaskOK, LockInv, DrivenInv, Working
<1>5. LaneInv
  BY DEF LaneInv, SerialInv, OrderInv, Open
<1> QED
  BY <1>1, <1>2, <1>3, <1>4, <1>5 DEF IInv, RowInv

(* The inductive invariant of the lanes, for any number of lanes, jobs and   *)
(* slots, without crashes and moves.                                         *)
THEOREM LanesInductive == Steady => (Spec => []IInv)
<1> SUFFICES ASSUME Steady PROVE Spec => []IInv
  OBVIOUS
<1>1. Init => IInv
  BY LanesInit
<1>2. IInv /\ [Next]_vars => IInv'
  BY TypeStep, RowStep, NumberStep, TasksStep, LaneStep DEF IInv, RowInv
<1> QED
  BY <1>1, <1>2, PTL DEF Spec

LEMMA AtMostOne ==
    ASSUME NEW S, \A x, y \in S : x = y
    PROVE  Cardinality(S) <= 1
<1>1. CASE S = {}
  BY <1>1, FS_EmptySet
<1>2. ASSUME NEW x \in S PROVE Cardinality(S) = 1
  <2>1. S = {x}
    OBVIOUS
  <2> QED
    BY <2>1, FS_Singleton
<1> QED
  BY <1>1, <1>2

(* A lane never has two open turns, and runs its messages in the order they  *)
(* came in, whatever pumps, resumes, stops, closes and expiries do to it.    *)
THEOREM LanesInOrder == Steady => (Spec => []LaneInOrder)
<1>1. IInv => LaneInOrder
  <2> SUFFICES ASSUME IInv PROVE LaneInOrder
    OBVIOUS
  <2>1. ASSUME NEW a \in Agents PROVE Cardinality(OpenTurns(a)) <= 1
    <3>1. \A x, y \in OpenTurns(a) : x = y
      BY DEF IInv, LaneInv, SerialInv, OpenTurns
    <3> QED
      BY <3>1, AtMostOne
  <2>2. ASSUME NEW i \in Jobs, NEW j \in Jobs, jobAgent[i] = jobAgent[j],
               jobStatus[i] = "queued", born[i] < born[j]
        PROVE  turn[j] \notin Open
    <3>1. born[i] \in Nat /\ born[j] \in Nat
      BY DEF IInv, TypeOK
    <3>2. turn[j] \in Open => born[j] <= born[i]
      BY <2>2 DEF IInv, LaneInv, OrderInv
    <3> QED
      BY <2>2, <3>1, <3>2
  <2> QED
    BY <2>1, <2>2 DEF LaneInOrder, LaneSerial
<1> QED
  BY <1>1, LanesInductive, PTL

(* A running turn has the task that drives it: no stop, close or expiry      *)
(* leaves a turn running that nothing works on.                              *)
THEOREM RunningTurnsDriven == Steady => (Spec => []RunningIsDriven)
<1>1. IInv => RunningIsDriven
  BY DEF IInv, TaskInv, DrivenInv, RunningIsDriven
<1> QED
  BY <1>1, LanesInductive, PTL

-----------------------------------------------------------------------------
(* The cap.                                                                  *)
LEMMA CapStep == Steady /\ Counted /\ IInv /\ CapInv /\ [Next]_vars => CapInv'
<1> SUFFICES ASSUME Steady, Counted, IInv, CapInv, [Next]_vars PROVE CapInv'
  OBVIOUS
<1>a. TypeOK /\ ShownInv /\ HeldInv /\ QuietInv
  BY DEF IInv, CapInv
<1>b. /\ TaskInv /\ SerialInv /\ CountInv /\ \A i \in Jobs : RowOK(i)
  BY DEF IInv, RowInv, LaneInv, CapInv
<1>c. IsFiniteSet(Taken) /\ Cardinality(Taken) \in Nat
  BY <1>a, LanesAssumption, FS_Subset, FS_CardinalityType DEF TypeOK, Taken, Occupying
<1>d. ASSUME Taken' \subseteq Taken PROVE CountInv'
  <2>1. IsFiniteSet(Taken') /\ Cardinality(Taken') <= Cardinality(Taken)
    BY <1>c, <1>d, FS_Subset
  <2>2. Cardinality(Taken') \in Nat
    BY <2>1, FS_CardinalityType
  <2> QED
    BY <1>b, <1>c, <2>1, <2>2, LanesAssumption DEF CountInv
<1>e. ASSUME UNCHANGED <<agentStatus, reserved>> PROVE CountInv'
  <2>1. Taken' = Taken
    BY <1>e DEF Taken, Occupying
  <2> QED
    BY <2>1, <1>d
<1> USE <1>a, LanesAssumption, TaskNames
        DEF CapInv, ShownInv, HeldInv, QuietInv, TypeOK, rows, worker, tasks, deliveries,
            closing, Open, Live, Occupying
<1>x. ASSUME NEW j \in Jobs, Stopped(j, "cancelled"), UNCHANGED <<jobAgent, dPc, cAgent>>
      PROVE  CapInv'
  <2>1. /\ turn' = [turn EXCEPT ![j] = "ended"] /\ jobAgent[j] \in Agents
        /\ \A w \in Tasks : pc'[w] = pc[w] \/ pc'[w] = "off"
    BY <1>x, StoppedDoes
  <2>2. /\ agentStatus' = agentStatus
           \/ (turn[j] \in Open /\ agentStatus' = [agentStatus EXCEPT ![jobAgent[j]] = "idle"])
        /\ reserved' = reserved \ {a \in Agents : Pump(a) \in Drivers(j)}
    BY <1>x DEF Stopped
  <2>3. ShownInv'
    BY <1>b, <1>x, <2>1, <2>2 DEF SerialInv
  <2>4. HeldInv'
    BY <2>1, <2>2 DEF Drivers
  <2>5. Taken' \subseteq Taken
    BY <2>1, <2>2 DEF Taken
  <2>6. QuietInv'
    BY <1>x
  <2> QED
    BY <1>d, <2>3, <2>4, <2>5, <2>6
<1>1. ASSUME NEW j \in Jobs, NEW k \in Kinds, NEW a \in Agents, RouteFresh(j, k, a) PROVE CapInv'
  <2>1. turn[j] = "none"
    BY <1>1, <1>b DEF RouteFresh, RowOK
  <2>2. /\ UNCHANGED <<turn, pc, reserved, cAgent>>
        /\ jobAgent' = [jobAgent EXCEPT ![j] = a]
        /\ agentStatus[a] = "none" /\ agentStatus' = [agentStatus EXCEPT ![a] = "idle"]
    BY <1>1 DEF RouteFresh
  <2>3. QuietInv'
    BY <1>1 DEF RouteFresh, Counted
  <2>4. ShownInv' /\ HeldInv'
    BY <2>1, <2>2
  <2>5. Taken' \subseteq Taken
    BY <2>2 DEF Taken
  <2> QED
    BY <1>d, <2>3, <2>4, <2>5
<1>2. ASSUME NEW j \in Jobs, NEW k \in Kinds, NEW a \in Agents, RouteTarget(j, k, a) PROVE CapInv'
  <2>1. turn[j] = "none"
    BY <1>2, <1>b DEF RouteTarget, RowOK
  <2>2. /\ UNCHANGED <<turn, pc, reserved, cAgent>>
        /\ jobAgent' = [jobAgent EXCEPT ![j] = a]
        /\ agentStatus' = agentStatus
    BY <1>2 DEF RouteTarget
  <2>3. QuietInv'
    BY <1>2 DEF RouteTarget, Counted
  <2>4. ShownInv' /\ HeldInv'
    BY <2>1, <2>2
  <2>5. Taken' \subseteq Taken
    BY <2>2 DEF Taken
  <2> QED
    BY <1>d, <2>3, <2>4, <2>5
<1>3. ASSUME NEW j \in Jobs, Revive(j) PROVE CapInv'
  BY <1>3 DEF Revive
<1>4. ASSUME NEW j \in Jobs, ReadCap(j) PROVE CapInv'
  BY <1>4, <1>e DEF ReadCap
<1>5. ASSUME NEW j \in Jobs, Enqueue(j) PROVE CapInv'
  <2>1. /\ turn' = [turn EXCEPT ![j] = "queued"] /\ \E d \in {"cap", "kick"} : dPc' = [dPc EXCEPT ![j] = d]
        /\ UNCHANGED <<agentStatus, jobAgent, reserved, pc, cAgent>>
    BY <1>5 DEF Enqueue
  <2> QED
    BY <1>e, <2>1
<1>6. ASSUME NEW j \in Jobs, Kick(j) PROVE CapInv'
  <2> DEFINE S == IF j \in held THEN {} ELSE {jobAgent[j]}
  <2>1. /\ pc' = AfterKicks(S, pc) /\ UNCHANGED <<agentStatus, jobAgent, turn, reserved, cAgent>>
        /\ dPc' = [dPc EXCEPT ![j] = "end"]
    BY <1>6 DEF Kick
  <2> HIDE DEF S
  <2>2. \A w \in Tasks : pc'[w] = pc[w] \/ pc'[w] = "lock"
    BY <2>1, Kicks
  <2> QED
    BY <1>e, <2>1, <2>2
<1>7. ASSUME NEW j \in Jobs, Answer(j) PROVE CapInv'
  BY <1>7, <1>e DEF Answer
<1>8. ASSUME NEW j \in Jobs, StartResume(j) PROVE CapInv'
  BY <1>8, <1>e DEF StartResume, Goto
<1>9. ASSUME NEW j \in Jobs, Stop(j) PROVE CapInv'
  <2>1. Stopped(j, "cancelled") /\ UNCHANGED <<jobAgent, dPc, cAgent>>
    BY <1>9 DEF Stop
  <2> QED
    BY <1>x, <2>1
<1>10. ASSUME NEW a \in Agents, PumpCheck(a) PROVE CapInv'
  BY <1>10, <1>e DEF PumpCheck, Goto
<1>11. ASSUME NEW a \in Agents, PumpNext(a) PROVE CapInv'
  BY <1>11, <1>e DEF PumpNext, Goto
<1>12. ASSUME NEW a \in Agents, PumpReserve(a) PROVE CapInv'
  <2>1. pc[Pump(a)] = "reserve" /\ UNCHANGED <<agentStatus, jobAgent, turn, dPc, cAgent>>
    BY <1>12 DEF PumpReserve
  <2>2. CASE pc' = [pc EXCEPT ![Pump(a)] = "rest"] /\ reserved' = reserved
    BY <1>e, <2>1, <2>2
  <2>3. CASE /\ ~(Cardinality(Taken \ {a}) >= Cap)
             /\ pc' = [pc EXCEPT ![Pump(a)] = "slot"] /\ reserved' = reserved \cup {a}
    <3>1. Taken' = (Taken \ {a}) \cup {a}
      BY <2>1, <2>3 DEF Taken
    <3>2. IsFiniteSet(Taken \ {a}) /\ Cardinality(Taken \ {a}) \in Nat
      BY <1>c, FS_RemoveElement, FS_CardinalityType
    <3>3. Cardinality((Taken \ {a}) \cup {a}) = Cardinality(Taken \ {a}) + 1
      BY <3>2, FS_AddElement
    <3>4. CountInv'
      BY <2>3, <3>1, <3>2, <3>3 DEF CountInv
    <3> QED
      BY <2>1, <2>3, <3>4
  <2> QED
    BY <1>12, <2>2, <2>3 DEF PumpReserve, Goto, Taken
<1>13. ASSUME NEW a \in Agents, PumpRest(a) PROVE CapInv'
  BY <1>13, <1>e DEF PumpRest, Goto
<1>14. ASSUME NEW a \in Agents, PumpClaim(a) PROVE CapInv'
  <2> DEFINE j == taskJob[Pump(a)]
  <2>1. /\ pc[Pump(a)] = "slot" /\ j \in Jobs /\ a \in reserved
        /\ UNCHANGED <<jobAgent, dPc, reserved, cAgent>>
    BY <1>14, PumpClaimDoes DEF PumpClaim
  <2>2. CASE /\ j \in QueuedOn(a)
             /\ turn' = [turn EXCEPT ![j] = "running"]
             /\ agentStatus' = [agentStatus EXCEPT ![a] = "running"]
             /\ pc' = [pc EXCEPT ![Pump(a)] = "drive"]
    <3>1. jobAgent[j] = a
      BY <2>2 DEF QueuedOn
    <3> HIDE DEF j
    <3>2. ShownInv' /\ HeldInv'
      BY <2>1, <2>2, <3>1
    <3>3. Taken' \subseteq Taken
      BY <2>1, <2>2 DEF Taken
    <3> QED
      BY <1>d, <2>1, <3>2, <3>3
  <2>3. CASE UNCHANGED <<turn, agentStatus>> /\ pc' = [pc EXCEPT ![Pump(a)] = "after"]
    BY <1>e, <2>1, <2>3
  <2> QED
    BY <1>14, <2>2, <2>3 DEF PumpClaim, Goto
<1>15. ASSUME NEW a \in Agents, PumpAfter(a) PROVE CapInv'
  <2> DEFINE f == [pc EXCEPT ![Pump(a)] = "check"]
  <2>1. /\ pc' = AfterKicks(OpenSlots(a), f) /\ reserved' = reserved \ {a}
        /\ UNCHANGED <<agentStatus, jobAgent, turn, dPc, cAgent>>
    BY <1>15 DEF PumpAfter
  <2>2. \A w \in Tasks : f[w] = IF w = Pump(a) THEN "check" ELSE pc[w]
    OBVIOUS
  <2> HIDE DEF f
  <2>3. \A w \in Tasks : pc'[w] = f[w] \/ pc'[w] = "lock"
    BY <2>1, Kicks
  <2>4. HeldInv'
    BY <2>1, <2>2, <2>3
  <2>5. Taken' \subseteq Taken
    BY <2>1 DEF Taken
  <2> QED
    BY <1>d, <2>1, <2>4, <2>5
<1>16. ASSUME NEW a \in Agents, ResumeLock(a) PROVE CapInv'
  BY <1>16, <1>e DEF ResumeLock, Goto
<1>17. ASSUME NEW a \in Agents, ResumeClaim(a) PROVE CapInv'
  <2> DEFINE j == taskJob[Resume(a)]
  <2>1. /\ pc[Resume(a)] = "slot" /\ j \in Jobs /\ jobAgent[j] = a
        /\ UNCHANGED <<jobAgent, reserved, dPc, cAgent>>
    BY <1>17, <1>b DEF ResumeClaim, TaskInv, TaskOK
  <2>2. CASE turn[j] \in Open
    <3>1. /\ turn' = [turn EXCEPT ![j] = "running"]
          /\ agentStatus' = agentStatus \/ agentStatus' = [agentStatus EXCEPT ![a] = "running"]
          /\ pc' = [pc EXCEPT ![Resume(a)] = "drive"]
      BY <1>17, <2>2 DEF ResumeClaim, Goto
    <3> HIDE DEF j
    <3>2. a \in Occupying
      BY <2>1, <2>2
    <3>3. ShownInv' /\ HeldInv'
      BY <2>1, <2>2, <3>1, <3>2
    <3>4. Taken' \subseteq Taken
      BY <2>1, <3>1, <3>2 DEF Taken
    <3> QED
      BY <1>d, <2>1, <3>3, <3>4
  <2>3. CASE turn[j] \notin Open
    <3>1. UNCHANGED <<turn, agentStatus>> /\ pc' = [pc EXCEPT ![Resume(a)] = "after"]
      BY <1>17, <2>3 DEF ResumeClaim, Goto
    <3> QED
      BY <1>e, <2>1, <3>1
  <2> QED
    BY <2>2, <2>3
<1>18. ASSUME NEW a \in Agents, ResumeAfter(a) PROVE CapInv'
  BY <1>18, <1>e DEF ResumeAfter, Goto
<1>19. ASSUME NEW a \in Agents, Release(a) PROVE CapInv'
  <2> DEFINE S == {a} \cup OpenSlots(a)
  <2>1. /\ pc' = AfterKicks(S, pc)
        /\ UNCHANGED <<agentStatus, jobAgent, turn, reserved, dPc, cAgent>>
    BY <1>19 DEF Release
  <2> HIDE DEF S
  <2>2. \A w \in Tasks : pc'[w] = pc[w] \/ pc'[w] = "lock"
    BY <2>1, Kicks
  <2> QED
    BY <1>e, <2>1, <2>2
<1>20. ASSUME NEW w \in Tasks, NEW how \in Outcomes, DriveEnds(w, how) PROVE CapInv'
  <2> DEFINE j == taskJob[w]  a == w[2]
  <2>1. /\ j \in Jobs /\ turn[j] = "running" /\ pc[w] = "drive" /\ pc' = [pc EXCEPT ![w] = "after"]
        /\ UNCHANGED <<jobAgent, dPc>>
    BY <1>20, DriveEndsDoes
  <2>2. a \in Agents /\ jobAgent[j] = a /\ a \in Occupying
    BY <1>b, <2>1 DEF TaskInv, TaskOK
  <2>3. /\ UNCHANGED <<reserved, cAgent>>
        /\ \/ /\ turn' = [turn EXCEPT ![j] = "waiting"]
              /\ agentStatus' = [agentStatus EXCEPT ![a] = "waiting"]
           \/ /\ turn' = [turn EXCEPT ![j] = "ended"]
              /\ \E s \in {"done", "idle"} : agentStatus' = [agentStatus EXCEPT ![a] = s]
    BY <1>20 DEF DriveEnds
  <2> HIDE DEF j, a
  <2>4. ShownInv'
    BY <1>b, <2>1, <2>2, <2>3 DEF SerialInv
  <2>5. HeldInv'
    BY <2>1, <2>3
  <2>6. Taken' \subseteq Taken
    BY <2>2, <2>3 DEF Taken
  <2>7. QuietInv'
    BY <2>1, <2>3
  <2> QED
    BY <1>d, <2>4, <2>5, <2>6, <2>7
<1>21. ASSUME NEW a \in Agents, CloseLane(a) PROVE CapInv'
  BY <1>21 DEF CloseLane, Spend, Rare, Counted
<1>22. ASSUME NEW a \in Agents, Expire(a) PROVE CapInv'
  <2>1. /\ agentStatus[a] = "idle" /\ agentStatus' = [agentStatus EXCEPT ![a] = "done"]
        /\ UNCHANGED <<jobAgent, turn, pc, reserved, dPc, cAgent>>
    BY <1>22 DEF Expire
  <2>2. Taken' \subseteq Taken
    BY <2>1 DEF Taken
  <2>3. ShownInv' /\ HeldInv' /\ QuietInv'
    BY <2>1
  <2> QED
    BY <1>d, <2>2, <2>3
<1>23. ASSUME CloseList PROVE CapInv'
  BY <1>23 DEF CloseList
<1>24. ASSUME NEW j \in Jobs, CloseJob(j) PROVE CapInv'
  BY <1>24 DEF CloseJob
<1>25. ASSUME CloseEnd PROVE CapInv'
  BY <1>25 DEF CloseEnd
<1>26. CASE UNCHANGED vars
  BY <1>26, <1>e DEF vars
<1> QED
  BY NoMoves, <1>1, <1>2, <1>3, <1>4, <1>5, <1>6, <1>7, <1>8, <1>9, <1>10, <1>11, <1>12,
     <1>13, <1>14, <1>15, <1>16, <1>17, <1>18, <1>19, <1>20, <1>21, <1>22, <1>23, <1>24,
     <1>25, <1>26
  DEF Next, DeliveryStep, PumpStep, ResumeStep, Rest

(* No slot is taken at the start.                                            *)
LEMMA CapInit == Init => CapInv
<1> SUFFICES ASSUME Init PROVE CapInv
  OBVIOUS
<1>1. Taken = {}
  BY DEF Init, Taken, Occupying, Open
<1>2. CountInv
  BY <1>1, FS_EmptySet, LanesAssumption DEF CountInv
<1> QED
  BY <1>2, TaskNames DEF CapInv, ShownInv, HeldInv, QuietInv, Init, Open

(* The bot cap holds at every moment for any number of lanes, although the   *)
(* reservation is taken before the claim stores the running status and given *)
(* back after the turn's end is stored (_reserve, _mark_started, _pump).     *)
THEOREM CapHolds == Steady /\ Counted => (Spec => []CapRespected)
<1> SUFFICES ASSUME Steady, Counted PROVE Spec => []CapRespected
  OBVIOUS
<1>1. Init => CapInv
  BY CapInit
<1>2. IInv /\ CapInv => CapRespected
  <2> SUFFICES ASSUME IInv, CapInv PROVE CapRespected
    OBVIOUS
  <2> DEFINE B == {a \in Agents : OpenTurns(a) # {}}
  <2>1. B \subseteq Taken /\ Taken \subseteq Agents
    BY DEF IInv, TypeOK, CapInv, ShownInv, OpenTurns, Taken, Occupying
  <2> HIDE DEF B
  <2>2. IsFiniteSet(Taken)
    BY <2>1, LanesAssumption, FS_Subset
  <2>3. IsFiniteSet(B) /\ Cardinality(B) <= Cardinality(Taken)
    BY <2>1, <2>2, FS_Subset
  <2>4. Cardinality(B) \in Nat /\ Cardinality(Taken) \in Nat
    BY <2>2, <2>3, FS_CardinalityType
  <2>5. Cardinality(Taken) <= Cap
    BY DEF CapInv, CountInv
  <2>6. Cardinality(B) <= Cap
    BY <2>3, <2>4, <2>5, LanesAssumption
  <2> QED
    BY <2>6 DEF CapRespected, B
<1>3. IInv /\ CapInv /\ [Next]_vars => CapInv'
  BY CapStep
<1>4. Spec => []IInv
  BY LanesInductive
<1>5. Spec => [](IInv /\ CapInv)
  BY <1>1, <1>3, <1>4, PTL DEF Spec
<1> QED
  BY <1>2, <1>5, PTL

-----------------------------------------------------------------------------
(* Waking. Routines only: each reads the cap after its job is stored.         *)
Scheduled == Kinds \subseteq {"routine"}

(* Who calls _open_slots before it stops.                                    *)
Busy ==
    \/ owed # {}
    \/ \E a \in Agents : pc[Pump(a)] \in {"slot", "drive", "after"} \/ pc[Resume(a)] # "off"

(* The pump of a lane has yet to look at its queue.                          *)
Looks(b) ==
    \/ pc[Pump(b)] \in {"lock", "check", "next", "reserve"}
    \/ pc[Pump(b)] = "rest" /\ b \in again

(* A delivery or a move will kick the lane.                                  *)
Kicked(b) == \E j \in Jobs : jobAgent[j] = b /\ dPc[j] \in {"cap", "kick"} /\ j \notin held

Roused == {b \in Agents : QueuedOn(b) # {} /\ Looks(b)}
Asleep == {b \in Agents : QueuedOn(b) # {} /\ ~LaneWaits(b) /\ ~Looks(b) /\ ~Kicked(b)}

(* A lane with queued work that nothing is about to wake waits for a slot:    *)
(* somebody who will look for such lanes is at work, or the cap is taken by   *)
(* lanes that hold a turn and lanes that are about to ask for one.            *)
SlotInv == Asleep # {} => Busy \/ Cardinality(Occupying \cup Roused) >= Cap

(* What the counting rests on: no lane is shown open that is not, a lane is  *)
(* reserved by its pump only, and a delivery is held only after its job is   *)
(* queued.                                                                   *)
GhostInv == \A a \in Occupying : OpenTurns(a) # {}
ReservedInv == \A a \in reserved : pc[Pump(a)] \in {"slot", "drive", "after"}
FlowInv ==
    \A j \in Jobs :
        /\ dPc[j] # "new" => dKind[j] = "routine"
        /\ dPc[j] = "cap" => jobStatus[j] # "none"
        /\ j \in held => dPc[j] = "kick"

(* A paused turn with all its approvals has the resume that will claim it.   *)
AnswerInv ==
    \A j \in answered : turn[j] = "waiting" =>
        \/ j \in calling
        \/ LET w == Resume(jobAgent[j]) IN pc[w] \in {"lock", "slot"} /\ taskJob[w] = j

WakeInv == cancelling = {} /\ GhostInv /\ ReservedInv /\ FlowInv /\ AnswerInv

-----------------------------------------------------------------------------
(* A kick makes a pump look, or finds it where it will release its slot.      *)
LEMMA KicksRouse ==
    ASSUME TypeOK, cancelling = {}, NEW S, pc' = AfterKicks(S, pc),
           again' = again \cup Woken(S), NEW b \in Agents
    PROVE  /\ Looks(b) => Looks(b)'
           /\ b \in S => Looks(b)' \/ pc'[Pump(b)] \in {"slot", "drive", "after"}
           /\ pc[Pump(b)] \in {"slot", "drive", "after"} => pc'[Pump(b)] = pc[Pump(b)]
           /\ pc'[Resume(b)] = pc[Resume(b)]
<1>1. /\ Pump(b) \in Tasks /\ Pump(b)[1] = "pump" /\ Pump(b)[2] = b
      /\ Resume(b) \in Tasks /\ Resume(b)[1] = "resume"
  BY TaskNames
<1>2. Woken(S) = S
  BY DEF Woken
<1>3. /\ pc'[Pump(b)] = IF b \in S /\ pc[Pump(b)] = "off" THEN "lock" ELSE pc[Pump(b)]
      /\ pc'[Resume(b)] = pc[Resume(b)]
  BY <1>1, <1>2 DEF AfterKicks
<1>4. pc[Pump(b)] \in {"off", "lock", "check", "next", "reserve", "rest", "slot", "drive",
                       "after"}
  BY <1>1 DEF TypeOK
<1> QED
  BY <1>2, <1>3, <1>4 DEF Looks

(* If _open_slots leaves a lane asleep, the lanes it wakes fill the cap.      *)
LEMMA SlotsFill ==
    ASSUME TypeOK, NEW a, NEW b \in Sleeping(a), b \notin OpenSlots(a)
    PROVE  Cardinality(Occupying \cup OpenSlots(a)) >= Cap
<1> DEFINE first(c) == born[Oldest(QueuedOn(c))]
           ahead(c) == {d \in Sleeping(a) : first(d) < first(c)}
           left == Sleeping(a) \ OpenSlots(a)
           T == {first(c) : c \in left}
<1>1. ASSUME NEW c \in Sleeping(a) PROVE first(c) \in Nat
  <2>1. QueuedOn(c) \subseteq Jobs /\ QueuedOn(c) # {} /\ born \in [Jobs -> Nat]
    BY DEF Sleeping, QueuedOn, TypeOK
  <2>2. Oldest(QueuedOn(c)) \in Jobs
    BY <2>1, OldestIn
  <2> QED
    BY <2>1, <2>2
<1>2. \A c \in Sleeping(a) :
         c \in OpenSlots(a) <=> Cardinality(Occupying) + Cardinality(ahead(c)) < Cap
  BY DEF OpenSlots
<1> HIDE DEF first
<1>3. PICK c \in left : \A d \in left : first(c) <= first(d)
  <2>1. T \subseteq Nat /\ T # {}
    BY <1>1
  <2>2. PICK x \in T : \A y \in T : x <= y
    BY <2>1, LeastElement
  <2> QED
    BY <2>2
<1> DEFINE A == ahead(c)
<1>4. A \subseteq OpenSlots(a)
  <2> SUFFICES ASSUME NEW d \in A, d \notin OpenSlots(a) PROVE FALSE
    OBVIOUS
  <2>1. d \in left /\ first(d) < first(c) /\ c \in Sleeping(a) /\ d \in Sleeping(a)
    OBVIOUS
  <2> QED
    BY <1>1, <1>3, <2>1
<1>5. ~(Cardinality(Occupying) + Cardinality(A) < Cap)
  BY <1>2, <1>3
<1>6. A \subseteq Agents /\ OpenSlots(a) \subseteq Agents /\ Occupying \subseteq Agents
      /\ Occupying \cap A = {}
  BY <1>4, OpenSlotsAgents DEF Occupying, Sleeping
<1> HIDE DEF A
<1>7. /\ IsFiniteSet(A) /\ IsFiniteSet(Occupying)
      /\ IsFiniteSet(Occupying \cup OpenSlots(a)) /\ IsFiniteSet(Occupying \cup A)
  <2>1. Occupying \cup OpenSlots(a) \subseteq Agents /\ Occupying \cup A \subseteq Agents
    BY <1>6
  <2> QED
    BY <1>6, <2>1, LanesAssumption, FS_Subset
<1>8. Cardinality(Occupying \cup A) = Cardinality(Occupying) + Cardinality(A)
  <2>1. Cardinality(Occupying \cup A)
          = Cardinality(Occupying) + Cardinality(A) - Cardinality(Occupying \cap A)
    BY <1>7, FS_Union
  <2>2. Cardinality(Occupying \cap A) = 0
    BY <1>6, FS_EmptySet
  <2>3. Cardinality(Occupying) \in Nat /\ Cardinality(A) \in Nat
    BY <1>7, FS_CardinalityType
  <2> QED
    BY <2>1, <2>2, <2>3
<1>9. Occupying \cup A \subseteq Occupying \cup OpenSlots(a)
  BY <1>4
<1>10. Cardinality(Occupying \cup A) <= Cardinality(Occupying \cup OpenSlots(a))
  BY <1>7, <1>9, FS_Subset
<1>11. /\ Cardinality(Occupying) \in Nat /\ Cardinality(A) \in Nat
       /\ Cardinality(Occupying \cup A) \in Nat
       /\ Cardinality(Occupying \cup OpenSlots(a)) \in Nat
  BY <1>7, FS_CardinalityType
<1> QED
  BY <1>5, <1>8, <1>10, <1>11, LanesAssumption

(* More lanes that hold a turn or ask for one, and none newly asleep.         *)
LEMMA CapStays ==
    ASSUME SlotInv, TypeOK', Busy => Busy', Asleep' \subseteq Asleep,
           Occupying \cup Roused \subseteq (Occupying \cup Roused)'
    PROVE  SlotInv'
<1>1. (Occupying \cup Roused)' \subseteq Agents
  BY DEF Occupying, Roused
<1>2. IsFiniteSet((Occupying \cup Roused)')
  BY <1>1, LanesAssumption, FS_Subset
<1>3. Cardinality(Occupying \cup Roused) <= Cardinality((Occupying \cup Roused)')
      /\ IsFiniteSet(Occupying \cup Roused)
  BY <1>2, FS_Subset
<1>4. Cardinality(Occupying \cup Roused) \in Nat /\ Cardinality((Occupying \cup Roused)') \in Nat
  BY <1>2, <1>3, FS_CardinalityType
<1> QED
  BY <1>3, <1>4, LanesAssumption DEF SlotInv

(* Enough lanes that hold a turn or ask for one.                              *)
LEMMA CapFull ==
    ASSUME NEW S, S \subseteq (Occupying \cup Roused)', Cardinality(S) >= Cap
    PROVE  SlotInv'
<1>1. (Occupying \cup Roused)' \subseteq Agents
  BY DEF Occupying, Roused
<1>2. IsFiniteSet((Occupying \cup Roused)')
  BY <1>1, LanesAssumption, FS_Subset
<1>3. Cardinality(S) <= Cardinality((Occupying \cup Roused)') /\ IsFiniteSet(S)
  BY <1>2, FS_Subset
<1>4. Cardinality(S) \in Nat /\ Cardinality((Occupying \cup Roused)') \in Nat
  BY <1>2, <1>3, FS_CardinalityType
<1> QED
  BY <1>3, <1>4, LanesAssumption DEF SlotInv

-----------------------------------------------------------------------------
(* The counting facts are kept by every step: no revive or close changes a    *)
(* lane's status behind its turn, and an answered turn keeps its resume.      *)
LEMMA WakeStep ==
    Steady /\ Counted /\ Scheduled /\ IInv /\ CapInv /\ WakeInv /\ [Next]_vars => WakeInv'
<1> SUFFICES ASSUME Steady, Counted, Scheduled, IInv, CapInv, WakeInv, [Next]_vars
             PROVE  WakeInv'
  OBVIOUS
<1>a. TypeOK /\ ShownInv /\ QuietInv
  BY DEF IInv, CapInv
<1>b. /\ TaskInv /\ SerialInv /\ \A i \in Jobs : RowOK(i)
  BY DEF IInv, RowInv, LaneInv
<1>c. ~(\E a \in Agents : CloseLane(a)) /\ ~CloseList /\ ~(\E j \in Jobs : CloseJob(j)) /\ ~CloseEnd
  BY <1>a, LanesAssumption
  DEF Counted, QuietInv, CloseLane, CloseList, CloseJob, CloseEnd, Spend, Rare, TypeOK
<1> USE <1>a, LanesAssumption, TaskNames
        DEF WakeInv, GhostInv, ReservedInv, FlowInv, AnswerInv, QuietInv, TypeOK, rows, worker, tasks,
            deliveries, closing, Open, Occupying, OpenTurns
<1>1. ASSUME NEW j \in Jobs, NEW k \in Kinds, NEW a \in Agents, RouteFresh(j, k, a) PROVE WakeInv'
  <2>1. turn[j] = "none" /\ k = "routine" /\ dPc[j] = "new"
    BY <1>1, <1>b DEF RouteFresh, RowOK, Scheduled
  <2>2. /\ agentStatus[a] = "none" /\ agentStatus' = [agentStatus EXCEPT ![a] = "idle"]
        /\ jobAgent' = [jobAgent EXCEPT ![j] = a]
        /\ dKind' = [dKind EXCEPT ![j] = "routine"] /\ dPc' = [dPc EXCEPT ![j] = "enqueue"]
        /\ UNCHANGED <<turn, jobStatus, answered, reserved, cancelling, pc, taskJob, calling, held>>
    BY <1>1, <2>1 DEF RouteFresh
  <2>3. GhostInv' /\ ReservedInv' /\ FlowInv'
    BY <2>1, <2>2
  <2>4. AnswerInv'
    BY <2>1, <2>2
  <2> QED
    BY <2>2, <2>3, <2>4
<1>2. ASSUME NEW j \in Jobs, NEW k \in Kinds, NEW a \in Agents, RouteTarget(j, k, a) PROVE WakeInv'
  BY <1>2 DEF RouteTarget, Scheduled
<1>3. ASSUME NEW j \in Jobs, Revive(j) PROVE WakeInv'
  BY <1>3 DEF Revive
<1>4. ASSUME NEW j \in Jobs, ReadCap(j) PROVE WakeInv'
  <2>1. /\ dPc[j] = "cap" /\ jobStatus[j] # "none" /\ dPc' = [dPc EXCEPT ![j] = "kick"]
        /\ held' = held \/ held' = held \cup {j}
        /\ UNCHANGED <<agentStatus, jobAgent, turn, jobStatus, answered, reserved, cancelling, pc,
                       taskJob, calling, dKind>>
    BY <1>4 DEF ReadCap
  <2> QED
    BY <2>1
<1>5. ASSUME NEW j \in Jobs, Enqueue(j) PROVE WakeInv'
  <2>1. /\ dPc[j] = "enqueue" /\ dPc' = [dPc EXCEPT ![j] = "cap"] /\ turn[j] = "none"
        /\ turn' = [turn EXCEPT ![j] = "queued"] /\ jobStatus' = [jobStatus EXCEPT ![j] = "queued"]
        /\ UNCHANGED <<agentStatus, jobAgent, answered, reserved, cancelling, pc, taskJob,
                       calling, dKind, held>>
    BY <1>5, <1>b DEF Enqueue, RowOK
  <2> QED
    BY <2>1
<1>6. ASSUME NEW j \in Jobs, Kick(j) PROVE WakeInv'
  <2> DEFINE S == IF j \in held THEN {} ELSE {jobAgent[j]}
  <2>1. /\ pc' = AfterKicks(S, pc) /\ again' = again \cup Woken(S)
        /\ dPc' = [dPc EXCEPT ![j] = "end"] /\ held' = held \ {j}
        /\ UNCHANGED <<agentStatus, jobAgent, turn, jobStatus, answered, reserved, cancelling,
                       taskJob, calling, dKind>>
    BY <1>6 DEF Kick
  <2> HIDE DEF S
  <2>2. \A b \in Agents : /\ pc[Pump(b)] \in {"slot", "drive", "after"} => pc'[Pump(b)] = pc[Pump(b)]
                          /\ pc'[Resume(b)] = pc[Resume(b)]
    BY <2>1, KicksRouse
  <2>3. AnswerInv'
    BY <1>b, <2>1, <2>2 DEF RowOK
  <2>4. ReservedInv' /\ GhostInv'
    BY <2>1, <2>2
  <2>5. FlowInv'
    <3> SUFFICES ASSUME NEW i \in Jobs
                 PROVE  /\ dPc'[i] # "new" => dKind[i] = "routine"
                        /\ dPc'[i] = "cap" => jobStatus[i] # "none"
                        /\ i \in held' => dPc'[i] = "kick"
      BY <2>1
    <3>1. CASE i = j
      <4>1. dPc'[i] = "end" /\ i \notin held' /\ dPc[i] = "kick"
        BY <1>6, <2>1, <3>1 DEF Kick
      <4> QED
        BY <4>1
    <3>2. CASE i # j
      <4>1. dPc'[i] = dPc[i] /\ (i \in held' => i \in held)
        BY <2>1, <3>2
      <4> QED
        BY <4>1
    <3> QED
      BY <3>1, <3>2
  <2> QED
    BY <2>1, <2>3, <2>4, <2>5
<1>7. ASSUME NEW j \in Jobs, Answer(j) PROVE WakeInv'
  BY <1>7 DEF Answer
<1>8. ASSUME NEW j \in Jobs, StartResume(j) PROVE WakeInv'
  <2> DEFINE w == Resume(jobAgent[j])
  <2>1. /\ j \in calling /\ pc[w] = "off" /\ calling' = calling \ {j} /\ jobAgent[j] \in Agents
        /\ pc' = [pc EXCEPT ![w] = "lock"] /\ taskJob' = [taskJob EXCEPT ![w] = j]
        /\ UNCHANGED <<agentStatus, jobAgent, turn, jobStatus, answered, reserved, cancelling,
                       dPc, dKind, held>>
    BY <1>8, <1>b DEF StartResume, Goto, TaskInv, RowOK
  <2>2. ReservedInv' /\ GhostInv' /\ FlowInv'
    BY <2>1
  <2>3. AnswerInv'
    BY <1>b, <2>1 DEF RowOK
  <2> QED
    BY <2>1, <2>2, <2>3
<1>9. ASSUME NEW j \in Jobs, Stop(j) PROVE WakeInv'
  <2>1. /\ Stopped(j, "cancelled")
        /\ UNCHANGED <<jobAgent, cancelling, calling, dPc, dKind, held>>
    BY <1>9 DEF Stop
  <2>2. /\ turn' = [turn EXCEPT ![j] = "ended"] /\ jobStatus' = [jobStatus EXCEPT ![j] = "cancelled"]
        /\ \A w \in Tasks : \/ pc'[w] = pc[w] /\ taskJob'[w] = taskJob[w]
                            \/ pc[w] = "drive" /\ taskJob[w] = j /\ pc'[w] = "off"
        /\ jobAgent[j] \in Agents
    BY <2>1, StoppedDoes
  <2>3. /\ answered' = answered \ {j}
        /\ reserved' = reserved \ {a \in Agents : Pump(a) \in Drivers(j)}
        /\ agentStatus' = IF turn[j] \in Open
                          THEN [agentStatus EXCEPT ![jobAgent[j]] = "idle"] ELSE agentStatus
    BY <2>1 DEF Stopped
  <2>4. GhostInv'
    BY <2>1, <2>2, <2>3
  <2>5. ReservedInv'
    BY <2>2, <2>3 DEF Drivers
  <2>6. AnswerInv'
    <3> SUFFICES ASSUME NEW i \in answered', turn'[i] = "waiting"
                 PROVE  \/ i \in calling
                        \/ LET w == Resume(jobAgent[i]) IN pc'[w] \in {"lock", "slot"} /\ taskJob'[w] = i
      BY <2>1
    <3>1. i \in answered /\ i # j /\ turn[i] = "waiting" /\ jobAgent[i] \in Agents
      BY <1>b, <2>2, <2>3 DEF RowOK
    <3> QED
      BY <2>2, <3>1
  <2>7. FlowInv'
    BY <2>1, <2>2
  <2> QED
    BY <2>1, <2>4, <2>5, <2>6, <2>7
<1>10. ASSUME NEW a \in Agents, PumpCheck(a) PROVE WakeInv'
  <2>1. /\ pc[Pump(a)] \in {"check", "lock"} /\ \E p \in {"rest", "next"} : pc' = [pc EXCEPT ![Pump(a)] = p]
        /\ UNCHANGED <<agentStatus, jobAgent, turn, jobStatus, answered, reserved, cancelling,
                       taskJob, calling, dPc, dKind, held>>
    BY <1>10 DEF PumpCheck, AtHead, Goto
  <2>2. AnswerInv'
    BY <1>b, <2>1 DEF RowOK
  <2> QED
    BY <2>1, <2>2
<1>11. ASSUME NEW a \in Agents, PumpNext(a) PROVE WakeInv'
  <2>1. /\ pc[Pump(a)] = "next" /\ \E p \in {"rest", "reserve"} : pc' = [pc EXCEPT ![Pump(a)] = p]
        /\ \A w \in Tasks \ {Pump(a)} : taskJob'[w] = taskJob[w]
        /\ UNCHANGED <<agentStatus, jobAgent, turn, jobStatus, answered, reserved, cancelling,
                       calling, dPc, dKind, held>>
    BY <1>11 DEF PumpNext, Goto
  <2>2. AnswerInv'
    BY <1>b, <2>1 DEF RowOK
  <2> QED
    BY <2>1, <2>2
<1>12. ASSUME NEW a \in Agents, PumpReserve(a) PROVE WakeInv'
  <2>1. /\ pc[Pump(a)] = "reserve"
        /\ \/ pc' = [pc EXCEPT ![Pump(a)] = "rest"] /\ reserved' = reserved
           \/ pc' = [pc EXCEPT ![Pump(a)] = "slot"] /\ reserved' = reserved \cup {a}
        /\ \A w \in Tasks \ {Pump(a)} : taskJob'[w] = taskJob[w]
        /\ UNCHANGED <<agentStatus, jobAgent, turn, jobStatus, answered, cancelling,
                       calling, dPc, dKind, held>>
    BY <1>12 DEF PumpReserve, Goto
  <2>2. AnswerInv'
    BY <1>b, <2>1 DEF RowOK
  <2> QED
    BY <2>1, <2>2
<1>13. ASSUME NEW a \in Agents, PumpRest(a) PROVE WakeInv'
  <2>1. /\ pc[Pump(a)] = "rest" /\ \E p \in {"check", "off"} : pc' = [pc EXCEPT ![Pump(a)] = p]
        /\ UNCHANGED <<agentStatus, jobAgent, turn, jobStatus, answered, reserved, cancelling,
                       taskJob, calling, dPc, dKind, held>>
    BY <1>13 DEF PumpRest, Goto
  <2>2. AnswerInv'
    BY <1>b, <2>1 DEF RowOK
  <2> QED
    BY <2>1, <2>2
<1>14. ASSUME NEW a \in Agents, PumpClaim(a) PROVE WakeInv'
  <2> DEFINE j == taskJob[Pump(a)]
  <2>1. /\ pc[Pump(a)] = "slot" /\ j \in Jobs
        /\ UNCHANGED <<jobAgent, taskJob, calling, dPc, answered, reserved, cancelling, dKind, held>>
    BY <1>14, PumpClaimDoes DEF PumpClaim
  <2>2. \/ /\ j \in QueuedOn(a)
           /\ turn' = [turn EXCEPT ![j] = "running"] /\ jobStatus' = [jobStatus EXCEPT ![j] = "started"]
           /\ agentStatus' = [agentStatus EXCEPT ![a] = "running"]
           /\ pc' = [pc EXCEPT ![Pump(a)] = "drive"]
        \/ UNCHANGED <<turn, jobStatus, agentStatus>> /\ pc' = [pc EXCEPT ![Pump(a)] = "after"]
    BY <1>14 DEF PumpClaim, Goto
  <2> HIDE DEF j
  <2>3. j \in QueuedOn(a) => jobAgent[j] = a /\ turn[j] = "queued" /\ jobStatus[j] = "queued"
    BY <1>b, <2>1 DEF QueuedOn, RowOK
  <2>4. GhostInv'
    BY <2>1, <2>2, <2>3
  <2>5. AnswerInv'
    BY <1>b, <2>1, <2>2, <2>3 DEF RowOK
  <2>6. FlowInv' /\ ReservedInv'
    BY <2>1, <2>2, <2>3
  <2> QED
    BY <2>1, <2>4, <2>5, <2>6
<1>15. ASSUME NEW a \in Agents, PumpAfter(a) PROVE WakeInv'
  <2> DEFINE f == [pc EXCEPT ![Pump(a)] = "check"]
  <2>1. /\ pc' = AfterKicks(OpenSlots(a), f) /\ reserved' = reserved \ {a}
        /\ \A w \in Tasks \ {Pump(a)} : taskJob'[w] = taskJob[w]
        /\ UNCHANGED <<agentStatus, jobAgent, turn, jobStatus, answered, cancelling,
                       calling, dPc, dKind, held>>
    BY <1>15 DEF PumpAfter
  <2>2. \A w \in Tasks : f[w] = IF w = Pump(a) THEN "check" ELSE pc[w]
    OBVIOUS
  <2> HIDE DEF f
  <2>3. \A w \in Tasks : pc'[w] = f[w] \/ (w[1] = "pump" /\ f[w] = "off" /\ pc'[w] = "lock")
    BY <2>1, Kicks
  <2>4. ReservedInv'
    BY <2>1, <2>2, <2>3
  <2>5. AnswerInv'
    BY <1>b, <2>1, <2>2, <2>3 DEF RowOK
  <2> QED
    BY <2>1, <2>4, <2>5
<1>16. ASSUME NEW a \in Agents, ResumeLock(a) PROVE WakeInv'
  <2>1. /\ pc[Resume(a)] = "lock" /\ pc' = [pc EXCEPT ![Resume(a)] = "slot"]
        /\ UNCHANGED <<agentStatus, jobAgent, turn, jobStatus, answered, reserved, cancelling,
                       taskJob, calling, dPc, dKind, held>>
    BY <1>16 DEF ResumeLock, Goto
  <2>2. AnswerInv'
    BY <1>b, <2>1 DEF RowOK
  <2> QED
    BY <2>1, <2>2
<1>17. ASSUME NEW a \in Agents, ResumeClaim(a) PROVE WakeInv'
  <2> DEFINE j == taskJob[Resume(a)]
  <2>1. /\ pc[Resume(a)] = "slot" /\ j \in Jobs /\ jobAgent[j] = a
        /\ UNCHANGED <<jobAgent, jobStatus, reserved, answered, cancelling, taskJob, calling, dPc, dKind, held>>
    BY <1>17, <1>b DEF ResumeClaim, TaskInv, TaskOK
  <2>2. CASE turn[j] \in Open
    <3>1. /\ turn' = [turn EXCEPT ![j] = "running"]
          /\ agentStatus' = agentStatus \/ agentStatus' = [agentStatus EXCEPT ![a] = "running"]
          /\ pc' = [pc EXCEPT ![Resume(a)] = "drive"]
      BY <1>17, <2>2 DEF ResumeClaim, Goto
    <3> HIDE DEF j
    <3>2. GhostInv'
      BY <2>1, <2>2, <3>1
    <3>3. AnswerInv'
      <4> SUFFICES ASSUME NEW i \in answered, turn'[i] = "waiting"
                   PROVE  \/ i \in calling
                          \/ LET w == Resume(jobAgent[i]) IN pc'[w] \in {"lock", "slot"} /\ taskJob[w] = i
        BY <2>1
      <4>1. i # j /\ turn[i] = "waiting" /\ jobAgent[i] \in Agents
        BY <1>b, <2>1, <3>1 DEF RowOK
      <4>2. jobAgent[i] # a
        BY <1>b, <2>1, <2>2, <4>1 DEF SerialInv
      <4> QED
        BY <2>1, <3>1, <4>1, <4>2
    <3>4. ReservedInv' /\ FlowInv'
      BY <2>1, <3>1
    <3> QED
      BY <2>1, <3>2, <3>3, <3>4
  <2>3. CASE turn[j] \notin Open
    <3>1. UNCHANGED <<turn, agentStatus>> /\ pc' = [pc EXCEPT ![Resume(a)] = "after"]
      BY <1>17, <2>3 DEF ResumeClaim, Goto
    <3> HIDE DEF j
    <3>2. AnswerInv'
      <4> SUFFICES ASSUME NEW i \in answered, turn[i] = "waiting"
                   PROVE  \/ i \in calling
                          \/ LET w == Resume(jobAgent[i]) IN pc'[w] \in {"lock", "slot"} /\ taskJob[w] = i
        BY <2>1, <3>1
      <4>1. i # j /\ jobAgent[i] \in Agents
        BY <1>b, <2>3 DEF RowOK
      <4>2. jobAgent[i] = a => taskJob[Resume(jobAgent[i])] # i
        BY <4>1 DEF j
      <4> QED
        BY <2>1, <3>1, <4>1, <4>2
    <3> QED
      BY <2>1, <3>1, <3>2
  <2> QED
    BY <2>2, <2>3
<1>18. ASSUME NEW a \in Agents, ResumeAfter(a) PROVE WakeInv'
  <2>1. /\ pc[Resume(a)] = "after" /\ pc' = [pc EXCEPT ![Resume(a)] = "off"]
        /\ \A w \in Tasks \ {Resume(a)} : taskJob'[w] = taskJob[w]
        /\ UNCHANGED <<agentStatus, jobAgent, turn, jobStatus, answered, reserved, cancelling,
                       calling, dPc, dKind, held>>
    BY <1>18 DEF ResumeAfter, Goto
  <2>2. AnswerInv'
    BY <1>b, <2>1 DEF RowOK
  <2> QED
    BY <2>1, <2>2
<1>19. ASSUME NEW a \in Agents, Release(a) PROVE WakeInv'
  <2> DEFINE S == {a} \cup OpenSlots(a)
  <2>1. /\ pc' = AfterKicks(S, pc) /\ again' = again \cup Woken(S)
        /\ UNCHANGED <<agentStatus, jobAgent, turn, jobStatus, answered, reserved, cancelling,
                       taskJob, calling, dPc, dKind, held>>
    BY <1>19 DEF Release
  <2> HIDE DEF S
  <2>2. \A b \in Agents : /\ pc[Pump(b)] \in {"slot", "drive", "after"} => pc'[Pump(b)] = pc[Pump(b)]
                          /\ pc'[Resume(b)] = pc[Resume(b)]
    BY <2>1, KicksRouse
  <2>3. AnswerInv'
    BY <1>b, <2>1, <2>2 DEF RowOK
  <2> QED
    BY <2>1, <2>2, <2>3
<1>20. ASSUME NEW w \in Tasks, NEW how \in Outcomes, DriveEnds(w, how) PROVE WakeInv'
  <2> DEFINE j == taskJob[w]  a == w[2]
  <2>1. /\ j \in Jobs /\ turn[j] = "running" /\ pc[w] = "drive" /\ pc' = [pc EXCEPT ![w] = "after"]
        /\ UNCHANGED <<jobAgent, dPc, taskJob, calling>>
    BY <1>20, DriveEndsDoes
  <2>2. a \in Agents /\ jobAgent[j] = a
    BY <1>b, <2>1 DEF TaskInv, TaskOK
  <2>3. /\ UNCHANGED <<reserved, cancelling, dKind, held>> /\ answered' = answered \ {j}
        /\ \/ /\ turn' = [turn EXCEPT ![j] = "waiting"]
              /\ agentStatus' = [agentStatus EXCEPT ![a] = "waiting"]
           \/ /\ turn' = [turn EXCEPT ![j] = "ended"]
              /\ \E s \in {"done", "idle"} : agentStatus' = [agentStatus EXCEPT ![a] = s]
        /\ \E s \in {"done", "failed", jobStatus[j]} : jobStatus' = [jobStatus EXCEPT ![j] = s]
    BY <1>20 DEF DriveEnds
  <2>4. jobStatus[j] # "none"
    BY <1>b, <2>1 DEF RowOK
  <2> HIDE DEF j, a
  <2>5. GhostInv'
    BY <2>1, <2>2, <2>3
  <2>6. AnswerInv'
    BY <1>b, <2>1, <2>3 DEF RowOK
  <2>7. ReservedInv' /\ FlowInv'
    BY <2>1, <2>3, <2>4
  <2> QED
    BY <2>3, <2>5, <2>6, <2>7
<1>21. ASSUME NEW a \in Agents, Expire(a) PROVE WakeInv'
  <2>1. /\ agentStatus[a] = "idle" /\ agentStatus' = [agentStatus EXCEPT ![a] = "done"]
        /\ UNCHANGED <<jobAgent, turn, jobStatus, answered, reserved, cancelling, pc, taskJob,
                       calling, dPc, dKind, held>>
    BY <1>21 DEF Expire
  <2> QED
    BY <2>1
<1>22. CASE UNCHANGED vars
  BY <1>22 DEF vars
<1> QED
  BY NoMoves, <1>c, <1>1, <1>2, <1>3, <1>4, <1>5, <1>6, <1>7, <1>8, <1>9, <1>10, <1>11,
     <1>12, <1>13, <1>14, <1>15, <1>16, <1>17, <1>18, <1>19, <1>20, <1>21, <1>22
  DEF Next, DeliveryStep, PumpStep, ResumeStep, Rest

-----------------------------------------------------------------------------
(* Whoever goes away leaves a lane that looks, a releaser, or a full cap: a   *)
(* held delivery saw the cap full, a pump that is refused counted it full,    *)
(* and a releaser wakes the lanes there is room for.                         *)
LEMMA SlotStep ==
    Steady /\ Counted /\ Scheduled /\ IInv /\ CapInv /\ WakeInv /\ SlotInv /\ [Next]_vars => SlotInv'
<1> SUFFICES ASSUME Steady, Counted, Scheduled, IInv, CapInv, WakeInv, SlotInv, [Next]_vars
             PROVE  SlotInv'
  OBVIOUS
<1>a. TypeOK /\ ShownInv /\ QuietInv
  BY DEF IInv, CapInv
<1>b. /\ TaskInv /\ SerialInv /\ \A i \in Jobs : RowOK(i)
  BY DEF IInv, RowInv, LaneInv
<1>c. ~(\E a \in Agents : CloseLane(a)) /\ ~CloseList /\ ~(\E j \in Jobs : CloseJob(j)) /\ ~CloseEnd
  BY <1>a, LanesAssumption
  DEF Counted, QuietInv, CloseLane, CloseList, CloseJob, CloseEnd, Spend, Rare, TypeOK
<1>d. TypeOK'
  BY TypeStep
<1>e. WakeInv' 
  BY WakeStep
<1>f. ASSUME Busy' PROVE SlotInv'
  BY <1>f DEF SlotInv
<1>g. ASSUME Busy => Busy', Asleep' \subseteq Asleep,
             Occupying \subseteq Occupying', Roused \subseteq (Occupying \cup Roused)'
      PROVE  SlotInv'
  BY <1>d, <1>g, CapStays
<1> USE <1>a, LanesAssumption, TaskNames DEF rows, worker, tasks, deliveries, closing
<1>1. ASSUME NEW j \in Jobs, NEW k \in Kinds, NEW a \in Agents, RouteFresh(j, k, a) PROVE SlotInv'
  <2>1. turn[j] = "none" /\ jobStatus[j] = "none" /\ k = "routine" /\ dPc[j] = "new"
    BY <1>1, <1>b DEF RouteFresh, RowOK, Scheduled
  <2>2. /\ agentStatus[a] = "none" /\ agentStatus' = [agentStatus EXCEPT ![a] = "idle"]
        /\ jobAgent' = [jobAgent EXCEPT ![j] = a] /\ dPc' = [dPc EXCEPT ![j] = "enqueue"]
        /\ UNCHANGED <<turn, jobStatus, again, pc, held, owed>>
    BY <1>1, <2>1 DEF RouteFresh
  <2>3. \A b \in Agents : /\ QueuedOn(b)' = QueuedOn(b) /\ (LaneWaits(b)' <=> LaneWaits(b))
                          /\ (Looks(b)' <=> Looks(b)) /\ (Kicked(b)' <=> Kicked(b))
    BY <2>1, <2>2 DEF QueuedOn, LaneWaits, Looks, Kicked, TypeOK
  <2>4. Occupying' = Occupying
    BY <2>2 DEF Occupying, Open, TypeOK
  <2>5. Asleep' \subseteq Asleep /\ Roused \subseteq Roused'
    BY <2>3 DEF Asleep, Roused
  <2>6. Busy => Busy'
    BY <2>2 DEF Busy
  <2> QED
    BY <1>g, <2>4, <2>5, <2>6
<1>2. ASSUME NEW j \in Jobs, NEW k \in Kinds, NEW a \in Agents, RouteTarget(j, k, a) PROVE SlotInv'
  BY <1>2 DEF RouteTarget, Scheduled
<1>3. ASSUME NEW j \in Jobs, Revive(j) PROVE SlotInv'
  BY <1>3 DEF Revive, QuietInv
<1>4. ASSUME NEW j \in Jobs, ReadCap(j) PROVE SlotInv'
  <2>1. /\ dPc[j] = "cap" /\ dPc' = [dPc EXCEPT ![j] = "kick"] /\ dKind[j] = "routine"
        /\ UNCHANGED <<agentStatus, jobAgent, turn, jobStatus, again, pc, owed>>
    BY <1>4 DEF ReadCap, WakeInv, FlowInv, TypeOK
  <2>2. Occupying' = Occupying
    BY <2>1 DEF Occupying
  <2>3. CASE OverCap
    <3>1. Occupying \subseteq (Occupying \cup Roused)' /\ Cardinality(Occupying) >= Cap
      BY <2>2, <2>3 DEF OverCap
    <3> QED
      BY <3>1, CapFull
  <2>4. CASE ~OverCap
    <3>1. held' = held
      BY <1>4, <2>4 DEF ReadCap
    <3>2. \A b \in Agents : /\ QueuedOn(b)' = QueuedOn(b) /\ (LaneWaits(b)' <=> LaneWaits(b))
                            /\ (Looks(b)' <=> Looks(b)) /\ (Kicked(b)' <=> Kicked(b))
      BY <2>1, <3>1 DEF QueuedOn, LaneWaits, Looks, Kicked, TypeOK
    <3>3. Asleep' \subseteq Asleep /\ Roused \subseteq Roused'
      BY <3>2 DEF Asleep, Roused
    <3>4. Busy => Busy'
      BY <2>1 DEF Busy
    <3> QED
      BY <1>g, <2>2, <3>3, <3>4
  <2> QED
    BY <2>3, <2>4
<1>5. ASSUME NEW j \in Jobs, Enqueue(j) PROVE SlotInv'
  <2>1. /\ dPc[j] = "enqueue" /\ dPc' = [dPc EXCEPT ![j] = "cap"] /\ turn[j] = "none"
        /\ turn' = [turn EXCEPT ![j] = "queued"] /\ jobStatus' = [jobStatus EXCEPT ![j] = "queued"]
        /\ j \notin held /\ UNCHANGED <<agentStatus, jobAgent, again, pc, held, owed>>
    BY <1>5, <1>b DEF Enqueue, RowOK, WakeInv, FlowInv, TypeOK
  <2>2. \A b \in Agents : /\ QueuedOn(b) \subseteq QueuedOn(b)' /\ (LaneWaits(b)' <=> LaneWaits(b))
                          /\ (Looks(b)' <=> Looks(b)) /\ (Kicked(b) => Kicked(b)')
                          /\ b # jobAgent[j] => QueuedOn(b)' = QueuedOn(b)
                          /\ b = jobAgent[j] => Kicked(b)'
    BY <2>1 DEF QueuedOn, LaneWaits, Looks, Kicked, TypeOK
  <2>3. Asleep' \subseteq Asleep /\ Roused \subseteq Roused'
    BY <2>2 DEF Asleep, Roused
  <2>4. Occupying' = Occupying /\ (Busy => Busy')
    BY <2>1 DEF Busy, Occupying
  <2> QED
    BY <1>g, <2>3, <2>4
<1>6. ASSUME NEW j \in Jobs, Kick(j) PROVE SlotInv'
  <2> DEFINE S == IF j \in held THEN {} ELSE {jobAgent[j]}
  <2>1. /\ pc' = AfterKicks(S, pc) /\ again' = again \cup Woken(S)
        /\ dPc' = [dPc EXCEPT ![j] = "end"] /\ held' = held \ {j}
        /\ UNCHANGED <<agentStatus, jobAgent, turn, jobStatus, owed>>
    BY <1>6 DEF Kick
  <2>2. j \notin held => jobAgent[j] \in S
    OBVIOUS
  <2> HIDE DEF S
  <2>3. \A b \in Agents :
           /\ Looks(b) => Looks(b)'
           /\ b \in S => Looks(b)' \/ pc'[Pump(b)] \in {"slot", "drive", "after"}
           /\ pc[Pump(b)] \in {"slot", "drive", "after"} => pc'[Pump(b)] = pc[Pump(b)]
           /\ pc'[Resume(b)] = pc[Resume(b)]
    BY <2>1, KicksRouse DEF WakeInv
  <2>4. \A b \in Agents : /\ QueuedOn(b)' = QueuedOn(b) /\ (LaneWaits(b)' <=> LaneWaits(b))
                          /\ Kicked(b) => Kicked(b)' \/ (b = jobAgent[j] /\ j \notin held)
    BY <2>1 DEF QueuedOn, LaneWaits, Kicked, TypeOK
  <2>5. CASE Busy'
    BY <1>f, <2>5
  <2>6. CASE ~Busy'
    <3>1. Asleep' \subseteq Asleep /\ Roused \subseteq Roused'
      BY <2>2, <2>3, <2>4, <2>6 DEF Asleep, Roused, Busy
    <3>2. Occupying' = Occupying /\ (Busy => Busy')
      BY <2>1, <2>3 DEF Busy, Occupying
    <3> QED
      BY <1>g, <3>1, <3>2
  <2> QED
    BY <2>5, <2>6
<1>7. ASSUME NEW j \in Jobs, Answer(j) PROVE SlotInv'
  <2>1. UNCHANGED <<agentStatus, jobAgent, turn, jobStatus, again, pc, owed, dPc, held>>
    BY <1>7 DEF Answer
  <2> QED
    BY <2>1 DEF SlotInv, Asleep, Roused, Busy, Occupying, QueuedOn, LaneWaits, Looks, Kicked
<1>8. ASSUME NEW j \in Jobs, StartResume(j) PROVE SlotInv'
  <2>1. jobAgent[j] \in Agents /\ pc'[Resume(jobAgent[j])] = "lock"
    BY <1>8, <1>b DEF StartResume, Goto, TaskInv, RowOK, WakeInv, TypeOK
  <2> QED
    BY <1>f, <2>1 DEF Busy
<1>9. ASSUME NEW j \in Jobs, Stop(j) PROVE SlotInv'
  BY <1>9, <1>f DEF Stop, Busy
<1>10. ASSUME NEW a \in Agents, PumpCheck(a) PROVE SlotInv'
  <2>1. /\ pc[Pump(a)] \in {"check", "lock"} /\ again' = again \ {a}
        /\ pc' = [pc EXCEPT ![Pump(a)] = IF LaneWaits(a) THEN "rest" ELSE "next"]
        /\ UNCHANGED <<agentStatus, jobAgent, turn, jobStatus, dPc, held, owed>>
    BY <1>10 DEF PumpCheck, AtHead, Goto, WakeInv
  <2>2. \A b \in Agents : /\ QueuedOn(b)' = QueuedOn(b) /\ (LaneWaits(b)' <=> LaneWaits(b))
                          /\ (Kicked(b) <=> Kicked(b)') /\ pc'[Resume(b)] = pc[Resume(b)]
                          /\ pc'[Pump(b)] = IF b # a THEN pc[Pump(b)]
                                            ELSE IF LaneWaits(a) THEN "rest" ELSE "next"
    BY <2>1 DEF QueuedOn, LaneWaits, Kicked, TypeOK
  <2>3. \A b \in Agents : (Looks(b) <=> Looks(b)') \/ (b = a /\ LaneWaits(a))
    BY <2>1, <2>2 DEF Looks
  <2>4. LaneWaits(a) => a \in Occupying
    BY DEF LaneWaits, ShownInv, Open
  <2>5. Occupying' = Occupying /\ (Busy => Busy')
    BY <2>1, <2>2 DEF Busy, Occupying
  <2>6. Asleep' \subseteq Asleep /\ Roused \subseteq (Occupying \cup Roused)'
    BY <2>2, <2>3, <2>4, <2>5 DEF Asleep, Roused
  <2> QED
    BY <1>g, <2>5, <2>6
<1>11. ASSUME NEW a \in Agents, PumpNext(a) PROVE SlotInv'
  <2>1. /\ pc[Pump(a)] = "next"
        /\ pc' = [pc EXCEPT ![Pump(a)] = IF QueuedOn(a) = {} THEN "rest" ELSE "reserve"]
        /\ UNCHANGED <<agentStatus, jobAgent, turn, jobStatus, dPc, held, owed, again>>
    BY <1>11 DEF PumpNext, Goto
  <2>2. \A b \in Agents : /\ QueuedOn(b)' = QueuedOn(b) /\ (LaneWaits(b)' <=> LaneWaits(b))
                          /\ (Kicked(b) <=> Kicked(b)') /\ pc'[Resume(b)] = pc[Resume(b)]
                          /\ pc'[Pump(b)] = IF b # a THEN pc[Pump(b)]
                                            ELSE IF QueuedOn(a) = {} THEN "rest" ELSE "reserve"
    BY <2>1 DEF QueuedOn, LaneWaits, Kicked, TypeOK
  <2>3. \A b \in Agents : (Looks(b) <=> Looks(b)') \/ QueuedOn(b) = {}
    BY <2>1, <2>2 DEF Looks
  <2>4. Occupying' = Occupying /\ (Busy => Busy')
    BY <2>1, <2>2 DEF Busy, Occupying
  <2>5. Asleep' \subseteq Asleep /\ Roused \subseteq Roused'
    BY <2>2, <2>3 DEF Asleep, Roused
  <2> QED
    BY <1>g, <2>4, <2>5
<1>12. ASSUME NEW a \in Agents, PumpReserve(a) PROVE SlotInv'
  <2>1. pc[Pump(a)] = "reserve" /\ UNCHANGED <<agentStatus, owed>>
    BY <1>12 DEF PumpReserve
  <2>2. CASE ~(Cardinality((Occupying \cup reserved) \ {a}) >= Cap)
    <3>1. pc'[Pump(a)] = "slot"
      BY <1>12, <2>2 DEF PumpReserve, Goto, TypeOK
    <3> QED
      BY <1>f, <3>1 DEF Busy
  <2>3. CASE Cardinality((Occupying \cup reserved) \ {a}) >= Cap
    <3>1. pc' = [pc EXCEPT ![Pump(a)] = "rest"] /\ reserved' = reserved
      BY <1>12, <2>3 DEF PumpReserve, Goto
    <3>2. CASE Busy'
      BY <1>f, <3>2
    <3>3. CASE ~Busy'
      <4>1. reserved = {}
        BY <1>e, <3>1, <3>3 DEF Busy, WakeInv, ReservedInv, TypeOK
      <4>2. (Occupying \cup reserved) \ {a} \subseteq (Occupying \cup Roused)'
        BY <2>1, <4>1 DEF Occupying
      <4> QED
        BY <2>3, <4>2, CapFull
    <3> QED
      BY <3>2, <3>3
  <2> QED
    BY <2>2, <2>3
<1>13. ASSUME NEW a \in Agents, PumpRest(a) PROVE SlotInv'
  <2>1. /\ pc[Pump(a)] = "rest" /\ pc' = [pc EXCEPT ![Pump(a)] = IF a \in again THEN "check" ELSE "off"]
        /\ UNCHANGED <<agentStatus, jobAgent, turn, jobStatus, dPc, held, owed, again>>
    BY <1>13 DEF PumpRest, Goto
  <2>2. \A b \in Agents : /\ QueuedOn(b)' = QueuedOn(b) /\ (LaneWaits(b)' <=> LaneWaits(b))
                          /\ (Kicked(b) <=> Kicked(b)') /\ pc'[Resume(b)] = pc[Resume(b)]
                          /\ pc'[Pump(b)] = IF b # a THEN pc[Pump(b)]
                                            ELSE IF a \in again THEN "check" ELSE "off"
    BY <2>1 DEF QueuedOn, LaneWaits, Kicked, TypeOK
  <2>3. \A b \in Agents : Looks(b) <=> Looks(b)'
    BY <2>1, <2>2 DEF Looks
  <2>4. Occupying' = Occupying /\ (Busy => Busy')
    BY <2>1, <2>2 DEF Busy, Occupying
  <2>5. Asleep' \subseteq Asleep /\ Roused \subseteq Roused'
    BY <2>2, <2>3 DEF Asleep, Roused
  <2> QED
    BY <1>g, <2>4, <2>5
<1>14. ASSUME NEW a \in Agents, PumpClaim(a) PROVE SlotInv'
  <2>1. pc'[Pump(a)] \in {"drive", "after"}
    BY <1>14, PumpClaimDoes DEF TypeOK
  <2> QED
    BY <1>f, <2>1 DEF Busy
<1>h. ASSUME NEW a \in Agents, NEW T, UNCHANGED <<agentStatus, jobAgent, turn, jobStatus, dPc, held>>,
             ~Busy', reserved \subseteq {a}, T \subseteq Agents,
             OpenSlots(a) \subseteq T, \A b \in T \cup {a} : Looks(b)'
      PROVE  SlotInv'
  <2>1. \A b \in Agents : /\ QueuedOn(b)' = QueuedOn(b) /\ (LaneWaits(b)' <=> LaneWaits(b))
    BY <1>h DEF QueuedOn, LaneWaits
  <2>2. Occupying' = Occupying
    BY <1>h DEF Occupying
  <2>3. CASE Asleep' = {}
    BY <2>3 DEF SlotInv
  <2>4. CASE Asleep' # {}
    <3>1. PICK b \in Agents : QueuedOn(b) # {} /\ ~LaneWaits(b) /\ ~Looks(b)'
      BY <2>1, <2>4 DEF Asleep
    <3>2. b \notin T \cup {a}
      BY <1>h, <3>1
    <3>3. agentStatus[b] \notin Open
      <4>1. ASSUME agentStatus[b] \in Open PROVE FALSE
        <5>1. PICK i \in Jobs : jobAgent[i] = b /\ turn[i] \in Open
          BY <4>1 DEF WakeInv, GhostInv, Occupying, OpenTurns
        <5>2. turn'[i] = "running" /\ i \in Jobs
          BY <1>h, <3>1, <5>1 DEF LaneWaits, Open
        <5>3. TaskInv'
          BY TasksStep
        <5>4. \E w \in Tasks : pc'[w] = "drive"
          BY <5>2, <5>3 DEF TaskInv, DrivenInv
        <5>5. \E c \in Agents : pc'[Pump(c)] = "drive" \/ pc'[Resume(c)] = "drive"
          BY <5>4
        <5> QED
          BY <1>h, <5>5 DEF Busy
      <4> QED
        BY <4>1
    <3>4. b \in Sleeping(a)
      BY <1>h, <3>1, <3>2, <3>3 DEF Sleeping
    <3>5. b \notin OpenSlots(a)
      BY <1>h, <3>2
    <3>6. Cardinality(Occupying \cup OpenSlots(a)) >= Cap
      BY <3>4, <3>5, SlotsFill
    <3>7. OpenSlots(a) \subseteq Roused'
      <4>1. \A c \in OpenSlots(a) : c \in Agents /\ QueuedOn(c) # {}
        BY DEF OpenSlots, Sleeping
      <4> QED
        BY <1>h, <2>1, <4>1 DEF Roused
    <3>8. Occupying \cup OpenSlots(a) \subseteq (Occupying \cup Roused)'
      BY <2>2, <3>7
    <3> QED
      BY <3>6, <3>8, CapFull
  <2> QED
    BY <2>3, <2>4
<1>15. ASSUME NEW a \in Agents, PumpAfter(a) PROVE SlotInv'
  <2> DEFINE f == [pc EXCEPT ![Pump(a)] = "check"]
  <2>1. /\ pc' = AfterKicks(OpenSlots(a), f) /\ reserved' = reserved \ {a}
        /\ again' = again \cup Woken(OpenSlots(a))
        /\ UNCHANGED <<agentStatus, jobAgent, turn, jobStatus, dPc, held>>
    BY <1>15 DEF PumpAfter
  <2>2. \A w \in Tasks : f[w] = IF w = Pump(a) THEN "check" ELSE pc[w]
    BY DEF TypeOK
  <2> HIDE DEF f
  <2>3. CASE Busy'
    BY <1>f, <2>3
  <2>4. CASE ~Busy'
    <3>1. \A b \in Agents : pc'[Pump(b)] \notin {"slot", "drive", "after"}
      BY <2>4 DEF Busy
    <3>2. reserved \subseteq {a}
      BY <1>e, <2>1, <3>1 DEF WakeInv, ReservedInv, TypeOK
    <3>3. Looks(a)'
      <4>1. pc'[Pump(a)] = "check"
        BY <2>1, <2>2 DEF AfterKicks
      <4> QED
        BY <4>1 DEF Looks
    <3>4. ASSUME NEW b \in OpenSlots(a) PROVE Looks(b)'
      <4>1. b \in Agents /\ b # a /\ b \in Woken(OpenSlots(a))
        BY OpenSlotsAgents DEF OpenSlots, Sleeping, Woken, WakeInv
      <4>2. f[Pump(b)] = pc[Pump(b)]
        BY <2>2, <4>1 DEF Pump
      <4>3. pc'[Pump(b)] = IF pc[Pump(b)] = "off" THEN "lock" ELSE pc[Pump(b)]
        BY <2>1, <4>1, <4>2 DEF AfterKicks
      <4>4. b \in again'
        BY <2>1, <4>1
      <4>5. pc[Pump(b)] \in {"off", "lock", "check", "next", "reserve", "rest", "slot", "drive",
                             "after"}
        BY <4>1 DEF TypeOK
      <4> QED
        BY <3>1, <4>1, <4>3, <4>4, <4>5 DEF Looks
    <3> QED
      BY <1>h, <2>1, <2>4, <3>2, <3>3, <3>4, OpenSlotsAgents
  <2> QED
    BY <2>3, <2>4
<1>16. ASSUME NEW a \in Agents, ResumeLock(a) PROVE SlotInv'
  <2>1. pc'[Resume(a)] = "slot"
    BY <1>16 DEF ResumeLock, Goto, WakeInv, TypeOK
  <2> QED
    BY <1>f, <2>1 DEF Busy
<1>17. ASSUME NEW a \in Agents, ResumeClaim(a) PROVE SlotInv'
  <2>1. pc'[Resume(a)] \in {"drive", "after"}
    BY <1>17 DEF ResumeClaim, Goto, TypeOK
  <2> QED
    BY <1>f, <2>1 DEF Busy
<1>18. ASSUME NEW a \in Agents, ResumeAfter(a) PROVE SlotInv'
  BY <1>18, <1>f DEF ResumeAfter, Busy
<1>19. ASSUME NEW a \in Agents, Release(a) PROVE SlotInv'
  <2> DEFINE S == {a} \cup OpenSlots(a)
  <2>1. /\ pc' = AfterKicks(S, pc) /\ again' = again \cup Woken(S)
        /\ UNCHANGED <<agentStatus, jobAgent, turn, jobStatus, dPc, held, reserved>>
    BY <1>19 DEF Release
  <2>2. S \subseteq Agents /\ OpenSlots(a) \subseteq S /\ a \in S
    BY OpenSlotsAgents
  <2> HIDE DEF S
  <2>3. CASE Busy'
    BY <1>f, <2>3
  <2>4. CASE ~Busy'
    <3>1. \A b \in Agents : pc'[Pump(b)] \notin {"slot", "drive", "after"}
      BY <2>4 DEF Busy
    <3>2. reserved \subseteq {a}
      BY <1>e, <2>1, <3>1 DEF WakeInv, ReservedInv, TypeOK
    <3>3. \A b \in S : Looks(b)'
      BY <2>1, <2>2, <3>1, KicksRouse DEF WakeInv
    <3> QED
      BY <1>h, <2>1, <2>2, <2>4, <3>2, <3>3
  <2> QED
    BY <2>3, <2>4
<1>20. ASSUME NEW w \in Tasks, NEW how \in Outcomes, DriveEnds(w, how) PROVE SlotInv'
  <2>1. pc'[w] = "after"
    BY <1>20, DriveEndsDoes DEF TypeOK
  <2>2. w = Pump(w[2]) \/ w = Resume(w[2])
    OBVIOUS
  <2> QED
    BY <1>f, <2>1, <2>2 DEF Busy
<1>21. ASSUME NEW a \in Agents, Expire(a) PROVE SlotInv'
  <2>1. /\ agentStatus[a] = "idle" /\ agentStatus' = [agentStatus EXCEPT ![a] = "done"]
        /\ UNCHANGED <<jobAgent, turn, jobStatus, again, pc, owed, dPc, held>>
    BY <1>21 DEF Expire
  <2>2. Occupying' = Occupying
    BY <2>1 DEF Occupying, Open, TypeOK
  <2> QED
    BY <2>1, <2>2 DEF SlotInv, Asleep, Roused, Busy, QueuedOn, LaneWaits, Looks, Kicked
<1>22. CASE UNCHANGED vars
  BY <1>22 DEF vars, SlotInv, Asleep, Roused, Busy, Occupying, QueuedOn, LaneWaits, Looks, Kicked
<1> QED
  BY NoMoves, <1>c, <1>1, <1>2, <1>3, <1>4, <1>5, <1>6, <1>7, <1>8, <1>9, <1>10, <1>11,
     <1>12, <1>13, <1>14, <1>15, <1>16, <1>17, <1>18, <1>19, <1>20, <1>21, <1>22
  DEF Next, DeliveryStep, PumpStep, ResumeStep, Rest

-----------------------------------------------------------------------------
(* At the start no lane has work.                                            *)
LEMMA WakeInit == Init => WakeInv /\ SlotInv
<1> SUFFICES ASSUME Init PROVE WakeInv /\ SlotInv
  OBVIOUS
<1>1. WakeInv
  BY TaskNames
  DEF Init, WakeInv, GhostInv, ReservedInv, FlowInv, AnswerInv, Occupying, Open
<1>2. Asleep = {}
  BY DEF Init, Asleep, QueuedOn
<1> QED
  BY <1>1, <1>2 DEF SlotInv

(* At rest nobody is about to release, look or kick: the cap is full.         *)
LEMMA WakeMeans ==
    ASSUME IInv, CapInv, WakeInv, SlotInv, Idle PROVE NothingSleeps
<1>1. /\ \A a \in Agents : pc[Pump(a)] = "off" /\ pc[Resume(a)] = "off"
      /\ owed = {} /\ calling = {} /\ \A j \in Jobs : dPc[j] \in {"new", "end"}
  BY TaskNames DEF Idle
<1>2. ~Busy /\ Roused = {} /\ \A b \in Agents : ~Looks(b) /\ ~Kicked(b)
  BY <1>1 DEF Busy, Roused, Looks, Kicked
<1>3. ASSUME NEW a \in Agents, QueuedOn(a) # {}, ~LaneWaits(a) PROVE OverCap
  <2>1. a \in Asleep
    BY <1>2, <1>3 DEF Asleep
  <2>2. Cardinality(Occupying \cup Roused) >= Cap
    BY <1>2, <2>1 DEF SlotInv
  <2> QED
    BY <1>2, <2>2 DEF OverCap
<1>4. ASSUME NEW j \in answered, turn[j] = "waiting" PROVE FALSE
  <2>1. j \in Jobs /\ jobAgent[j] \in Agents
    BY <1>4 DEF IInv, RowInv, RowOK, TypeOK, Open
  <2> QED
    BY <1>1, <1>4, <2>1 DEF WakeInv, AnswerInv
<1> QED
  BY <1>3, <1>4 DEF NothingSleeps, NoSleepingWork

(* When everything has come to rest no queued job of a lane was forgotten:    *)
(* its lane is paused or the cap is full, and no paused turn with all its     *)
(* approvals waits on (_over_cap, kick, _pump, _open_slots, _release,         *)
(* start_resume). Deliveries that read the cap before their job is stored     *)
(* are left out: they can be forgotten (MCLanesHeld).                        *)
THEOREM NothingStaysAsleep == Steady /\ Counted /\ Scheduled => (Spec => []NothingSleeps)
<1> SUFFICES ASSUME Steady, Counted, Scheduled PROVE Spec => []NothingSleeps
  OBVIOUS
<1>1. Init => CapInv /\ WakeInv /\ SlotInv
  BY CapInit, WakeInit
<1>2. ASSUME IInv, CapInv, WakeInv, SlotInv PROVE NothingSleeps
  <2>1. CASE Idle
    BY <1>2, <2>1, WakeMeans
  <2>2. CASE ~Idle
    BY <2>2 DEF NothingSleeps, NoSleepingWork
  <2> QED
    BY <2>1, <2>2
<1>3. IInv /\ IInv' /\ CapInv /\ WakeInv /\ SlotInv /\ [Next]_vars
        => (CapInv /\ WakeInv /\ SlotInv)'
  BY CapStep, WakeStep, SlotStep
<1>4. Spec => []IInv
  BY LanesInductive
<1>5. Spec => [](IInv /\ CapInv /\ WakeInv /\ SlotInv)
  BY <1>1, <1>3, <1>4, PTL DEF Spec
<1> QED
  BY <1>2, <1>5, PTL
=============================================================================
