----------------------------- MODULE MCSchedules ----------------------------
(***************************************************************************)
(* Schedules and money, for TLC: the routine sweep with its budgets, the    *)
(* cron arithmetic it takes its slots from, the overview that reports both, *)
(* and the pages that share metrics. The parts share no state: `part` is    *)
(* chosen at the start, the variables of the others keep their first values. *)
(* They are extended, so that their assumptions are evaluated and their      *)
(* theorems speak of this run.                                              *)
(***************************************************************************)
EXTENDS Integers, FiniteSets, Routines, Cron, Metrics, Fleet

CONSTANTS routine, turn1, turn2, ask

VARIABLE part

-----------------------------------------------------------------------------
(* One routine's schedules: every minute, or once.                           *)
Slots == {{1, 2, 3}, {2}}

(* Days of four hours of two minutes, two months of three days, a week of    *)
(* three days (0 and 3 are Sunday); the clock jumps an hour on the second    *)
(* day, either way.                                                         *)
Every == {[base |-> "*", from |-> 0, to |-> 0, step |-> 0]}
EveryNth(n) == {[base |-> "*", from |-> 0, to |-> 0, step |-> n]}
At(n) == {[base |-> "a", from |-> n, to |-> 0, step |-> 0]}
Through(a, b) == {[base |-> "a-b", from |-> a, to |-> b, step |-> 1]}

SixDays == [d \in 0 .. 5 |-> <<1 + d \div 3, 1 + (d % 3), d % 3>>]
ThreeOrFour == [m \in 1 .. 2 |-> 2 + m]
Jumps == {[at |-> 11, before |-> 0, after |-> o] : o \in {2, -2}}
Raw == [minute : {Every, At(1)}, hour : {EveryNth(3), At(1) \cup Through(2, 3)},
        day : {Every, EveryNth(2), At(2), At(4)}, month : {Every, At(1)},
        weekday : {Every, At(1), At(3)}]

(* The walk of the parts that do not walk: over an empty window.             *)
NoWalk ==
    /\ start = LastInstant /\ zone.after = 2
    /\ spec.minutes = {1} /\ spec.hours = {0, 3} /\ spec.months = {1}
    /\ spec.days = 1 .. 4 /\ spec.daysAny /\ spec.weekdaysAny

(* A bot with one lane and one routine, two turns and one request.           *)
BotOfAgent == [a1 |-> "b1"]
RoutineOfJob == [j1 |-> "r1"]
BotOfRoutine == [r1 |-> "b1"]
SlotsOfRoutine == [r1 |-> {1, 2, 3}]
Records == {[source |-> "subscription", cost |-> 2], [source |-> "unknown", cost |-> 0],
            [source |-> "price_table", cost |-> 2], [source |-> "local", cost |-> 4]}

-----------------------------------------------------------------------------
ScheduleInit ==
    /\ part \in {"sweep", "clock", "board", "shares"}
    /\ CountInit /\ (part # "clock" => NoWalk)
    /\ Init /\ (part # "sweep" => row[routine].sched = {2})
    /\ FleetInit /\ (part # "board" => ollama.cached = "none")
    /\ MetricInit

SweepPart == part = "sweep" /\ Next /\ UNCHANGED <<part, cronVars, fleetVars, metricVars>>
ClockPart == part = "clock" /\ CountNext /\ UNCHANGED <<part, vars, fleetVars, metricVars>>
BoardPart == part = "board" /\ FleetNext /\ UNCHANGED <<part, vars, cronVars, metricVars>>
SharesPart == part = "shares" /\ MetricNext
              /\ UNCHANGED <<part, vars, cronVars, fleetVars>>

ScheduleNext == SweepPart \/ ClockPart \/ BoardPart \/ SharesPart

(* RunsOnceInBudget and DueIsServed are Routines', CountsEveryRun is Cron's,  *)
(* SharedInScope and RevokeSticks are Metrics', OverviewIsRight is Fleet's.   *)

(* Routines' Fairness: the loop's task runs whenever it is ready.            *)
ScheduleSpec ==
    /\ ScheduleInit /\ [][ScheduleNext]_<<part, vars, cronVars, fleetVars, metricVars>>
    /\ WF_vars(part = "sweep" /\ SweepStep)
=============================================================================
