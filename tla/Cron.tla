-------------------------------- MODULE Cron --------------------------------
(***************************************************************************)
(* The five-field schedules of routines: parsing a field, the rule for the  *)
(* two day fields, the next run after an instant on the wall clock of a     *)
(* zone whose offset changes once (a gap or a fold of the wall clock), and  *)
(* the count of the runs ahead, which walks from run to run.                *)
(*                                                                         *)
(* The calendar is scaled down: a day has Hours hours of Mins minutes and   *)
(* Calendar gives the month, day of month and weekday of each day.          *)
(***************************************************************************)
EXTENDS Integers, FiniteSets, FiniteSetsExt

CONSTANTS
    Hours, Mins,     \* length of a day and of an hour
    Calendar,        \* day number -> <<month, day, weekday>>, weekday 0 is Sunday
    Week, Months, MonthDays,  \* highest weekday, month and day of month
    Longest,         \* month -> its most days in any year
    Zones,           \* [at, before, after]: the offset changes at the instant `at`
    RawSpecs,        \* records of five raw fields
    LastInstant,     \* the end of the window that is counted
    RunLimit         \* limit: the most runs that are counted

None == -1000
DayMins == Hours * Mins
Days == DOMAIN Calendar
Instants == 0..LastInstant

(* A raw field is a set of items [base, from, to, step]: base "*", "a-b" or   *)
(* "a"; step 0 when it is not written. An invalid field has no value.        *)
Item(it, low, high) ==
    LET start == IF it.base = "*" THEN low ELSE it.from
        stop  == CASE it.base = "*" -> high
                   [] it.base = "a-b" -> it.to
                   [] OTHER -> IF it.step > 0 THEN high ELSE start
        step  == IF it.step = 0 THEN 1 ELSE it.step
    IN IF start < low \/ stop > high \/ start > stop THEN {}
       ELSE {v \in start..stop : (v - start) % step = 0}

Field(raw, low, high) ==
    IF \E it \in raw : Item(it, low, high) = {} THEN {}
    ELSE UNION {Item(it, low, high) : it \in raw}

AnyOf(raw) == \A it \in raw : it.base = "*"    \* raw.startswith("*")

Parse(raw) ==
    [minutes  |-> Field(raw.minute, 0, Mins - 1),
     hours    |-> Field(raw.hour, 0, Hours - 1),
     days     |-> Field(raw.day, 1, MonthDays),
     months   |-> Field(raw.month, 1, Months),
     weekdays |-> {v % Week : v \in Field(raw.weekday, 0, Week)},
     daysAny  |-> AnyOf(raw.day),
     weekdaysAny |-> AnyOf(raw.weekday)]

(* False for a date that never exists.                                       *)
CanMatch(s) ==
    ~s.daysAny /\ s.weekdaysAny =>
        \E d \in s.days, m \in s.months : d <= Longest[m]

Valid(s) ==
    /\ {} \notin {s.minutes, s.hours, s.days, s.months, s.weekdays}
    /\ CanMatch(s)

-----------------------------------------------------------------------------
(* When either day field starts with "*" both must match, else either one.   *)
DayMatches(s, day) ==
    LET byDate == Calendar[day][2] \in s.days
        byWeekday == Calendar[day][3] \in s.weekdays
    IN /\ Calendar[day][1] \in s.months
       /\ IF s.daysAny \/ s.weekdaysAny THEN byDate /\ byWeekday
          ELSE byDate \/ byWeekday

Local(z, u) == u + (IF u < z.at THEN z.before ELSE z.after)   \* astimezone

WallTimes == 0 .. Cardinality(Days) * DayMins - 1

(* The calendar covers the window, and the window both runs of a fold.       *)
ASSUME CronAssumption ==
    /\ LastInstant \in Nat /\ Cardinality(Days) * DayMins \in Nat
    /\ \A z \in Zones :
          /\ z.at \in Int /\ z.before \in Int /\ z.after \in Int
          /\ z.before - z.after <= z.at
          /\ \A u \in Instants : Local(z, u) \in WallTimes
    /\ \A w \in WallTimes : w \div DayMins \in Days

(* The instant of a wall time: the first of two, none of a skipped one.      *)
Wall(z, w) ==
    LET first == IF w - z.before < z.at \/ w - z.after < z.at
                 THEN w - z.before ELSE w - z.after      \* fold = 0
    IN IF Local(z, first) = w THEN first ELSE None

Matches(s, w) ==
    /\ w \div DayMins \in Days /\ DayMatches(s, w \div DayMins)
    /\ (w % DayMins) \div Mins \in s.hours /\ w % Mins \in s.minutes

(* Faulty variant: what the wall clock says is not compared with `after`.    *)
NextAfterWall(s, after, z) ==
    LET found == {w \in WallTimes : w > Local(z, after) /\ Matches(s, w) /\ Wall(z, w) # None}
    IN IF found = {} THEN None ELSE Wall(z, Min(found))

(* The search: wall times from the next minute on, day by day, hour by hour, *)
(* the first one whose instant exists and is after `after`.                  *)
NextAfter(s, after, z) ==
    LET found == {w \in WallTimes : w > Local(z, after) /\ Matches(s, w) /\ Wall(z, w) > after}
    IN IF found = {} THEN None ELSE Wall(z, Min(found))

-----------------------------------------------------------------------------
(* runs_between: count the runs in (start, LastInstant].                     *)
VARIABLES spec, zone, start, cursor, count

cronVars == <<spec, zone, start, cursor, count>>

CountInit ==
    /\ spec \in {s \in {Parse(raw) : raw \in RawSpecs} : Valid(s)}
    /\ zone \in Zones /\ start \in Instants
    /\ cursor = start /\ count = 0

CountRun ==
    LET found == NextAfter(spec, cursor, zone)
    IN /\ count < RunLimit /\ found # None /\ found <= LastInstant
       /\ cursor' = found /\ count' = count + 1
       /\ UNCHANGED <<spec, zone, start>>

CountNext == CountRun

CountSpec == CountInit /\ [][CountNext]_cronVars

-----------------------------------------------------------------------------
(* The instants that run by the documentation: the wall clock matches, the    *)
(* day by cron's rule, and the same wall time did not come before.           *)
RunsAt(u) ==
    LET w == Local(zone, u) day == w \div DayMins IN
    /\ (w % DayMins) \div Mins \in spec.hours /\ w % Mins \in spec.minutes
    /\ Calendar[day][1] \in spec.months
    /\ \/ Calendar[day][2] \in spec.days /\ Calendar[day][3] \in spec.weekdays
       \/ /\ ~spec.daysAny /\ ~spec.weekdaysAny
          /\ Calendar[day][2] \in spec.days \/ Calendar[day][3] \in spec.weekdays
    /\ \A v \in Instants : v < u => Local(zone, v) # w

(* Walking from run to run meets every run of the window once, also across a  *)
(* gap or a fold of the wall clock ("a wall time that daylight saving skips   *)
(* does not run that day; a wall time that happens twice runs once, at the    *)
(* first occurrence").                                                       *)
CountsEveryRun ==
    /\ count = Cardinality({u \in start + 1 .. cursor : RunsAt(u)})
    /\ LET found == NextAfter(spec, cursor, zone) IN
       \A u \in cursor + 1 .. LastInstant : RunsAt(u) => found # None /\ found <= u
=============================================================================
