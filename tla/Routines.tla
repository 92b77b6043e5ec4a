------------------------------ MODULE Routines -----------------------------
(***************************************************************************)
(* Routines: prompts a bot runs on a schedule. The host's loop sweeps: it   *)
(* applies the day's budgets, reads the due routines, and for each one      *)
(* queues the run of its slot and moves the cursor. The owner creates,      *)
(* changes, pauses, resumes and cancels routines meanwhile; turns spend;    *)
(* the host stops between any two steps and its loop starts again.          *)
(*                                                                         *)
(* The driver opens a transaction at its first write, so a block that reads *)
(* rows and then writes them is two steps, and a flush writes the columns   *)
(* that the block changed (Flush). A schedule is the set of its slots:      *)
(* module Cron says how the next one is computed.                           *)
(***************************************************************************)
EXTENDS Naturals, FiniteSets, FiniteSetsExt

CONSTANTS
    Rtns,        \* routines, each of its own bot
    Schedules,   \* sets of slots a routine may have
    Horizon,     \* bound: the last minute of the run
    DayLength,   \* minutes of a day
    BotLimit,    \* budgets.daily_usd_per_bot
    HostLimit,   \* budgets.daily_usd_host
    MaxEdits,    \* bound: calls of the owner
    MaxFaults    \* bound: failed runs and restarts of the host

Minutes == 0..Horizon
Never == Horizon + 1     \* no next_run

(* A schedule's slots are minutes.                                           *)
ASSUME RoutinesAssumption ==
    Horizon \in Nat /\ Schedules \subseteq SUBSET (0..Horizon)

VARIABLES
    clock, botPaused,
    spent,          \* priced spend since day_start, of each bot and of the others
    row,            \* the routines table
    call,           \* the owner's call between its read and its write, and its now
    occurrences,    \* <<routine, slot, moment>>: jobs by occurrence_job_id
    late,           \* history: <<routine, slot>> that a call wrote when it was past
    sweep,          \* the loop's place in run_due
    moment,         \* its now
    plan,           \* what _apply_budgets read, and what it is about to write
    breach,         \* routines it found over budget
    due,            \* <<routine, slot, following>> still to run
    inHand,         \* the one _run is at, and whether it queued the run
    edits, faults

loop == <<sweep, moment, plan, breach, due, inHand>>
world == <<clock, botPaused, spent>>
vars == <<world, row, call, occurrences, late, loop, edits, faults>>

Other == "other bots"

(* A row of the table: "none" before it is created.                          *)
Row == [status : {"none", "active", "paused", "cancelled"},
        reason : {"none", "user", "budget"}, sched : Schedules,
        next : 1..Never, last : Minutes, resumed : Minutes \cup {Never}]

TypeOK ==
    /\ clock \in Minutes /\ botPaused \subseteq Rtns
    /\ spent \in [Rtns \cup {Other} -> Nat] /\ row \in [Rtns -> Row]
    /\ call \in {<<>>} \cup (Rtns \X Row \X Row \X Minutes)
    /\ occurrences \subseteq Rtns \X Minutes \X Minutes
    /\ late \subseteq Rtns \X Minutes
    /\ sweep \in {"sleep", "budgets", "due", "run", "queue", "cursor"}
    /\ moment \in Minutes /\ plan \in {<<>>} \cup ([Rtns -> Row] \X [Rtns -> Row])
    /\ breach \subseteq Rtns /\ due \subseteq Rtns \X Minutes \X (1..Never)
    /\ inHand \in (Rtns \X Minutes \X (1..Never) \X BOOLEAN) \cup {<<>>}
    /\ edits \in Nat /\ faults \in Nat

Init ==
    /\ clock = 0 /\ botPaused = {} /\ spent = [b \in Rtns \cup {Other} |-> 0]
    /\ row \in [Rtns -> {[status |-> "none", reason |-> "none", sched |-> s,
                          next |-> Never, last |-> 0, resumed |-> Never] : s \in Schedules}]
    /\ call = <<>> /\ occurrences = {} /\ late = {}
    /\ sweep = "sleep" /\ moment = 0 /\ plan = <<>> /\ breach = {}
    /\ due = {} /\ inHand = <<>> /\ edits = 0 /\ faults = 0

DayStart(t) == (t \div DayLength) * DayLength

(* next_run is always the first slot after now.                              *)
Following(s, now) == Min({t \in s : t > now} \cup {Never})

(* What a flush leaves in a row: the columns that the block changed since it  *)
(* read the row get their new value, the others keep what they have by now.  *)
Flush(current, read, new) ==
    [c \in DOMAIN current |-> IF new[c] # read[c] THEN new[c] ELSE current[c]]

-----------------------------------------------------------------------------
(* RoutineService: a call reads the row (_open) and decides; then it writes. *)

Stands(r) == row[r].status \in {"active", "paused"}

Begin(r, new) ==
    /\ call = <<>> /\ edits < MaxEdits /\ edits' = edits + 1
    /\ call' = <<r, row[r], new, clock>>
    /\ UNCHANGED <<world, row, occurrences, late, loop, faults>>

Create(r) ==
    /\ row[r].status = "none"
    /\ Begin(r, [row[r] EXCEPT !.status = "active",
                               !.next = Following(row[r].sched, clock)])

Update(r, s) ==
    /\ Stands(r) /\ s # row[r].sched
    /\ Begin(r, [row[r] EXCEPT !.sched = s,
                               !.next = IF row[r].status = "active"
                                        THEN Following(s, clock) ELSE @])

Pause(r) ==
    /\ Stands(r)
    /\ Begin(r, [row[r] EXCEPT !.status = "paused", !.reason = "user", !.next = Never])

Resume(r) ==
    /\ Stands(r)
    /\ Begin(r, [row[r] EXCEPT !.resumed = IF row[r].reason = "budget" THEN clock ELSE @,
                               !.status = "active", !.reason = "none",
                               !.next = Following(row[r].sched, clock)])

Cancel(r) ==
    /\ Stands(r)
    /\ Begin(r, [row[r] EXCEPT !.status = "cancelled", !.reason = "none", !.next = Never])

(* The call's commit. A slot it counted from its now may have passed.        *)
Commit ==
    LET r == call[1] new == Flush(row[r], call[2], call[3])
    IN /\ call # <<>> /\ call' = <<>>
       /\ row' = [row EXCEPT ![r] = new]
       /\ late' = IF /\ new.next # row[r].next \/ new.status # row[r].status
                     /\ call[4] < new.next /\ new.next <= clock
                  THEN late \cup {<<r, new.next>>} ELSE late
       /\ UNCHANGED <<world, occurrences, loop, edits, faults>>

(* bots.update: the bot of r is paused, or runs again.                       *)
PauseBot(r) ==
    /\ edits < MaxEdits /\ edits' = edits + 1
    /\ botPaused' = IF r \in botPaused THEN botPaused \ {r} ELSE botPaused \cup {r}
    /\ UNCHANGED <<clock, spent, row, call, occurrences, late, loop, faults>>

-----------------------------------------------------------------------------
(* A minute passes, perhaps between a call's now and its commit.             *)
Tick ==
    /\ clock < Horizon /\ clock' = clock + 1
    /\ spent' = IF DayStart(clock + 1) # DayStart(clock)
                THEN [b \in DOMAIN spent |-> 0] ELSE spent
    /\ UNCHANGED <<botPaused, row, call, occurrences, late, loop, edits, faults>>

(* A turn of a bot ends with a priced cost (spend_by_bot).                   *)
Spend(b) ==
    /\ spent[b] < BotLimit /\ spent' = [spent EXCEPT ![b] = @ + 1]
    /\ UNCHANGED <<clock, botPaused, row, call, occurrences, late, loop, edits, faults>>

-----------------------------------------------------------------------------
(* run_due.                                                                 *)

(* Over the host's or the bot's budget today, and not resumed today.         *)
InBreach(r) ==
    /\ \/ MapThenSumSet(LAMBDA b : spent[b], DOMAIN spent) >= HostLimit
       \/ spent[r] >= BotLimit
    /\ ~(row[r].resumed # Never /\ row[r].resumed >= DayStart(clock))

(* What _apply_budgets makes of a row.                                       *)
Budgeted(r) ==
    CASE row[r].status = "active" /\ InBreach(r) ->
            [row[r] EXCEPT !.status = "paused", !.reason = "budget", !.next = Never]
      [] row[r].status = "paused" /\ row[r].reason = "budget" /\ ~InBreach(r) ->
            [row[r] EXCEPT !.status = "active", !.reason = "none",
                           !.next = Following(row[r].sched, clock)]
      [] OTHER -> row[r]

(* _apply_budgets reads the spend and the routines...                        *)
ReadBudgets ==
    /\ sweep = "sleep" /\ sweep' = "budgets" /\ moment' = clock
    /\ breach' = {r \in Rtns : InBreach(r)}
    /\ plan' = <<row, [r \in Rtns |-> Budgeted(r)]>>
    /\ UNCHANGED <<world, row, call, occurrences, late, due, inHand, edits, faults>>

(* ...and writes what it decided.                                            *)
WriteBudgets ==
    /\ sweep = "budgets" /\ sweep' = "due" /\ plan' = <<>>
    /\ row' = [r \in Rtns |-> Flush(row[r], plan[1][r], plan[2][r])]
    /\ UNCHANGED <<world, call, occurrences, late, moment, breach, due, inHand, edits, faults>>

(* Faulty variant: the next slot is counted from the one that is due.        *)
ReadDueFromSlot ==
    /\ sweep = "due" /\ sweep' = "run"
    /\ due' = {<<r, row[r].next, Following(row[r].sched, row[r].next)>> :
                 r \in {x \in Rtns : row[x].status = "active" /\ row[x].next <= moment}}
    /\ UNCHANGED <<world, row, call, occurrences, late, moment, plan, breach, inHand, edits, faults>>

(* The due routines, as they are now.                                        *)
ReadDue ==
    /\ sweep = "due" /\ sweep' = "run"
    /\ due' = {<<r, row[r].next, Following(row[r].sched, moment)>> :
                 r \in {x \in Rtns : row[x].status = "active" /\ row[x].next <= moment}}
    /\ UNCHANGED <<world, row, call, occurrences, late, moment, plan, breach, inHand, edits, faults>>

(* _job_exists of occurrence_job_id.                                         *)
Queued(r, slot) == \E m \in Minutes : <<r, slot, m>> \in occurrences

(* _run of the earliest: a paused bot skips the slot, and so does a run that  *)
(* is there already; otherwise a lane is spawned for it.                     *)
StartRun(d) ==
    /\ sweep = "run" /\ d \in due /\ \A e \in due : d[2] <= e[2]
    /\ due' = due \ {d} /\ inHand' = <<d[1], d[2], d[3], FALSE>>
    /\ sweep' = IF d[1] \notin botPaused /\ ~Queued(d[1], d[2]) THEN "queue" ELSE "cursor"
    /\ UNCHANGED <<world, row, call, occurrences, late, moment, plan, breach, edits, faults>>

(* queue_on_lane under the occurrence's job id.                              *)
QueueRun ==
    /\ sweep = "queue" /\ sweep' = "cursor"
    /\ occurrences' = occurrences \cup {<<inHand[1], inHand[2], moment>>}
    /\ inHand' = <<inHand[1], inHand[2], inHand[3], TRUE>>
    /\ UNCHANGED <<world, row, call, late, moment, plan, breach, due, edits, faults>>

(* The run fails before it is queued, and the sweep goes on to the next one. *)
FailRun ==
    /\ sweep = "queue" /\ sweep' = "run" /\ inHand' = <<>>
    /\ faults < MaxFaults /\ faults' = faults + 1
    /\ UNCHANGED <<world, row, call, occurrences, late, moment, plan, breach, due, edits>>

(* Faulty variant: the cursor moves only with a run that was queued.         *)
MoveCursorIfQueued ==
    LET r == inHand[1] still == row[r].next = inHand[2] /\ inHand[4]
    IN /\ sweep = "cursor" /\ sweep' = "run" /\ inHand' = <<>>
       /\ row' = IF still THEN [row EXCEPT ![r].next = inHand[3], ![r].last = moment] ELSE row
       /\ UNCHANGED <<world, call, occurrences, late, moment, plan, breach, due, edits, faults>>

(* The cursor moves on if it is still at the slot.                           *)
MoveCursor ==
    LET r == inHand[1] still == row[r].next = inHand[2]
    IN /\ sweep = "cursor" /\ sweep' = "run" /\ inHand' = <<>>
       /\ row' = IF still
                 THEN [row EXCEPT ![r].next = inHand[3],
                                  ![r].last = IF inHand[4] THEN moment ELSE @]
                 ELSE row
       /\ UNCHANGED <<world, call, occurrences, late, moment, plan, breach, due, edits, faults>>

(* The sweep is over; the loop sleeps.                                       *)
EndSweep ==
    /\ sweep = "run" /\ due = {} /\ sweep' = "sleep" /\ breach' = {} /\ moment' = 0
    /\ UNCHANGED <<world, row, call, occurrences, late, plan, due, inHand, edits, faults>>

(* The sweep fails, or the host stops; the next sweep starts afresh.         *)
Stop ==
    /\ faults < MaxFaults /\ faults' = faults + 1 /\ sweep # "sleep"
    /\ sweep' = "sleep" /\ moment' = 0 /\ plan' = <<>> /\ breach' = {}
    /\ due' = {} /\ inHand' = <<>>
    /\ UNCHANGED <<world, row, call, occurrences, late, edits>>

-----------------------------------------------------------------------------
SweepStep ==
    \/ ReadBudgets \/ WriteBudgets \/ ReadDue \/ (\E d \in due : StartRun(d))
    \/ QueueRun \/ MoveCursor \/ EndSweep

Owner ==
    \E r \in Rtns :
        \/ Create(r) \/ (\E s \in Schedules : Update(r, s))
        \/ Pause(r) \/ Resume(r) \/ Cancel(r) \/ PauseBot(r)

Next == \/ SweepStep \/ Owner \/ Commit \/ Tick \/ FailRun \/ Stop
        \/ \E b \in Rtns \cup {Other} : Spend(b)

Spec == Init /\ [][Next]_vars

(* The loop's task runs whenever it is ready; nobody has to edit or spend.   *)
Fairness == WF_vars(SweepStep)

-----------------------------------------------------------------------------
(* What a sweep queues. A routine that missed runs runs once: of two runs of *)
(* a routine the later slot comes after the sweep that queued the earlier    *)
(* one, whatever was edited or interrupted in between (run_due: "a long      *)
(* outage gives one catch-up run, not one per missed slot"). And no run is   *)
(* queued of a routine that the sweep found over budget, whatever the owner  *)
(* does between its steps (_apply_budgets, resume). The exception to both is *)
(* a slot ahead of a call's now and behind its commit (update, resume): the  *)
(* next sweep runs it, whatever the one in between ran.                      *)
OnTime == {x \in occurrences : <<x[1], x[2]>> \notin late}
RunsOnceInBudget ==
    /\ \A x, y \in OnTime : x[1] = y[1] /\ x[2] < y[2] => x[3] < y[2]
    /\ sweep = "queue" => inHand[1] \notin breach \/ <<inHand[1], inHand[2]>> \in late

(* A due routine runs or its slot is skipped: again and again there is a      *)
(* moment at which no cursor is behind, after a failed run, a stopped host,  *)
(* a paused bot or an edit within the sweep (_run, _routine_loop).            *)
DueIsServed == []<>(\A r \in Rtns : row[r].status = "active" => row[r].next > clock)
=============================================================================
