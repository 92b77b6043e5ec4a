-------------------------------- MODULE Fleet --------------------------------
(***************************************************************************)
(* The dashboard read model: domain/fleet.py, fleet_routines.py,           *)
(* host_status.py, brief.py and spend.py.  An overview is a series of      *)
(* SELECTs, each of which sees the rows as they are at that moment: turns  *)
(* start, wait, resume and end, requests are asked and answered and the    *)
(* budget sweep pauses routines between two of them.  What Ollama answers  *)
(* is a free choice.  Costs are even numbers of a unit far above what a    *)
(* sum of floats can be wrong by, so that the median of two runs is whole  *)
(* and only a sum at the very budget can fall on either side of it.  The   *)
(* clock counts hours of a short day.                                      *)
(***************************************************************************)
EXTENDS Naturals, Sequences, FiniteSets, FiniteSetsExt, SequencesExt

CONSTANTS
  Bots, AgentBot,        \* bots; AgentBot gives each agent's bot
  Turns, Requests,
  Jobs, JobRoutine,      \* occurrences of routines; each one's routine
  RoutineBot,            \* each routine's bot
  RoutineSlots,          \* the times its schedule names
  Priorities,            \* priorities a request may have
  Usages,                \* usage records a turn may end with
  HostBudget,            \* budgets.daily_usd_host
  HoursADay,             \* hours in a day
  Window, Useless, Ahead, \* WINDOW, NOTHING_USEFUL and PROJECTION, in hours
  LastRuns, Top,         \* LAST_RUNS and _TOP
  NoRun,
  MaxFleetClock,         \* bound: the clock
  MaxBoards,             \* bound: overviews and briefs read
  MaxChanges             \* bound: changes of the rows

\* A usage record has one of the sources of CostSource, or is empty.
ASSUME FleetAssumption ==
  /\ IsFiniteSet(Bots) /\ IsFiniteSet(Turns)
  /\ AgentBot \in [DOMAIN AgentBot -> Bots]
  /\ Usages \subseteq [source : {"empty", "subscription", "unknown", "price_table", "local"},
                      cost : Nat]
  /\ HostBudget \in Nat

Agents   == DOMAIN AgentBot
Routines == DOMAIN RoutineBot
Ended    == {"done", "failed", "cancelled", "interrupted"}

VARIABLES
  fClock,
  agentRow,    \* agent -> status column
  turnRow,     \* turn -> [agent, job, status, finished, usage]
  askRow,      \* request -> [turn, kind, blocking, priority, due, created, status]
  jobRow,      \* job -> [status, silent, created, finished]
  routineRow,  \* routine -> [status, reason]
  pausedBots,
  ollama,      \* _cache and _refreshing: [cached, at, refreshing]
  board,       \* the overview or brief under way: where it is, what it has read
  boards,      \* how many were begun
  changes      \* how often the rows changed

fleetVars == <<fClock, agentRow, turnRow, askRow, jobRow, routineRow, pausedBots,
               ollama, board, boards, changes>>

NoUsage == [source |-> "empty", cost |-> 0]
NoTurn  == [agent |-> CHOOSE a \in Agents : TRUE, job |-> NoRun, status |-> "none",
            finished |-> 0, usage |-> NoUsage]
NoAsk   == [turn |-> CHOOSE t \in Turns : TRUE, kind |-> "question", blocking |-> FALSE,
            priority |-> "normal", due |-> 0, created |-> 0, status |-> "none"]
Empty   == [at |-> "none"]

FleetInit ==
  /\ fClock = 0
  /\ agentRow = [a \in Agents |-> "idle"]
  /\ turnRow = [t \in Turns |-> NoTurn]
  /\ askRow = [q \in Requests |-> NoAsk]
  /\ jobRow = [j \in Jobs |-> [status |-> "none", silent |-> FALSE, created |-> 0, finished |-> 0]]
  /\ routineRow = [r \in Routines |-> [status |-> "active", reason |-> "none"]]
  /\ pausedBots = {}
  /\ ollama \in [cached : {"none", "up"}, at : {0}, refreshing : {FALSE}]
  /\ board = Empty
  /\ boards = 0 /\ changes = 0

-----------------------------------------------------------------------------
(* What the reads compute.                                                   *)

StartOfDay(now) == now - (now % HoursADay)
BotOf(t)      == AgentBot[turnRow[t].agent]
EndedSince(since) ==
  {t \in Turns : turnRow[t].status \in Ended /\ turnRow[t].finished >= since}

\* spend.priced_cost: dollars of a price-table or local turn; NoCost else.
Priced(u)     == u.source \in {"price_table", "local"}
PricedCost(u) == IF Priced(u) THEN u.cost ELSE 0

\* spend_by_bot, and the sweep's host_over.  The floats of each bot are added
\* first, so that a sum at the budget may come out at it or just below it.
Costs == [t \in Turns |-> PricedCost(turnRow[t].usage)]
SpendByBot(since) ==
  [b \in Bots |-> SumFunctionOnSet(Costs, {t \in EndedSince(since) : BotOf(t) = b})]
HostSpend == SumFunctionOnSet(SpendByBot(StartOfDay(fClock)), Bots)
HostOver(below) == HostSpend > HostBudget \/ (HostSpend = HostBudget /\ ~below)

\* fleet._spend, its dollars: no usage and a subscription have none, and an
\* unknown source is counted as unpriced instead.
SpendOf(u) == IF u.source \in {"empty", "subscription", "unknown"} THEN 0 ELSE u.cost
Unpriced(u) == u.source = "unknown"
Spends == [t \in Turns |-> SpendOf(turnRow[t].usage)]

\* _today and the level _kpis gives it.  _WARN_SHARE is four fifths.
Today(start) ==
  LET ended == EndedSince(start)
  IN  [spend        |-> SumFunctionOnSet(Spends, ended),
       unpriced     |-> Cardinality({t \in ended : Unpriced(turnRow[t].usage)}),
       subscription |-> Cardinality({t \in ended : turnRow[t].usage.source = "subscription"})]

Level(spend) ==
  IF HostBudget = 0 THEN "none"
  ELSE IF spend >= HostBudget THEN "over"
  ELSE IF 5 * spend >= 4 * HostBudget THEN "warn"
  ELSE "ok"

\* _activity: each bot's turns, dollars and unpriced turns on each day.
Activity(first) ==
  [b \in Bots |-> [d \in 0..(MaxFleetClock \div HoursADay) |->
     LET there == {t \in EndedSince(first) : /\ BotOf(t) = b
                                             /\ turnRow[t].finished \div HoursADay = d}
     IN  [turns    |-> Cardinality(there),
          cost     |-> SumFunctionOnSet(Spends, there),
          unpriced |-> Cardinality({t \in there : Unpriced(turnRow[t].usage)})]]]

\* _waiting in _card_order: blocking first, then priority, then oldest.
Rank == [high |-> 0, normal |-> 1, low |-> 2]
Blocks(q) == askRow[q].kind # "question" \/ askRow[q].blocking
CardBefore(p, q) ==
  LET bp == IF Blocks(p) THEN 0 ELSE 1
      bq == IF Blocks(q) THEN 0 ELSE 1
      rp == Rank[askRow[p].priority]
      rq == Rank[askRow[q].priority]
  IN  \/ bp < bq
      \/ bp = bq /\ rp < rq
      \/ bp = bq /\ rp = rq /\ askRow[p].created < askRow[q].created
Waiting == SetToSortSeq({q \in Requests : askRow[q].status = "waiting"}, CardBefore)
WaitingOf(cards, b) == Cardinality({i \in 1..Len(cards) : BotOf(askRow[cards[i]].turn) = b})

\* The faulty _agent_statuses that reads the agent rows only.
AgentStatusRow(a, running) == agentRow[a]

\* _agent_statuses: a running turn counts over the agent's own row.
AgentStatus(a, running) == IF a \in running THEN "running" ELSE agentRow[a]

BotStatus(statuses, waiting) ==
  IF "running" \in statuses THEN "running"
  ELSE IF waiting > 0 \/ "waiting" \in statuses THEN "waiting"
  ELSE IF "idle" \in statuses THEN "idle"
  ELSE "quiet"

\* _finished: the newest turns that ended, and the brief's _ended counts.
FinishedCount(status, since) ==
  Cardinality({t \in EndedSince(since) : turnRow[t].status = status})

\* _runs: a run's dollars are its turns' together, unknown when one is.
RunTurns(j) ==
  {t \in Turns : /\ turnRow[t].job = j /\ turnRow[t].status \in Ended
                 /\ turnRow[t].usage.source # "empty"}
RunPriced(j) == RunTurns(j) # {} /\ \A t \in RunTurns(j) : Priced(turnRow[t].usage)
RunCost(j)   == SumFunctionOnSet(Costs, RunTurns(j))
RunUnknown(j) ==
  ~RunPriced(j) /\ (RunTurns(j) = {} \/ \E t \in RunTurns(j) : Unpriced(turnRow[t].usage))

EndedRuns(r, now) ==
  {j \in Jobs : /\ JobRoutine[j] = r /\ jobRow[j].status \in {"done", "failed"}
                /\ jobRow[j].created + Window >= now}
LatestRuns(r, now) ==
  SetToSortSeq(EndedRuns(r, now), LAMBDA i, j : jobRow[i].created > jobRow[j].created)

\* per_run: the median of the last runs, none when one has no known cost.
PerRun(r, now) ==
  LET runs  == LatestRuns(r, now)
      last  == SubSeq(runs, 1, IF Len(runs) < LastRuns THEN Len(runs) ELSE LastRuns)
      costs == SortSeq([i \in DOMAIN last |-> RunCost(last[i])], <)
      n     == Len(last)
  IN  IF n = 0 \/ \E i \in DOMAIN last : ~RunPriced(last[i]) THEN [known |-> FALSE, usd |-> 0]
      ELSE [known |-> TRUE,
            usd   |-> (costs[(n + 1) \div 2] + costs[(n \div 2) + 1]) \div 2]

\* _outcome of a run, and the outcome of the latest one.
Outcome(j) ==
  CASE jobRow[j].status = "done"      -> IF jobRow[j].silent THEN "noop" ELSE "ok"
    [] jobRow[j].status = "failed"    -> "failed"
    [] jobRow[j].status = "cancelled" -> "cancelled"
    [] OTHER                          -> "running"
KnownRuns(r, now) ==
  {j \in Jobs : JobRoutine[j] = r /\ jobRow[j].status # "none" /\ jobRow[j].created + Window >= now}
LastOutcome(r, now) ==
  IF KnownRuns(r, now) = {} THEN "none"
  ELSE Outcome(CHOOSE j \in KnownRuns(r, now) :
                 \A k \in KnownRuns(r, now) : jobRow[k].created <= jobRow[j].created)

\* _runs_ahead: slots within the projection, for an active routine whose bot
\* is not paused.
RunsAhead(r, now) ==
  IF routineRow[r].status # "active" \/ RoutineBot[r] \in pausedBots THEN 0
  ELSE Cardinality({s \in RoutineSlots[r] : now < s /\ s <= now + Ahead})

\* _candidate: old enough, and no useful run for as long.
Candidate(r, now) ==
  /\ now >= Useless
  /\ ~\E j \in EndedRuns(r, now) : /\ jobRow[j].status = "done" /\ ~jobRow[j].silent
                                   /\ jobRow[j].finished + Useless >= now

\* upcoming: every routine that is not cancelled.
Upcoming(now) ==
  [r \in {x \in Routines : routineRow[x].status # "cancelled"} |->
     [status    |-> routineRow[r].status,
      reason    |-> routineRow[r].reason,
      outcome   |-> LastOutcome(r, now),
      runs      |-> Cardinality(EndedRuns(r, now)),
      cost      |-> MapThenSumSet(LAMBDA j : IF RunPriced(j) THEN RunCost(j) ELSE 0,
                                  EndedRuns(r, now)),
      unpriced  |-> Cardinality({j \in EndedRuns(r, now) : RunUnknown(j)}),
      perRun    |-> PerRun(r, now),
      ahead     |-> RunsAhead(r, now),
      candidate |-> Candidate(r, now)]]
Projection(up) ==
  MapThenSumSet(LAMBDA r : up[r].perRun.usd * up[r].ahead,
                {r \in DOMAIN up : up[r].perRun.known})
ProjectionUnpriced(up) ==
  Cardinality({r \in DOMAIN up : ~up[r].perRun.known /\ up[r].ahead > 0})

-----------------------------------------------------------------------------
(* The rows change under the reader.                                         *)

Change == changes < MaxChanges /\ changes' = changes + 1

StartTurn(t, a, j) ==
  /\ Change
  /\ turnRow[t].status = "none"
  /\ ~\E u \in Turns : turnRow[u].agent = a /\ turnRow[u].status \in {"running", "waiting"}
  /\ j # NoRun => jobRow[j].status = "none" /\ RoutineBot[JobRoutine[j]] = AgentBot[a]
  /\ turnRow' = [turnRow EXCEPT ![t] = [NoTurn EXCEPT !.agent = a, !.job = j, !.status = "running"]]
  /\ agentRow' = [agentRow EXCEPT ![a] = "running"]
  /\ jobRow' = IF j = NoRun THEN jobRow
               ELSE [jobRow EXCEPT ![j].status = "running", ![j].created = fClock]
  /\ UNCHANGED <<fClock, askRow, routineRow, pausedBots, ollama, board, boards>>

\* A request is opened: an approval stops its turn, a question may not.
Ask(q, t, kind, blocking, priority) ==
  /\ Change
  /\ askRow[q].status = "none"
  /\ turnRow[t].status = "running"
  /\ askRow' = [askRow EXCEPT ![q] = [turn |-> t, kind |-> kind, blocking |-> blocking,
                                      priority |-> priority, due |-> fClock + 1,
                                      created |-> fClock, status |-> "waiting"]]
  /\ IF kind = "approval" \/ blocking
     THEN /\ turnRow' = [turnRow EXCEPT ![t].status = "waiting"]
          /\ agentRow' = [agentRow EXCEPT ![turnRow[t].agent] = "waiting"]
     ELSE UNCHANGED <<turnRow, agentRow>>
  /\ UNCHANGED <<fClock, jobRow, routineRow, pausedBots, ollama, board, boards>>

\* The owner answers: a resume flips the turn and leaves the agent's row.
Answer(q) ==
  /\ Change
  /\ askRow[q].status = "waiting"
  /\ askRow' = [askRow EXCEPT ![q].status = "answered"]
  /\ turnRow' = IF turnRow[askRow[q].turn].status = "waiting"
                THEN [turnRow EXCEPT ![askRow[q].turn].status = "running"] ELSE turnRow
  /\ UNCHANGED <<fClock, agentRow, jobRow, routineRow, pausedBots, ollama, board, boards>>

EndTurn(t, status, usage, silent) ==
  /\ Change
  /\ turnRow[t].status = "running"
  /\ silent => turnRow[t].job # NoRun
  /\ turnRow' = [turnRow EXCEPT ![t].status = status, ![t].finished = fClock, ![t].usage = usage]
  /\ agentRow' = [agentRow EXCEPT ![turnRow[t].agent] = "idle"]
  /\ jobRow' = IF turnRow[t].job = NoRun THEN jobRow
               ELSE [jobRow EXCEPT ![turnRow[t].job].status = status, ![turnRow[t].job].silent = silent,
                                   ![turnRow[t].job].finished = fClock]
  /\ UNCHANGED <<fClock, askRow, routineRow, pausedBots, ollama, board, boards>>

\* The budget sweep: over the host's budget every active routine is paused,
\* and no longer over, those it paused run again.
BudgetSweep(below) ==
  /\ Change
  /\ routineRow' = [r \in Routines |->
       CASE HostOver(below) /\ routineRow[r].status = "active" ->
              [status |-> "paused", reason |-> "budget"]
         [] ~HostOver(below) /\ routineRow[r].reason = "budget" ->
              [status |-> "active", reason |-> "none"]
         [] OTHER -> routineRow[r]]
  /\ UNCHANGED <<fClock, agentRow, turnRow, askRow, jobRow, pausedBots, ollama, board, boards>>

FlipBot(b) ==
  /\ Change
  /\ pausedBots' = IF b \in pausedBots THEN pausedBots \ {b} ELSE pausedBots \cup {b}
  /\ UNCHANGED <<fClock, agentRow, turnRow, askRow, jobRow, routineRow, ollama, board, boards>>

Hour ==
  /\ Change
  /\ fClock < MaxFleetClock
  /\ fClock' = fClock + 1
  /\ UNCHANGED <<agentRow, turnRow, askRow, jobRow, routineRow, pausedBots, ollama, board, boards>>

-----------------------------------------------------------------------------
(* overview and brief, one SELECT at a time.                                 *)

World == <<fClock, agentRow, turnRow, askRow, jobRow, routineRow, pausedBots, changes>>

\* ollama_status: only the first read waits; later ones answer from the cache
\* and start one refresh behind it when the cache is old.
BeginBoard(what) ==
  /\ board.at \in {"none", "shown"}
  /\ boards < MaxBoards
  /\ boards' = boards + 1
  /\ board' = [at |-> IF ollama.cached = "none" THEN "probe" ELSE "waiting", what |-> what,
               now |-> fClock, ollama |-> ollama.cached,
               busy |-> {t \in Turns : turnRow[t].status = "running"}]
  /\ ollama' = [ollama EXCEPT !.refreshing =
                  @ \/ (ollama.cached # "none" /\ fClock > ollama.at)]
  /\ UNCHANGED World

FirstProbe(answer) ==
  /\ board.at = "probe"
  /\ ollama' = [ollama EXCEPT !.cached = answer, !.at = fClock]
  /\ board' = [board EXCEPT !.at = "waiting", !.ollama = answer]
  /\ UNCHANGED <<World, boards>>

\* _refresh in the background, and the done callback that clears its entry.
RefreshDone(answer) ==
  /\ ollama.refreshing
  /\ ollama' = [cached |-> answer, at |-> fClock, refreshing |-> FALSE]
  /\ UNCHANGED <<World, board, boards>>

\* The turns that have been running since the overview began.
StillBusy == board.busy \cap {t \in Turns : turnRow[t].status = "running"}

Read(from, to, fields) ==
  /\ board.at = from
  /\ board' = [x \in DOMAIN board \cup DOMAIN fields |->
                 CASE x = "at" -> to
                   [] x = "busy" -> StillBusy
                   [] x \in DOMAIN fields -> fields[x]
                   [] OTHER -> board[x]]
  /\ UNCHANGED <<World, ollama, boards>>

ReadWaiting  == Read("waiting", "activity",
                     [cards |-> Waiting, perBot |-> [b \in Bots |-> WaitingOf(Waiting, b)]])
ReadActivity == Read("activity", "running", [activity |-> Activity(0)])
ReadRunning  == Read("running", "agents",
                     [running |-> {turnRow[t].agent : t \in {u \in Turns : turnRow[u].status = "running"}}])
ReadAgents   == Read("agents", "today",
                     [bots |-> [b \in Bots |->
                        BotStatus({AgentStatus(a, board.running) : a \in {x \in Agents : AgentBot[x] = b}},
                                  board.perBot[b])]])
ReadToday    == Read("today", "upcoming", [today |-> Today(StartOfDay(board.now))])
ReadUpcoming == Read("upcoming", IF board.what = "brief" THEN "ended" ELSE "answer",
                     [upcoming |-> Upcoming(board.now)])
\* brief: _ended, then its issues from all that was read.
ReadEnded    == Read("ended", "answer",
                     [done   |-> FinishedCount("done", IF board.now < HoursADay THEN 0
                                                       ELSE board.now - HoursADay),
                      failed |-> FinishedCount("failed", IF board.now < HoursADay THEN 0
                                                         ELSE board.now - HoursADay)])

Issues ==
  {<<"failed_turns", n>> : n \in {board.failed} \ {0}}
    \cup {<<"failed_routine", r>> : r \in {x \in DOMAIN board.upcoming :
                                             board.upcoming[x].outcome = "failed"}}
    \cup {<<"paused_by_budget", r>> : r \in {x \in DOMAIN board.upcoming :
                                               board.upcoming[x].reason = "budget"}}
    \cup {<<"overdue_question", i>> : i \in {k \in 1..Len(board.cards) :
                                               askRow[board.cards[k]].due < board.now}}
    \cup {<<"ollama_down", 0>> : x \in {board.ollama} \cap {"down"}}

\* The answer: the tiles and, in a brief, what broke.
Reply ==
  /\ board.at = "answer"
  /\ board' = [at |-> "shown", busy |-> StillBusy, bots |-> board.bots,
               spend |-> board.today.spend, level |-> Level(board.today.spend),
               activity |-> board.activity,
               decisions |-> SubSeq(board.cards, 1, IF Len(board.cards) < Top THEN Len(board.cards)
                                                    ELSE Top),
               projection |-> Projection(board.upcoming),
               unpriced |-> ProjectionUnpriced(board.upcoming),
               broken |-> IF board.what = "brief" THEN Issues ELSE {}]
  /\ UNCHANGED <<World, ollama, boards>>

FleetNext ==
  \/ \E t \in Turns, a \in Agents, j \in Jobs \cup {NoRun} : StartTurn(t, a, j)
  \/ \E q \in Requests, t \in Turns, priority \in Priorities :
       \/ Ask(q, t, "approval", TRUE, priority)
       \/ \E blocking \in BOOLEAN : Ask(q, t, "question", blocking, priority)
  \/ \E q \in Requests : Answer(q)
  \/ \E t \in Turns, usage \in Usages :
       \/ \E silent \in BOOLEAN : EndTurn(t, "done", usage, silent)
       \/ EndTurn(t, "failed", usage, FALSE)
  \/ \E b \in Bots : FlipBot(b)
  \/ \E below \in BOOLEAN : BudgetSweep(below)
  \/ Hour
  \/ \E what \in {"overview", "brief"} : BeginBoard(what)
  \/ \E answer \in {"up", "down"} : FirstProbe(answer) \/ RefreshDone(answer)
  \/ ReadWaiting \/ ReadActivity \/ ReadRunning \/ ReadAgents \/ ReadToday
  \/ ReadUpcoming \/ ReadEnded \/ Reply

FleetSpec == FleetInit /\ [][FleetNext]_fleetVars

FleetTypeOK ==
  /\ fClock \in 0..MaxFleetClock
  /\ pausedBots \subseteq Bots
  /\ \A a \in Agents : agentRow[a] \in {"idle", "running", "waiting"}
  /\ \A t \in Turns : turnRow[t].status \in Ended \cup {"none", "running", "waiting"}
  /\ \A r \in Routines : routineRow[r].status \in {"active", "paused", "cancelled"}

-----------------------------------------------------------------------------
(* The overview tells the truth. A bot whose turn ran the whole time it was  *)
(* read is shown as running, although a resumed turn leaves its agent's row  *)
(* at `waiting` and an answered card may still be counted                    *)
(* (_agent_statuses); and it says the host is over its budget just when the  *)
(* sweep pauses routines for it, although the two find and add up the spend  *)
(* in different code (fleet._today, spend.spend_by_bot): but for a spend at  *)
(* the very budget, where their sums of floats may differ in the last bit.   *)
OverviewIsRight ==
  /\ board.at = "shown" => \A t \in board.busy : board.bots[BotOf(t)] = "running"
  /\ HostBudget > 0 /\ HostSpend # HostBudget =>
       \A below \in BOOLEAN :
         Level(Today(StartOfDay(fClock)).spend) = "over" <=> HostOver(below)
=============================================================================
