# sevn in TLA+

sevn is a host for long-lived bots. A bot has *agents* ("lanes"), each of which
works through the messages routed to it one *turn* at a time; clients talk to
the host over a WebSocket protocol of idempotent calls and a replayable stream
of events. Rows in SQLite survive a restart, everything else is asyncio tasks
and locks in one process. This directory holds TLA+ models of the parts where
several tasks, clients, restarts or lost connections meet, the TLC instances
that check them, and TLAPS proofs.

All source paths below are relative to `src/host/src/sevn/` unless they begin
with `src/`. `PROJECT.json` has the exact lines behind every definition.

## 1. Inventory

| component | state | operations | hard behaviour |
|---|---|---|---|
| **Op log and hub** `protocol/hub.py`, `store/oplog.py` | `op_log` rows, per-op locks | `claim_op`, `lookup`, `record`, `replace_result`, `forget_pending`, `prune` | retries of a call that runs, failed, committed or died with the host |
| **Worker** `runtime/worker.py` | pump task, lock, `_again` mark and reservation per agent; `_cancelling_agents`; `_Board` of live turns; host-wide semaphore | `kick`, `_pump`, `_reserve`, `start_resume`, `resume`, `_open_slots`, `_release`, `cancel`, `cancel_agent`, `interrupt_and_requeue` | admission before the row that counts is written, lost wake-ups, cancel against a turn that is ending |
| **Routing and delivery** `domain/routing.py` | agents, jobs and turns through their services | `deliver`, `reroute`, `queue_on_lane`, `answer_question` | several transactions per delivery, a cap read in one and used in the next |
| **Turn runner and endings** `runtime/turn.py`, `turn_end.py`, `turn_store.py` | `turns`, `messages`, checkpoint | claim, promote, drive, `_persist_*`, `record_turn_failure`, stored cancels | each ending races cancels, moves and failures |
| **Jobs** `domain/jobs.py` | `jobs`, `job_lock` | `enqueue`, `park_job` | a job moves while its turn is anywhere in its life |
| **Recovery** `runtime/recovery.py` | the rows as found | `recover`, the lifespan's kicks and resumes | which started jobs are retried, resumed, cancelled |
| **Agents** `domain/agents.py` | `agents` | `spawn`, `revive`, `set_status`, `expire_agents` | status is what the cap counts |
| **Event outbox, sessions, web client** `store/outbox.py`, `protocol/session.py`, `src/web/src/client/connection.ts` | `events`, send queue, held and deferred frames; the client's position and buffer | `append`, `since`, `prune`, `deliver`, `sync_since`; `acceptEvent`, `catchUp`, `replay` | replay against live events, slow clients, pruning, reconnection |
| **Approvals and questions** `domain/pending.py`, `api/pending.py` | `pending_requests`, checkpoint | `resolve`, `pending_answer`, `answer_question` | concurrent last answers, cards against chat, restart |
| **Routines** `domain/routines.py`, `cron.py` | `routines`, cursor | sweep, budgets, create, update, pause, resume, cancel | the same slot met twice, missed slots, edits between two steps of a sweep, clock changes |
| **Memory** `memory/store.py`, `context.py` | `memories`, staged and writing batches, baseline per lane | save, pin, forget, write, rollback, edit | a batch lives and dies with its turn; one budget for all lanes |
| **Pairing, devices, handshake** `identity/*`, `protocol/session.py` | tickets, devices, session phase and binding | hello, auth, pair, revoke | single use, limits, revocation of a session in its handshake |
| **Workspaces and path locks** `domain/workspace.py`, `tools/files.py` | `.git`, backup, published metadata, worktrees; lock rows | `ensure`, `acquire_write`, `release_turn` | a kill between two file operations, cancelled writers |
| **Ticks** `protocol/ticks.py` | merged deltas and timer per turn | add, `_fire`, fan out | text is never sent twice by the host, so it must not be lost |
| **Routing decisions** `decisions/*` | decision log, context variable | the chain of deciders, thresholds | the answer is old when it is used |
| **Model runtimes** `runtime/runtimes/*`, `usage.py`, `compaction.py` | SDK client, permission waits; history, checkpoint, usage | stream, ask, answer, compact, combine | hooks beside the stream, cost over interrupted drives |
| **Bots, fleet, metrics, shares** `domain/bots.py`, `fleet.py`, `metrics.py`, `shares.py` | their rows, the bot's directories | create, delete; overview, brief; report, open, revoke | a commit and a directory; reads of different moments |
| **Runtime installs** `runtime/installs.py` | version trees, `current` | install, remove, resolve | several processes in one directory |
| **Shell and risk** `tools/shell.py`, `sandbox/*` | process group of a call | run, time out, stop; score | processes that do not end |
| **Secrets** `secrets/*`, `identity/keys.py` | keyring, age file, index, pinned backend | set, rm, migrate, identity | a failure between copy, check, pin and delete |
| **Service** `service/*`, `cli.py` | unit file, what the manager has loaded | install, uninstall, restart, status | manager calls that fail half way |
| **Observability** `observability/*` | spans, logs | | not modelled |

How they interact: a client call reaches `dispatch`, which runs a mutating
method through `claim_op`. `messages.send` calls `deliver`, which stores job,
queued turn and message and kicks the worker. The worker's pump of the agent
claims the job, and the turn runner drives the model. The turn ends, or pauses
for approvals whose answers start a resume. Every change of a row stores an
event that the hub fans out to the sessions. After a restart `recover` repairs
the rows, and the lifespan kicks lanes and resumes checkpoints.

What makes each part correct: an op takes effect once and all its callers agree
(op log); a lane runs one turn at a time, in order, and the cap holds without
starving anybody (worker); an ending stays an ending, a message is on
exactly one live attempt (turns, jobs, recovery); a client misses no stored
event (events), nor a word of a running turn (ticks); an answered pause is
resumed (approvals); a slot runs once and within its budget (routines); a batch
is written exactly with its turn (memory); a revoked device is out and the last
owner stays (devices); a message lands where it was decided (decisions); a
prompt is complete and a known cost is whole (runtimes); what is moved, copied,
installed or removed on disk survives a kill in the middle (workspaces,
installs, secrets, bots, service).

## 2. Modules

| module | models | checked by |
|---|---|---|
| `OpLog` | `claim_op` against `op_log` rows, events with their op marker, retention, crash | `MCOpLog`, `OpLogProofs` |
| `Lanes` | deliveries, pumps, resumes, cap, slots, stop, move, close, expiry, crash for the lanes of one bot | `MCLanes`, `LanesProofs` |
| `TurnLife`, `JobLife` | one job with all its turns: claim, promote, drive, persist, fail, cancel, park, recover; and what they promise of the job | `MCTurnLife`, `MCHost`, `TurnLifeProofs` |
| `EventStream`, `EventFeed` | outbox, one session, one web client; and what they promise | `MCClients`, `EventStreamProofs` |
| `Ticks` | the text of running turns on its way to a client | `MCClients`, `ClientProofs` |
| `Access` | handshake, tickets, devices, revocation | `MCClients`, `ClientProofs` |
| `Approvals` | requests of a turn, answers, resume, restart | `MCClients`, `ClientProofs` |
| `Decisions` | routing context, deciders, log, the use of a decision | `MCClients`, `DomainProofs` |
| `Routines`, `Cron` | the sweep; the arithmetic of schedules | `MCSchedules`, `DomainProofs` |
| `Fleet` | overview and brief over changing rows | `MCSchedules`, `DomainProofs` |
| `Metrics` | reports, tiles, share links | `MCSchedules`, `DomainProofs` |
| `ClaudeTurn` | turns and permissions on the Claude runtime | `MCHost`, `DomainProofs` |
| `Conversation` | memory block, history, compaction, usage | `MCHost`, `HostProofs` |
| `MemoryStore` | staged and stored memories, pinned budget | `MCHost`, `HostProofs` |
| `GitMetadata`, `PathLocks` | the bot's repository; advisory locks and file tools | `MCHost`, `HostProofs` |
| `Installs` | runtime copies on disk | `MCHost`, `HostProofs` |
| `ShellRun`, `Risk` | a shell call; the score of a command line | `MCHost`, `HostProofs` |
| `Secrets` | backends, identity, migration | `MCHost`, `HostProofs` |
| `Bots` | a bot's row and directories | `MCHost`, `HostProofs` |
| `HostService` | systemd and launchd commands | `MCHost`, `HostProofs` |
| `Induction` | least and greatest elements, induction over naturals and finite sets, folds, for the proofs | cited by every proof module but `OpLogProofs` |

**What one step is.** An action is the code between two awaits that matter.
The SQLite driver opens a transaction at the first write: a SELECT alone opens
none. So "SELECT ... await ... UPDATE; commit" is two steps, between which other
tasks may write, and what a flush stores is the columns the block changed. A
single UPDATE, and a block that begins with a write, is one step. `OpLog`,
`Lanes` and `TurnLife` take a block under the op's, the lane's or the job's lock
as one step where nobody writes the same rows under another lock; what else they
merge is named with the module below.
File operations, manager calls and process signals are a step each.

**Faulty variants.** Definitions named so stand in no next-state relation.
Each is a plausible mistake in the definition after it, and replacing that
definition by it makes TLC report the property named in `PROJECT.json`.

**Instances with parts.** `MCSchedules`, `MCClients` and `MCHost` hold several
modules that share no state. The variable `part` is chosen in the initial state
and only the actions of that module are taken; the variables of the others keep
their first values. The reachable states are the disjoint union of those of the
parts, and each part is explored as far as it would be alone. The three extend
the modules of all their parts, so that the theorems about a module speak of the
run, and TLC evaluates its assumptions. Names that would clash are longer than
the code's for that reason (`NoRun` and `BeginBoard` in `Fleet`, for instance).

**First match.** A chain of early returns is written IF ... ELSE IF, or as a CASE
whose guards exclude each other: TLA+ leaves a CASE with overlapping guards
open, and TLC's choice of the first arm is not something a proof may use.

### OpLog

State: the row of each op (`rowSt`, `rowRun` = the call that wrote it,
`rowOld`), the per-op lock's `holder`, and each call's program counter,
`outcome` and `answer`. `aged` and `emitted` are history: ops whose retention
has passed and calls that stored an event. `Enter` takes the lock, `Replay`
answers from a row, `StartWork`, `Emit`, `BackgroundEmit`, `WorkFails`,
`WorkReturns` are the work, `ForgetPending`, `Relookup`, `Record`,
`ReplaceResult` what `claim_op` does after it. `Age`, `Prune` and `Crash` are
the environment. A call stands for its params: `MethodOf` is the stored method
with the hash of the params.

### Lanes

State: the rows of agents and jobs, the newest turn of each job, the worker's
`again`, `reserved` and `cancelling`, a program counter for the pump and the
resume of each agent, one delivery per job, and the close of a lane. Left out or
merged: a job's attempts share `turn[j]`; what happens inside the job lock
(claim and promote, cancel and park) is one step and is taken apart in
`TurnLife`; the SELECTs inside `_reserve`, and those inside `_open_slots`, are
one step each; an agent has one resume at a time; a move starts after the
delivery's own tail; expiry happens to a lane on which nothing is in flight;
intents that store no job (a consumed steer, cancel or answer) are left out; a
failure to record a failure is left out. A move that cancels an open turn also
releases the lane it left, as `_cancel` does; a move of a queued job wakes
nobody there.

### TurnLife and JobLife

State: the job, its turn rows, which of them hold the user message and a
checkpoint, the job lock, the board, the tasks that run turns, the delivery and
the client calls. When a lane gets a slot is Lanes' matter: a pump may select
the queued job whenever its lane lock is free. A failure is recorded under the
lane's lock and a cancel is stored under the job's, so each is taken apart: what
it reads (`FailReads`, `FailLooks`, `CancelFinds`) and, later, what it writes
(`FailWrites`, `CancelPersists`), whatever the other has stored since; `reads`
is what a failure record has read. Merged: marking a lane as closing with the
snapshot of its jobs, releasing the job lock with the end of the close, and the
reads of the three stored cancels (they run one after the other under the same
job lock and differ in the status they accept).

`JobLife` is the promise: a message becomes one job that is worked off in tries.
Only the last try can be alive; the job is over when its try is, in one step,
and only a move opens a cancelled one again; a failure and a cancel that meet may
each overwrite the other (`Amend`); a restart fails the try that ran and begins
another; the message goes from try to try and is never lost or
doubled. `ImplementsJobLife` is the refinement: a try is a turn row that is
used, the job's state is its status with `asked`, `queued` and `started` taken
as one, and what holds the message is the same. Locks, tasks, calls, the board
and the recovery's choice are gone. One step shows more of the code than wished
for: if the host stops between the job's row and its user message, the pump
opens a turn without one, so `Try` and `Retry` also exist without a message.

### EventStream and EventFeed

State: `head`, `low` and the not yet fanned-out events of the outbox; of the
session `held`, `deferred`, the send queue, the request in service and what
`sync_since` has read so far; of the client the position, the buffer and the
catch-up under way. The send queue and the wire are one sequence, and a lost
connection loses all of it. Between the read of the rows and the answer live
events may be stored and fanned out: that is the case `release_live` is for.
One client and one other request at a time. The queue limit (1000 in the
settings) is more than twice a page (200); the assumption of the module.

`EventFeed` is the promise: events are published in order and expire from the
oldest on, and a client's place moves only by being handed the event that
follows, or to a place below everything stored. `ImplementsFeed` is the
refinement: EventStream under the mapping of its head, its lowest stored event
and the client's position. A resync may send a client back, so events come at
least once.

### Ticks, Access, Approvals, Decisions

`Ticks`: deltas of a turn, the coalescer's buckets and timers, the fan-out
tasks and the session's queue. Frames of other kinds are left out. The text is
per connection: a client that reconnects has a new one.

`Access`: a session is in one of the phases of `Session._on_frame`, with the
await it is at. A session serves its requests one after the other, and a lost
connection does not cancel a handler that runs. `DeviceAuth` starts the look-up of
the device, `BindDevice` binds on what it found, `Seen` checks again; `Revoke`
writes, then closes what is bound.

`Approvals`: one turn of the pydantic-ai runtime with the calls of one response,
its question, the clients' answers step by step, the resumes they start, and
recovery. The end of a drive is three steps: whether a request is open
(`DriveEnds`), the status in the transaction (`PersistReads`), the write
(`PersistWrites`). A turn that has asked a question is not promised to go on if it
met a restart, or if the question was answered during those steps (`aRaced`),
because it can then wait for ever (section 6). `Decisions`: each message reads a
context, passes the deciders, each of which may take long, time out or answer
anything, and acts on the rows as they are by then.

### Routines, Cron, Fleet, Metrics

`Routines`: the sweep's steps (spend, budgets, pauses, due rows, run, cursor)
with the owner's calls as read and commit. The clock ticks at any moment, also
inside a call: a slot that a commit leaves behind the clock is noted in `late`.
A schedule is a set of slots.
`Cron` computes them: `NextAfter` against `Wall`, which maps a wall time to its
instant, in a calendar scaled down to days of a few minutes, with a gap and a
fold. A count walks from run to run up to a limit, as the code does
(`RunLimit`). `CronAssumption` says that a zone has one jump and that the
calendar covers what the clock can show. `Fleet`: the overview's reads in their
order, each of the rows at its moment; a usage record has one of the five
sources of `CostSource` or none (`FleetAssumption`). Costs are whole numbers, so
the property says nothing of a spend of exactly the budget, where the code's
sums of floats may round apart. `Metrics`: reports, tiles and the three steps of opening a link.

### ClaudeTurn, Conversation, MemoryStore

`ClaudeTurn`: the stream as a sequence of messages, permission hooks with their
waits, answers, disconnects and the recovery of an interrupted turn.
`Conversation`: a request is the sequence of what it shows: prompts with the
lines of texts they show and the texts they name as removed, tool calls and
returns, summaries. The old text of an edited memory is named nowhere, so it
stays beside the new one. The texts of two memories are taken to differ.
`Compacted` is the loop
over the messages of `compaction.py`, one message at a time. `MemoryStore`: the write lock per bot, batches that are pending, being
written or gone, and the transaction that commits after the lock is free. A text
is as many units as its size, and the budget counts them. `LateGrowth` lets the
owner lengthen a text that a turn is about to pin.

### GitMetadata, PathLocks, Installs, ShellRun, Risk, Secrets, Bots, HostService

One action per file operation, statement, signal or manager call; a kill may
come between any two. git, the keyring, systemd and launchd are external and
modelled from how the code uses them. `PathLocks`: every end of a turn drops its
locks, but a restart (`LocksAfterRestart`) ends turns whose rows stay. `ShellRun`:
the leader is forked before the call that creates it returns, a cancel in between
kills it alone (`CancelSpawn`), and a process may change its user (`foreign`),
after which no signal reaches it. `Risk` scores every line of up to a number of
tokens, a token standing for its class, against a definition of "runs only
read-only programs" stated over the line itself; a run of operators that the
lexer returns as one token, such as `;>`, is a token of its own. `Secrets` and
`HostService` assume one sevn command at a time.

## 3. Runs

| run | instance | shows |
|---|---|---|
| `op_log` | one op id; a call, its retry, and a call that reuses the id for other params; two crashes | `OneRunAtATime`, `CommittedOnce`, `AnswersAgree`, `NoOrphanMarker`; under fairness `EveryCallEnds` |
| `lanes_order` | 2 agents, 2 jobs, cap 1, 2 slots; one stop, close and expiry | `LaneInOrder`, `RunningIsDriven` |
| `lanes_wake` | 3 agents, 3 routine jobs that may pause, cap 1, 2 slots | `NothingSleeps`, `CapRespected` |
| `lanes_live` | 2 agents, 2 routine jobs, cap 1, one move, one crash | `QueuedJobsRun` under fairness |
| `turn_life` | 3 turns, 2 lanes, 2 calls that cancel or close, or one that moves (`MoveAlone`), a crash | `ImplementsJobLife`, `NoZombieDrive`, `EndingsStick`, under fairness `CallsEnd` |
| `schedules` | a routine over a day of three minutes with two edits and a fault; the valid ones of 96 schedules in a calendar of six days; an overview during three changes; two bots' metrics and a link | `RunsOnceInBudget`, under fairness `DueIsServed`; `CountsEveryRun`; `OverviewIsRight`; `SharedInScope`, `RevokeSticks` |
| `clients` | 3 events, pages of 1, queue of 3, buffer of 1, a call, a lost connection or restart; two turns' text over two connections; two sessions, two devices and a ticket; two approvals and a question with two clients and a restart; two messages decided at once | `CaughtUp`, `ImplementsFeed`; `TextIsWhole`; `RevokedIsCut`, `OwnerStays`; `AnswersCountOnce`; `LandsAsDecided` |
| `host` | twelve parts, with the bounds in `MCHost` and its cfg | `MovedJobIsWhole`, `ApprovedToolsOnly`, `RequestIsComplete`, `PricedIsWhole`, `StoredIsEarned`, `HistoryWhole`, `LockEndsWithTurn`, `NoSecretLost`, `ResolvedIsWhole`, `StoppedIsDead`, `LowIsReadOnly`, `BotHasWorkspace`, `UnitOutlivesHost` |
| `lanes_held`, `lanes_resume_crash`, `turn_routine`, `turn_fail_move` | the smallest instance that shows it | a disagreement between the code and what it says of itself, section 6 |

Bounds. Two callers of one op and a third with other params are all the roles
`claim_op` tells apart; the proofs are for any number. Two lanes and a cap of
one are the least in which a lane is held back while another changes; three in
which two are held and one wake-up must choose. Three turn rows are an attempt,
its retry and one more; with moves four. Three events with pages of one are a
page, a next page, and a live event behind them; every limit is met. Two
clients, two devices, two processes, two versions, two lanes of a bot: the
races are between two. The rare events (stop, move, close, expire, crash, lost
connection, fault) happen a bounded number of times, anywhere in the run.

What a run leaves out on purpose, because the code then does what section 6
says. `lanes_order` has no crash (`lanes_resume_crash`). `lanes_wake` and
`lanes_live` use `queue_on_lane`, because with `deliver` jobs can be held for
ever (`lanes_held`), and close no lane. `turn_life` and the moves of `host`
have no routine jobs (`turn_routine`), and only `turn_fail_move` has a failing
drive together with a move: `MoveAlone` keeps them apart in `turn_life`, where a
move also comes without a second call, which `host` has. In `host` the owner
does not lengthen a text that a turn is promoting (`LateGrowth` is FALSE). The
approvals of `clients` have one round; a turn that asked a question and met a
restart, or an answer while its end was stored, is in the run, and left out of
the first half of `AnswersCountOnce`. In the same way `RunsOnceInBudget` leaves
out late slots, `OverviewIsRight` a spend of exactly the budget, `LowIsReadOnly`
lines with an input redirect before the program or with operators run together,
and `StoppedIsDead` processes that the last signal could not reach: all of these
happen in the runs, and section 6 says what the code does with them. The passing
runs of Lanes take no follow-up to a closed lane with a full cap, which is the
case of `revive` in section 6.

Agents, jobs, clients and devices are interchangeable, so the safety runs use
symmetry. The liveness runs do not.

## 4. Fairness

Weak fairness for every step of a task or call that has started: the event loop
runs what is ready. The routine loop is such a task: it is started with the
host, sleeps a bounded time and survives a failed sweep, so its steps are
weakly fair (`Routines!Fairness`). Strong fairness where a FIFO asyncio lock or
semaphore is waited for, which serves waiters in order. Nothing is assumed of
the outside: no fairness for deliveries, answers, stops, moves, edits, ageing,
pruning or crashes. The work of an op and the drive of a turn are assumed to
end, which the code leaves to the timeouts of the providers.

## 5. What is proved

Every theorem holds for all values of the constants that the named assumption of
its module allows: any number of lanes, jobs, clients, processes, names, events
and, unless said otherwise, any number of crashes, faults and calls.

| module | theorem | what it says of the component |
|---|---|---|
| `OpLogProofs` | `OpLogOneRun`, `OpLogCommittedOnce`, `OpLogAnswersAgree`, `OpLogNoOrphanMarker`, `OpLogRecordIsFresh`, `OpLogTypes` | `OneRunAtATime`, `CommittedOnce`, `AnswersAgree`, `NoOrphanMarker`, fresh records |
| `LanesProofs` | `LanesInOrder`, `RunningTurnsDriven` | `LaneInOrder`, `RunningIsDriven`, if `Steady` |
| | `CapHolds` | `CapRespected`, if `Steady` and `Counted` |
| | `NothingStaysAsleep` | `NothingSleeps`, if `Steady`, `Counted` and `Scheduled` |
| `TurnLifeProofs` | `JobsLive`, `OneLiveTurn`, `OneDrive`, `EndingsAreFinal`, `OneMessage`, `MovesKeepJobWhole` | `ImplementsJobLife`: TurnLife implements JobLife; `NoStrandedTurn`, `NoZombieDrive`, `EndingsStick`, `MessageFollowsJob`, `MovedJobIsWhole`; if `Calm` |
| `EventStreamProofs` | `StreamImplementsFeed`, `StreamCatchesUp`, `StreamTypes` | `ImplementsFeed`: EventStream implements EventFeed; `CaughtUp` |
| `ClientProofs` | `RevokeCutsSessions`, `LastOwnerStays` | `RevokedIsCut`, `OwnerStays` |
| | `AnswersCount`, `TextArrivesWhole` | `AnswersCountOnce`, `TextIsWhole` |
| `HostProofs` | `SecretsKept`, `HistoryKept`, `CopiesAreWhole`, `LocksEndWithTurns`, `BotsHaveFiles`, `StopsWhole`, `UnitsOutliveHosts` | `NoSecretLost`, `HistoryWhole`, `ResolvedIsWhole`, `LockEndsWithTurn`, `BotHasWorkspace`, `StoppedIsDead`, `UnitOutlivesHost` |
| | `RequestsComplete`, `CostIsWhole`, `LowRunsReadOnly` | `RequestIsComplete`, `PricedIsWhole`, `LowIsReadOnly` |
| | `MemoriesEarned` | `StoredIsEarned`, if not `LateGrowth` |
| `DomainProofs` | `ApprovedToolsRun`, `DeliveriesLand`, `PagesInScope`, `RevokedStays`, `RunsOnce`, `WalksEveryRun`, `OverviewTells` | `ApprovedToolsOnly`, `LandsAsDecided`, `SharedInScope`, `RevokeSticks`, `RunsOnceInBudget`, `CountsEveryRun`, `OverviewIsRight` |

Every invariant that a passing run checks is stated by one of these theorems.

**Hypotheses.** The theorems of three modules exclude cases, because in them the
property fails, of the code as of the model:

- `Steady` (Lanes): no crash and no move. After a crash a lane can have a second
  open turn (run `lanes_resume_crash`). A moved job keeps its age and is behind
  the messages of the lane it comes to, so that order by age is not what a move
  promises.
- `Counted` (Lanes, for the cap and the waking): no close and no follow-up messages. Both
  `cancel_agent` and `revive` write a lane's status over the turn it may have
  open, and the cap counts lanes by that status (section 6).
- `Scheduled` (Lanes, for the waking only): all jobs are a routine's.
  `queue_on_lane` reads the cap after its job is stored. `deliver` reads it
  before, and then a job can stay held (run `lanes_held`).
- `Calm` (TurnLife): no routine messages, and not both moves and failing drives.
  `queue_on_lane` stores job and turn without the job lock (run `turn_routine`);
  `record_turn_failure` looks at the lane the job is on by then (run
  `turn_fail_move`).
- not `LateGrowth` (MemoryStore): the owner does not lengthen a text that a turn
  is promoting to the pinned tier. `update_text` counts the row in the tier it
  has, so that the two together can exceed the budget (section 6).

**OpLog.** None of the properties is inductive alone. That an op commits once
needs to know that a run which stored an event still owns its row (`CommitInv`).
That in turn needs that nobody else writes the row while the run is inside the
lock (`RunInv`), which needs that the lock's holder is exactly the call inside
`claim_op` (`LockInv`). Answers agree because a result row always belongs to a
run that was itself answered with it (`DoneInv`, `AnswerInv`). A crash is the
step that would break a weaker invariant: it releases every lock and leaves the
rows, so ownership has to be carried by the row and the outcome, not by the
lock.

**Lanes.** The rows of a job and of its newest turn agree (`RowInv`), a lane's
lock has one holder and a running turn has a task (`TaskInv`), a lane has at
most one open turn and what waits on it is younger than what ran (`LaneInv`).
The pump claims the oldest queued job of its lane: that it is the right one is
`LeastElement` of `Induction`, applied to the ages of the queued jobs. The cap
holds for the union of the lanes whose status occupies a slot and the lanes
that have reserved one (`Taken` in `CapInv`). `_reserve` adds to that set only
below the cap, and a claim moves a lane from the second kind to the first;
counting either kind alone is not inductive.

That nothing sleeps is about wake-ups that are still under way. A lane is asleep
if it has queued work and no pump, kick or delivery is about to look at it.
`SlotInv`: if a lane is asleep, somebody is at work who calls `_open_slots` before
he stops, or the cap is taken by the lanes that hold a turn and those that are
about to ask for a slot. The step that matters is `_open_slots` itself: it wakes
the oldest sleeping lanes up to the cap, so that if it leaves one asleep, the
ones it woke fill the cap (`SlotsFill`, by counting). A routine's delivery that
is held saw the cap full with its job stored, and whoever makes room later sees
the job. A paused turn with its last approval has the resume that will claim it
(`AnswerInv`).

**TurnLife.** `LockInv`: whoever is inside the job lock holds it. `RowInv`: a
job has at most one live turn, the newest, on the job's lane, and only while it
is to be done. `MessageInv`: there is one message, and it is with the live turn
or with the cancelled attempt that a move may take up. `TaskInv`: one task a lane
is at work, on a turn of that lane, and is on the board for it. `StayInv`:
without moves a task's job stays on its lane, and is over when its turn is; a
move makes that false, which is why the failing drives are kept apart from it.
`RecordInv`: what a failure record has read is its own turn, and a turn it found
open has since at most been cancelled, never finished or taken up again.
`CallInv`: the turn that a call inside the lock has found stays the only live
one, and if a drive of it still runs, it is the one the call interrupted and
waits for; when the call goes on to persist, none does. `WriteInv`: what a
stored cancel is about to write is the newest turn, live or failed since. With
the last two, what a late write can replace is a failure or a cancel, never what
is done, and never the turn of a job that has gone on. The crash is one more
step: it empties the board, and recovery has to find all of it in the rows.

That TurnLife implements JobLife (`JobsLive`) needs the tries to be a sequence:
the used turns are 1 to n without a gap and a live one is the n-th
(`TriesShape`), both from `RowInv`. What a step does to the rows falls into a few
classes, which the proofs of the invariants share: a turn ends with its job,
has its ending amended, pauses, goes on, moves, is given the message, or the job
restarts. For each class
one lemma (`EndsLife` to `RestartsLife`) names the step of JobLife that it is;
every other action leaves the rows, or their abstract view, as they are.

**EventStream.** `Base` is the type invariant as narrow as the outbox makes it:
every number on its way names a stored event, and a resync a place that is
pruned. `OneSync`: a `sync.since` is asked for, or in service, or its answer is
in the queue, never two of these, and the client knows that it waits. `Hello`:
nothing reaches the client before the session's welcome. With these each step is
a step of `EventFeed` or a stutter, one case per action: only the client's steps
move its place, each past the event that follows it or to a place below the
lowest stored event, and no frame takes it past the head.

That nothing is missing at rest (`CaughtUp`) needs an account of every event on
its way (`Cover`). Without a replay, what the client lacks is in its buffer,
queued, deferred or still to be fanned out (`Settled`). During one it may be
missing everywhere, as long as it comes behind the last page (`LastPage`) or is
in what `sync_since` has read and holds (`LastRead`); this claims nothing of
events that were stored and pruned between two reads. A page that is not the last
one moves the replay ahead of the client, and the next page's answer could end
it there: `NoJump` says that the event at that place is queued before the
answer, or the client has noted that it must ask again, which is what emptying
the buffer does. A session that is closing owes nothing, since all of it is gone
with the connection.

**Access.** A session that is open and ready for a revoked device is one that a
revoke call still has to close. `close_device` closes what it finds in the
registry, so the invariant says that an open session of a device is registered
there (`BoundIsFound`). The interesting session passed its check before the
revocation: it is bound by then and is closed, or it binds later and
`mark_seen`, the second look at the device, refuses it. Without that look the
property fails (the mutant `SeenUnchecked`): the revoke may commit and close the
device's sessions between the look-up and the bind. The last owner
stays because `Revoke` counts and writes in one transaction; a loopback session
may take the last one, on purpose.

**Approvals.** A question is claimed by one client: it answered it and has not
queued the answer yet, or it has (`ClaimInv`). A turn that waits for nothing any
more has decisions to go on with (`HasDecisions`), only calls of the stored
response are open (`AskedRows`), and whoever gave the last answer is on the way
to the resume (`ResumeComes`). Several clients may be; the point is that the last
of them to look finds no request open. While the end of a drive is stored, what
it found open is still open, or its answer is noted as a race (`EndInv`).

**Ticks.** All the text on its way to a client is one line: the frames in the
queue, the ticks held back behind a call or a sync, and the fan-outs that have
not run (`Line`). Each text in it is a run of deltas, a later text of a turn
follows an earlier one, and from the oldest on nothing is missing (`InOrder`);
the bucket goes on where the line ends (`BucketInOrder`), and the next delta that
a client needs is on its way (`Reaches`). A client that connects begins with the
text of the moment, which is where its first tick goes on.

**Host.** Each part of `HostProofs` is one invariant and one lemma per step.

- Secrets: a name's value is in the backend that commands select, or that
  backend has none and it is in the other (`KeptInv`). During a migration the
  selection is the migration's source, also when its half-made copy would select
  itself: then the copy holds nothing but what the source still has
  (`FromRing`). The keyring's index may miss a name only when the age file has
  its value, which is why a migration may go by the index. Before the first
  deletion the new pin is written and every name under way is in the pinned
  backend (`Deleting`).
- GitMetadata: the history is in one directory at every moment (`Home`), and
  once it has left `.git`, what is there is not the bot's own, so a commit to it
  loses nothing. Of the copy only its equality with the backup at the publish
  matters (`StepInv`).
- Installs: a directory that exists is whole, since only a rename of a finished
  tree makes one. Bots: a create is the first call of all and alone until it
  ends. PathLocks: a call that may still take the lock is in a turn that runs, and
  a row that a restart left was taken at most a lease before its expiry.
  ShellRun: what is left of the group when a stop has passed its kill could not
  be signalled by it, or was forked by such a process.
  HostService: an uninstall reaches its unlink only with the host off, and an
  install never writes an empty unit.
- Conversation, cost: what is stored, what auto-approved drives spent and what
  the open drive has sent add up to what was paid, unless the cost is unknown or a
  restart has lost a drive (`UsageInv`).
- Conversation, requests: what a history that is done retains is what its lane
  has been shown, and the history of a turn that is open or paused tells the
  memories of the turn's beginning, and of the others only texts that a newer one
  follows (`TalkInv`); revisions only grow (`Known`). Each return of a tool has its call
  before it, at a place of its own. Compaction is a fold over the places of the
  history: it keeps the call of every return it keeps, and what it drops reads as
  nothing, because the prompt that follows is written against what is left.
- MemoryStore: every unit of pinned text is held by the batch of one turn or by
  one row, and there are at most as many as the budget allows (`BudgetInv`). A
  call decides on a snapshot that may be old. What it has read covers what is held
  by then, since while it has the bot's lock there are only commits and drops,
  which add nothing (`CallInv`).
- Risk: the parse of a line is a fold over its tokens. If it records no write
  (`Accounted`): a redirect waits for its target only if it is the last token, all
  targets discard, and every word of the line is at a place of its own in the
  command it belongs to. So a word that writes cannot be lost by the parser.

**Domain.** Seven theorems of six components, in `DomainProofs`.

- ClaudeTurn: an approval is in the answer of a client, in the wait or in the
  hook's return; wherever it is, some client has given it (`AskInv`).
- Decisions: a connection serves one request at a time, so that while a delivery
  is under way the row its connection recorded last is its own, or still the one
  from before (`OwnRow`). That is what `last_decision_id` relies on; that two
  deliveries under way have two connections is part of the invariant.
- Metrics: reports are never removed, so what a page shows stays true; and of a
  link only the state and the counter change, so that the write of an open
  cannot bring back what a revoke, or the clock, has ended (`LinkInv`).
- Routines: every cursor is ahead of the moment of each run of its routine,
  still at that run's slot, or at a late slot (`OccInv`). A run is queued from a list that may be
  old (`DueOK`): each of its slots is still the cursor's, or the cursor has moved
  past the sweep's moment, and no run of the routine stands between. The owner's
  calls are the difficulty. A call writes what it decided on the row it had
  read, and a flush writes only what it changed, so that two such writes may
  meet in one row. `CallInv` says what keeps this harmless: whoever makes a
  routine active writes a cursor ahead of its own reading of the clock too, or
  finds one there, or the sweep has just done it; if the clock has passed the slot
  by the commit, the slot is late (`CommitRow`). `PlanOK` says the same of the sweep's own write.
- Cron: a wall time has the first instant at which the clock shows it, or none
  if it is skipped (`WallIsFirst`), and later ones that have an instant have a
  later one (`WallsGrow`). So the first match ahead of the clock is the next run
  (`NextIsFirst`), also across the jump, and the count of a walk is the number of
  runs between its start and the place it has reached (`WalkInv`).
- Fleet: the host's spend is a sum over bots of sums over their turns, in the
  sweep, and one sum over the turns, in the overview; over whole numbers they are
  equal because each turn is one bot's (`SumOfParts`), and unless that number is
  the budget itself both sides decide alike. A bot is shown as running because a turn
  that has run since the overview began was running when its agents were read,
  and a turn keeps its agent (`BoardInv`).

**Helpers.** `Induction` derives least and greatest elements of sets of naturals,
induction over an interval (`UpTo`) and induction over a finite set (`OneByOne`)
from the library's facts on well-founded relations. The library's induction
theorems take an operator as a parameter, which no installed prover can
instantiate; the proofs use a set of numbers, or of subsets, instead. A fold of the
community modules unfolds to a recursive function whose existence the provers do
not find. `FoldExists` supplies it: on the subsets of a finite set there is the
function that the fold's recursion describes. With it the sums of Fleet, the
compaction of Conversation and the parse of Risk are reasoned about for data of
any length.

**Only model-checked.** Liveness (`EveryCallEnds`, `QueuedJobsRun`, `CallsEnd`,
`DueIsServed`), because fairness and ENABLED are out of the prover's reach. And
everything in the cases that the hypotheses exclude: the run `lanes_live` (a move
and a crash) reaches some of them.

## 6. Known disagreements

With a run:

- `lanes_held`: `deliver` reads the cap before it stores the job; a slot freed
  in between wakes nobody, and the job stays held on an idle bot.
- `lanes_resume_crash`: after a crash in a resumed turn the lane's queued
  follow-up may start beside it.
- `turn_routine`: `queue_on_lane` stores job and turn without the job lock; an
  awake pump in between leaves a turn that stays queued.
- `turn_fail_move`: a failure recorded late fails the job that was moved in the
  meantime.

Seen while modelling, without a run:

- `protocol/hub.py:188`: after a crash between an op's first event and its
  result, every retry is answered `op_in_progress` until retention ends. As the
  per-op lock serialises calls, that is the only time the answer is given.
- `domain/agents.py:139`: `revive` reads the status and writes `idle` in two
  steps (`RouteTarget` and `Revive` in Lanes); of two follow-ups to a done lane
  the slower can write `idle` over `running`, which the cap then does not count.
  `Counted` leaves it out of the proof, and the passing runs do not reach it.
- `runtime/turn_end.py:65`: a failure is recorded under the lane's lock and a
  cancel is stored under the job's. Each leaves a turn alone that it finds ended
  (`_leave_failure_alone`), but reads the status, waits and writes, so that of two
  that meet the later commit replaces the earlier: failed becomes
  cancelled or the reverse, and the job and its turn may end with different ones
  (`Amend` in JobLife, the exceptions of `EndingsStick`).
- `runtime/worker.py:242`: `cancel_agent` writes `done` over a lane whose pump
  has claimed a message that came after the snapshot.
- `runtime/worker.py:158`: `start_resume` does nothing while its lane is being
  closed; a pause that is not in the close's snapshot then waits for a restart.
- `src/web/src/client/connection.ts:1156`: the buffer is checked before it is
  drained. If an event is missing and exactly as many later ones as the buffer
  holds (500) are stored, each catch-up fills the buffer, meets the missing
  event as one too many, empties it and begins again, until a further event
  comes.
- `store/outbox.py:73`: with the table pruned empty a client that is behind is
  told nothing until the next event.

Approvals and routing:

- `runtime/turn.py:267`: `has_waiting` is asked in a session of its own, before
  the transaction that stores the turn as waiting (`runtime/turn.py:426`). A
  question answered in between, by a card or in the chat, leaves the turn waiting
  with nothing to answer and nobody to resume it; no restart is needed.
- `domain/pending.py:89`: when two clients answer the last approvals of a turn at
  once, a resume may name other calls than those of the latest response.
  `PendingService.resolve` reads the row and writes it in two steps, so that the
  second of two answers can replace the first.
- With a question that does not block and a restart, or a blocking question
  answered while the drive still runs and then a restart, a turn can wait with
  nothing left to answer.
- A follow-up decided from an old context queues behind a turn that waits for
  the user.
- `runtime/runtimes/claude.py:311`: a cancel between the entry in `_waits` and the
  `try` leaves the entry. A turn that ends over an open permission is stored as
  waiting, and its answer starts a new query.

Routines:

- `domain/routines.py:145` and `:166`: an edit or a resume takes the time before it
  commits. If a minute begins in between, the slot it writes can be at or before
  the moment of a sweep that has already caught up; the next sweep runs it too,
  although `run_due` says that an outage gives one catch-up run.
- `domain/routines.py:300`: the pauses of the budget sweep are written from rows
  read earlier: they can replace an owner's pause or revive a cancelled routine,
  and a resume or edit in the same window leaves a paused routine with a next
  run. A run is still queued for a routine paused between the read of the due
  rows and its turn in the sweep.
- `domain/cron.py`: a day such as the 29th of February combined with `*/7` in the
  weekday field passes the check that the schedule can match, and the search for
  its next run then fails in every sweep.

Memory, prompts, cost:

- `memory/context.py:121`: what changed since the last block is rendered as new
  text lines, and only deleted memories are named as removed. The old text of an
  edited memory stays in the lane's context beside the new one: what line 123
  says of a deleted memory, "Leaving it out would keep it in the lane's context
  for good", holds of it too. Two memories with the same text cannot be told apart
  in the block at all.
- An edit that makes a stored memory longer while its promotion is not committed
  can exceed the pinned budget (`LateGrowth` in `MemoryStore`).
- A cancel before the write leaves the batch staged, although
  `runtime/turn_end.py:323` says it is dropped. The staged memories of a paused
  turn are lost with a restart.
- Recovery resumes a crashed resumed drive without `interrupted_usage`, so what
  that drive cost is not charged (`runtime/usage.py:11`).

Files and processes:

- `runtime/recovery.py:97` and `:247`: the turns that a restart ends, failed or
  interrupted, keep their path locks until the lease runs out or the agent's next
  turn ends, although `release_turn` says of the locks "Called when its turn
  ends".
- `tools/shell.py:334`: a group whose members the host may not signal counts as
  gone, so that a setuid child left alone outlives the stop. `tools/shell.py:258`:
  a cancel while the process is being created comes before the `try`; asyncio
  kills the leader, and what it has forked runs on, although `_run` promises that
  "a timeout or cancel stops every child".
- `domain/workspace.py:334`: two agents may take over an expired lock at once.
  Writes in a thread go on after a cancel. `tools/files.py:43`: two edits of a
  file may lose one. The pointer file is not written atomically, and an
  interrupted `git worktree add -b` leaves its branch.
- `tools/shell.py:279`: a cancel during the stop of a call that timed out is not
  shielded from; the stop may end early.
- `runtime/installs.py`: an install beside a remove can leave `current` pointing
  at nothing, and "in use" is checked before it is acted on. `cli.py:429` promises
  a removal that `remove` refuses.
- `sandbox/risk.py`: if an input redirect comes first, the file is taken for the
  program. `sandbox/risk.py:188`: the lexer returns operators that stand together
  as one token, which is neither a separator nor a redirect and becomes a word of
  the command: `ls ;> f` is scored low, and `sh` writes `f`.

Secrets and service:

- A kill in the middle of a copy to the age file, with no backend pinned, makes
  the next process select the half-filled file. Two sevn processes that change
  the secrets at once can lose one change.
- `service/launchd.py:101`: after a boot-out that timed out, a repeated install
  starts the old plist. `service/systemd.py`: likewise after a daemon-reload that
  failed; after an uninstall whose last reload failed, `restart` can start the
  unit that is still loaded. `cli.py:613`: a pair without a pin changes the
  identity.
- `cli.py:587`: `sevn devices revoke` writes offline when the dial times out, or
  when a host starts after the look for one; the device's open sessions then stay,
  although the comment below says "never write offline behind a running host's
  back".

Bots, overview, shares:

- `domain/bots.py:182`: the row is deleted before the files are purged, and a
  create that dies leaves a workspace. A lane that is opening its workspace makes
  files again after the purge; a lane spawned between the read of the ids and the
  delete keeps its worktree. Events of two updates can be stored in the other
  order than their commits.
- `domain/fleet.py`: the overview's parts are of different moments. With a budget
  of zero it shows no level while the sweep pauses. `domain/fleet.py:452` adds the
  day's costs in one sum of floats and `domain/spend.py:38` per bot first, so that
  at a spend of exactly the budget one may say over and the other not.
- `domain/shares.py:195`: two openings at once count as one. The day's change of
  a shared metric may be computed from an earlier point that may not be shared.

## 7. What is not modelled

Observability: spans, logs, redaction and diagnostics change no state. Text,
prompts and model output: a decider or a model answers anything. Cryptography,
hashes, archives and downloads are taken by their outcome. Parsing of frames,
static files, cookies, printing of commands. The user interface of the web
client. `deploy/` and `spikes/`: scripts and experiments that the
host does not import. Failures of SQLite itself, other than a
commit that fails where a module says so.

The instances are products of nothing: OpLog and EventStream meet in `append`,
Lanes and TurnLife in the job lock, Approvals and TurnLife in the resume,
Routines and Lanes in `queue_on_lane`, and each pair states the same behaviour
of what they share instead of being checked together.

## 8. Plan

Modelled and checked: every component of section 1 except observability.
Two components implement an abstract specification, `ImplementsFeed` and
`ImplementsJobLife`, and both are proved, as is every invariant of the passing
runs.

Still to do, in this order:

1. A run of Lanes in which follow-ups revive a lane that already runs under a full
   cap, with a property of the cap that holds there, and Approvals composed with
   the resume of TurnLife.
2. Weaker hypotheses for the theorems of Lanes: what is left of its order after a
   move, and of its waking beside a close.
