------------------------------ MODULE Decisions ------------------------------
(***************************************************************************)
(* Which lane a message goes to: the routing context, the chain of         *)
(* deciders (decisions/: rules, jev, a model, Ollama, a CLI, the default), *)
(* the decision log, and what deliver does with the answer.  Every decider *)
(* is a slow call: lanes run, wait, close and open while it is made, so    *)
(* the context is old when _act uses the decision.  A decider may answer   *)
(* anything, any intent and any lane id.                                   *)
(***************************************************************************)
EXTENDS Naturals, Sequences, FiniteSets

CONSTANTS
  LaneBot,       \* each lane's bot, the lanes that are not open yet included
  Messages, MessageBot,  \* messages and the bot each is for
  Connections,   \* of clients: each handles one request at a time
  Providers,     \* decisions.provider: "jev", "llm" or "rules"
  Intents,       \* intents a decider may answer
  NoLane,        \* no lane's id
  HintKinds,     \* what a message may say of its lane
  MaxEvents,     \* bound: changes of lanes by others
  MaxRejected    \* bound: replies of deciders that are not accepted

LaneIds  == DOMAIN LaneBot
Open     == {"idle", "running", "waiting"}
Fresh    == {"new_request", "chit_chat"}
Targeted == {"follow_up", "steer", "answer", "cancel"}
Steps    == <<"jev", "llm", "ollama", "cli", "default">>

VARIABLES
  lane,       \* lane -> status of its agent row, "absent" before it is spawned
  question,   \* lanes with a waiting question
  msg,        \* message -> where its delivery is, and what it holds
  log,        \* decision_log: rows in the order they were written
  lastId,     \* session -> _last_id, the row its task recorded last; 0 for none
  job,        \* message -> the job row it became
  touched,    \* <<message, lane>>: lanes a delivery changed or queued on
  events

routeVars == <<lane, question, msg, log, lastId, job, touched, events>>

NoJob      == [state |-> "none", lane |-> NoLane, decision |-> 0]
Decision(intent, target, path, ask) == [intent |-> intent, target |-> target, path |-> path, ask |-> ask]

RouteTypeOK ==
  /\ \A a \in LaneIds : lane[a] \in Open \cup {"absent", "done"}
  /\ question \subseteq LaneIds
  /\ \A s \in Connections : lastId[s] \in 0..Len(log)
  /\ \A m \in Messages : job[m].state \in {"none", "queued", "waiting", "done", "refused"}

RouteInit ==
  /\ lane \in [LaneIds -> {"absent", "idle"}]
  /\ question = {}
  /\ msg = [m \in Messages |-> [at |-> "new"]]
  /\ log = <<>>
  /\ lastId = [s \in Connections |-> 0]
  /\ job = [m \in Messages |-> NoJob]
  /\ touched = {}
  /\ events = 0

-----------------------------------------------------------------------------
(* Lanes change by themselves: a turn starts, asks, ends or is closed.       *)
LaneEvent(a) ==
  /\ events < MaxEvents
  /\ events' = events + 1
  /\ \/ lane[a] \in {"idle", "done"} /\ lane' = [lane EXCEPT ![a] = "running"] /\ UNCHANGED question
     \/ lane[a] = "running" /\ lane' = [lane EXCEPT ![a] = "waiting"] /\ question' = question \cup {a}
     \/ lane[a] \in Open /\ lane' = [lane EXCEPT ![a] = "done"] /\ question' = question \ {a}
  /\ UNCHANGED <<msg, log, lastId, job, touched>>

-----------------------------------------------------------------------------
(* route: the context is the bot's open lanes and their questions, now.      *)
Busy(s) == \E m \in Messages : msg[m].at \notin {"new", "over"} /\ msg[m].session = s

LoadContext(m, s, hint, recent) ==
  /\ msg[m].at = "new"
  /\ ~Busy(s)
  /\ LET open == {a \in LaneIds : LaneBot[a] = MessageBot[m] /\ lane[a] \in Open}
     IN  msg' = [msg EXCEPT ![m] =
                   [at |-> "rules", session |-> s, hint |-> hint, recent |-> recent,
                    before |-> lastId[s], open |-> open, asked |-> question \cap open]]
  /\ UNCHANGED <<lane, question, log, lastId, job, touched, events>>

\* _builtin: a reply, a message to a lane (an answer when the lane waits on a
\* question), /new, /continue with one match, and the one fresh question.
\* The chain calls it with empty_is_new false.
Ruled(c) ==
  LET follow(a) == {Decision("follow_up", a, "rule", FALSE)}
      answer(a) == {Decision("answer", a, "rule", FALSE)}
  IN  CASE c.hint.kind = "reply" -> follow(c.hint.lane)
        [] c.hint.kind = "lane"  -> IF c.hint.lane \in c.asked THEN answer(c.hint.lane)
                                    ELSE follow(c.hint.lane)
        [] c.hint.kind = "new"   -> {Decision("new_request", NoLane, "rule", FALSE)}
        [] c.hint.kind = "continue" /\ c.hint.lane \in c.open -> follow(c.hint.lane)
        [] OTHER -> IF Cardinality(c.asked) = 1 /\ c.recent
                    THEN answer(CHOOSE a \in c.asked : TRUE) ELSE {}

\* The faulty record_attempt that keeps the last row in one variable of the process.
RecordShared(m, accepted) ==
  /\ log' = Append(log, [of |-> m, accepted |-> accepted])
  /\ lastId' = [s \in Connections |-> Len(log')]

\* record_attempt: one row, remembered by the task that recorded it.
Record(m, accepted) ==
  /\ log' = Append(log, [of |-> m, accepted |-> accepted])
  /\ lastId' = [lastId EXCEPT ![msg[m].session] = Len(log')]

Chosen(m, d) == msg' = [msg EXCEPT ![m] = [at |-> "decided", session |-> msg[m].session,
                                           before |-> msg[m].before, decision |-> d]]

\* decide, its first part: a rule settles it; provider = rules stops there and
\* records nothing; provider = llm skips jev.
Rules(m, provider) ==
  /\ msg[m].at = "rules"
  /\ IF Ruled(msg[m]) # {}
     THEN \E d \in Ruled(msg[m]) : Record(m, TRUE) /\ Chosen(m, d)
     ELSE /\ UNCHANGED <<log, lastId>>
          /\ IF provider = "rules" THEN Chosen(m, Decision("new_request", NoLane, "rule", FALSE))
             ELSE msg' = [msg EXCEPT ![m].at = IF provider = "llm" THEN "llm" ELSE "jev"]
  /\ UNCHANGED <<lane, question, job, touched, events>>

After(step) == Steps[1 + (CHOOSE i \in DOMAIN Steps : Steps[i] = step)]

\* A decider with no key, no server, an error or a reply that does not parse;
\* the CLI also when it is not allowed or the bot's runtime has none.
Unavailable(m, step) ==
  /\ step # "default"
  /\ msg[m].at = step
  /\ msg' = [msg EXCEPT ![m].at = After(step)]
  /\ UNCHANGED <<lane, question, log, lastId, job, touched, events>>

Rejected == Cardinality({i \in DOMAIN log : ~log[i].accepted})

\* The lanes a reply may name. jev is asked for one only when some are open, and
\* a model names what it likes.
JevTargets(c)    == IF c.open = {} THEN {NoLane} ELSE LaneIds \cup {NoLane}
ReplyTargets(m, step) == IF step = "jev" THEN JevTargets(msg[m]) ELSE LaneIds \cup {NoLane}

\* _keep: a targeted intent must name a lane of the context.
Keep(d, c) == d.intent \in Targeted => d.target \in c.open

\* attempt: the reply, accepted when it is confident enough (jev_accepts,
\* step_accepts) and _keep lets it.  Every reply is recorded, accepted or not.
Attempt(m, step, intent, target, confident) ==
  /\ step # "default"
  /\ msg[m].at = step
  /\ target \in ReplyTargets(m, step)
  /\ LET d == Decision(intent, target, step, FALSE)
         accepted == confident /\ Keep(d, msg[m])
     IN  /\ ~accepted => Rejected < MaxRejected
         /\ Record(m, accepted)
         /\ IF accepted THEN Chosen(m, d) ELSE msg' = [msg EXCEPT ![m].at = After(step)]
  /\ UNCHANGED <<lane, question, job, touched, events>>

\* DefaultDecider: the only open lane, a new one when there is none, else ask.
Default(m) ==
  /\ msg[m].at = "default"
  /\ LET open == msg[m].open
         d == CASE Cardinality(open) = 0 -> Decision("new_request", NoLane, "default", FALSE)
                [] Cardinality(open) = 1 -> Decision("follow_up", CHOOSE a \in open : TRUE,
                                                     "default", FALSE)
                [] OTHER -> Decision("new_request", NoLane, "user", TRUE)
     IN  Record(m, TRUE) /\ Chosen(m, d)
  /\ UNCHANGED <<lane, question, job, touched, events>>

-----------------------------------------------------------------------------
(* deliver, with the decision.                                               *)

\* _agent_on_bot: the lane exists and is the bot's.
OnBot(m, a) == a \in LaneIds /\ lane[a] # "absent" /\ LaneBot[a] = MessageBot[m]

FirstOpen(m) == {a \in LaneIds : LaneBot[a] = MessageBot[m] /\ lane[a] \in Open}
Spare(m)     == {a \in LaneIds : LaneBot[a] = MessageBot[m] /\ lane[a] = "absent"}

\* decision_id: the row recorded since the delivery began, none when no step was.
DecisionId(m) ==
  LET after == lastId[msg[m].session]
  IN  IF after # msg[m].before THEN after ELSE 0

Landed(m, a, state) ==
  /\ msg' = [msg EXCEPT ![m] = [at |-> "store", session |-> msg[m].session, lane |-> a,
                                state |-> state, decision |-> DecisionId(m)]]
  /\ touched' = touched \cup {<<m, a>>}
  /\ UNCHANGED <<log, lastId, job, events>>

\* _spawn: a new lane of the bot.
SpawnLane(m, state) ==
  \E a \in Spare(m) :
    /\ lane' = [lane EXCEPT ![a] = "idle"]
    /\ Landed(m, a, state)
    /\ UNCHANGED question

\* ask_user: the message waits on an open lane for the user's choice.
ActAsk(m) ==
  /\ msg[m].at = "decided" /\ msg[m].decision.ask
  /\ \/ FirstOpen(m) # {} /\ \E a \in FirstOpen(m) : Landed(m, a, "waiting") /\ UNCHANGED <<lane, question>>
     \/ FirstOpen(m) = {} /\ SpawnLane(m, "waiting")

ActFresh(m) ==
  /\ msg[m].at = "decided" /\ ~msg[m].decision.ask
  /\ msg[m].decision.intent \in Fresh \/ msg[m].decision.target = NoLane
  /\ SpawnLane(m, "queued")

\* The targeted intents, on the lane as it is now.  A steer is taken by a
\* running turn only; an answer closes the lane's questions and frees it.
ActOn(m, a, intent, steered) ==
  CASE intent = "follow_up" ->
         /\ lane' = [lane EXCEPT ![a] = IF @ = "done" THEN "idle" ELSE @]
         /\ Landed(m, a, "queued") /\ UNCHANGED question
    [] intent = "steer" ->
         /\ Landed(m, a, IF steered /\ lane[a] = "running" THEN "done" ELSE "queued")
         /\ UNCHANGED <<lane, question>>
    [] intent = "answer" ->
         /\ question' = question \ {a}
         /\ lane' = [lane EXCEPT ![a] = IF @ = "waiting" THEN "idle" ELSE @]
         /\ Landed(m, a, "queued")
    [] intent = "cancel" ->
         /\ lane' = [lane EXCEPT ![a] = "done"]
         /\ question' = question \ {a}
         /\ Landed(m, a, "done")
    [] OTHER -> Landed(m, a, "queued") /\ UNCHANGED <<lane, question>>

ActTargeted(m, steered) ==
  /\ msg[m].at = "decided" /\ ~msg[m].decision.ask
  /\ msg[m].decision.intent \notin Fresh /\ msg[m].decision.target # NoLane
  /\ OnBot(m, msg[m].decision.target)
  /\ ActOn(m, msg[m].decision.target, msg[m].decision.intent, steered)

\* A lane that is not the bot's is not_found and the message is refused.
ActRefuse(m) ==
  /\ msg[m].at = "decided" /\ ~msg[m].decision.ask
  /\ msg[m].decision.intent \notin Fresh /\ msg[m].decision.target # NoLane
  /\ ~OnBot(m, msg[m].decision.target)
  /\ msg' = [msg EXCEPT ![m] = [at |-> "over"]]
  /\ job' = [job EXCEPT ![m].state = "refused"]
  /\ UNCHANGED <<lane, question, log, lastId, touched, events>>

\* The job and the message are stored, with the decision row's id.
Store(m) ==
  /\ msg[m].at = "store"
  /\ job' = [job EXCEPT ![m] = [state |-> msg[m].state, lane |-> msg[m].lane,
                                decision |-> msg[m].decision]]
  /\ msg' = [msg EXCEPT ![m] = [at |-> "over"]]
  /\ UNCHANGED <<lane, question, log, lastId, touched, events>>

Hints == [kind : HintKinds \cap {"reply", "lane", "continue"}, lane : LaneIds]
           \cup [kind : HintKinds \cap {"none", "new"}, lane : {NoLane}]

RouteNext ==
  \/ \E a \in LaneIds : LaneEvent(a)
  \/ \E m \in Messages :
       \/ \E s \in Connections, hint \in Hints, recent \in BOOLEAN : LoadContext(m, s, hint, recent)
       \/ \E p \in Providers : Rules(m, p)
       \/ \E i \in 1..4 :
            \/ Unavailable(m, Steps[i])
            \/ \E intent \in Intents, target \in LaneIds \cup {NoLane}, sure \in BOOLEAN :
                 Attempt(m, Steps[i], intent, target, sure)
       \/ Default(m)
       \/ ActAsk(m) \/ ActFresh(m) \/ ActRefuse(m)
       \/ \E steered \in BOOLEAN : ActTargeted(m, steered)
       \/ Store(m)

RouteSpec == RouteInit /\ [][RouteNext]_routeVars

-----------------------------------------------------------------------------
(* A message lands as it was decided. It never acts on another bot's lane,    *)
(* whatever lane id a client or a decider names: it does not steer, answer,  *)
(* cancel, revive or queue on one (_act); and the decision row its job names *)
(* is the accepted decision of this message, also while others are decided   *)
(* at the same time: mark_corrected writes the user's correction there       *)
(* (deliver, last_decision_id).                                              *)
LandsAsDecided ==
  /\ \A p \in touched : LaneBot[p[2]] = MessageBot[p[1]]
  /\ \A m \in Messages : job[m].decision # 0 =>
       log[job[m].decision].of = m /\ log[job[m].decision].accepted
=============================================================================
