---------------------------- MODULE DomainProofs ----------------------------
(***************************************************************************)
(* Theorems of six components of the domain, each with an inductive         *)
(* invariant of its own: the permissions of Claude's turns, the delivery of *)
(* messages, the links that share metrics, the routine sweep, the count of  *)
(* a schedule's runs, and the owner's overview. The components share no     *)
(* variable; each section speaks of one specification.                      *)
(***************************************************************************)
EXTENDS Decisions, ClaudeTurn, Metrics, Routines, Cron, Fleet, Induction, FiniteSetTheorems

(* Claude's permissions. An approval is on its way from the client that wrote *)
(* it to the hook that waits; wherever it is, some client has given it.      *)

(* A call that has written the answer, and has not given it to the hook yet. *)
Carried == {"written", "awaiting"}

AskInv ==
    /\ reply \in [Answerers -> {NoWait} \cup [at : {"read"} \cup Carried, use : Uses,
                                           how : {"approve", "deny"}]]
    /\ wait \in [Uses -> {NoWait, "open", "approve", "deny"}]
    /\ \A k \in Answerers :
          reply[k] # NoWait /\ reply[k].at \in Carried /\ reply[k].how = "approve"
             => reply[k].use \in approved
    /\ \A u \in Uses : wait[u] = "approve" => u \in approved
    /\ ran \subseteq approved

LEMMA AskStep == AskInv /\ [ClaudeNext]_clVars => AskInv'
<1> SUFFICES ASSUME AskInv, [ClaudeNext]_clVars PROVE AskInv'
  OBVIOUS
<1> USE ClaudeTurnAssumption
<1>1. CASE OpenClient \/ StreamBreaks \/ StoreOutcome \/ CancelTurn \/ ResumeRun \/ NextTurn
  BY <1>1 DEF OpenClient, StreamBreaks, StoreOutcome, CancelTurn, ResumeRun, NextTurn, Stream,
              Asking, ExpirePermits, AskInv, Carried
<1>2. CASE \E m \in SdkMessages : Receive(m)
  BY <1>2 DEF Receive, Asking, AskInv
<1>3. CASE Close
  BY <1>3 DEF Close, CancelHooks, AskInv, Carried
<1>4. CASE RestartClaude
  BY <1>4 DEF RestartClaude, ExpirePermits, AskInv
<1>5. ASSUME NEW u \in Uses, AskBegins(u) \/ AskStores(u) \/ AskListens(u) \/ AskReturns(u)
      PROVE  AskInv'
  BY <1>5 DEF AskBegins, AskStores, AskListens, AskReturns, AskInv, Carried
<1>6. ASSUME NEW k \in Answerers, AnswerReads(k) PROVE AskInv'
  BY <1>6 DEF AnswerReads, AskInv, Carried
<1>7. ASSUME NEW k \in Answerers, AnswerWrites(k) PROVE AskInv'
  BY <1>7 DEF AnswerWrites, AskInv, Carried
<1>8. ASSUME NEW k \in Answerers, AnswerReleases(k) PROVE AskInv'
  BY <1>8 DEF AnswerReleases, AskInv, Carried
<1>9. ASSUME NEW k \in Answerers, AnswerEnds(k) PROVE AskInv'
  BY <1>9 DEF AnswerEnds, AskInv, Carried
<1>10. CASE UNCHANGED clVars
  BY <1>10 DEF clVars, AskInv
<1> QED
  BY <1>1, <1>2, <1>3, <1>4, <1>5, <1>6, <1>7, <1>8, <1>9, <1>10 DEF ClaudeNext

(* Claude's hook lets a tool call run only if some client approved it, for    *)
(* any number of turns, calls, clients, disconnects and restarts             *)
(* (ClaudeRuntime._ask, answer, close).                                      *)
THEOREM ApprovedToolsRun == ClaudeSpec => []ApprovedToolsOnly
<1>1. ClaudeInit => AskInv
  BY ClaudeTurnAssumption DEF ClaudeInit, AskInv
<1>2. AskInv => ApprovedToolsOnly
  BY DEF AskInv, ApprovedToolsOnly
<1> QED
  BY <1>1, <1>2, AskStep, PTL DEF ClaudeSpec

-----------------------------------------------------------------------------
(* Routing. A delivery has its connection to itself, so that the row its      *)
(* connection recorded last is its own, once it has recorded one.            *)
Asks == {"rules", "jev", "llm", "ollama", "cli", "default"}
Under == Asks \cup {"decided", "store"}
Rows == Seq([of : Messages, accepted : BOOLEAN])

(* The row a delivery will name is its own, and accepted once it is decided.  *)
OwnRow(m) ==
    /\ msg[m].session \in Connections
    /\ lastId[msg[m].session] # msg[m].before =>
          /\ lastId[msg[m].session] \in 1..Len(log)
          /\ log[lastId[msg[m].session]].of = m
          /\ msg[m].at # "rules"
          /\ msg[m].at = "decided" => log[lastId[msg[m].session]].accepted

Lands(m, i) == i # 0 => i \in 1..Len(log) /\ log[i].of = m /\ log[i].accepted

RouteInv ==
    /\ log \in Rows
    /\ lastId \in [Connections -> Nat] /\ \A s \in Connections : lastId[s] <= Len(log)
    /\ msg = [m \in Messages |-> msg[m]] /\ job = [m \in Messages |-> job[m]]
    /\ \A m \in Messages :
          /\ msg[m].at \in {"new", "over"} \cup Under
          /\ msg[m].at \in Under => msg[m].session \in Connections
          /\ msg[m].at \in Asks =>
                msg[m] = [at |-> msg[m].at, session |-> msg[m].session, hint |-> msg[m].hint,
                          recent |-> msg[m].recent, before |-> msg[m].before,
                          open |-> msg[m].open, asked |-> msg[m].asked]
          /\ msg[m].at \in Asks \cup {"decided"} => OwnRow(m)
          /\ msg[m].at = "store" => Lands(m, msg[m].decision)
          /\ Lands(m, job[m].decision)
    /\ \A m, n \in Messages :
          msg[m].at \in Under /\ msg[n].at \in Under /\ msg[m].session = msg[n].session => m = n
    /\ \A p \in touched : LaneBot[p[2]] = MessageBot[p[1]]

LEMMA RouteStarts == RouteInit => RouteInv
<1> SUFFICES ASSUME RouteInit PROVE RouteInv
  OBVIOUS
<1>1. log \in Rows /\ Len(log) = 0
  BY DEF RouteInit, Rows
<1> QED
  BY <1>1 DEF RouteInit, RouteInv, NoJob, Lands, Under, Asks

(* A row is added behind the others.                                         *)
LEMMA Recorded ==
    ASSUME RouteInv, NEW m \in Messages, NEW accepted \in BOOLEAN, Record(m, accepted),
           msg[m].at \in Under
    PROVE  /\ log' \in Rows /\ Len(log') = Len(log) + 1
           /\ \A i \in 1..Len(log) : log'[i] = log[i]
           /\ log'[Len(log')].of = m /\ log'[Len(log')].accepted = accepted
           /\ lastId' = [lastId EXCEPT ![msg[m].session] = Len(log')]
<1>1. log \in Rows /\ log' = Append(log, [of |-> m, accepted |-> accepted])
  BY DEF RouteInv, Record
<1>2. lastId' = [lastId EXCEPT ![msg[m].session] = Len(log')]
  BY DEF Record
<1> QED
  BY <1>1, <1>2 DEF Rows

(* Any step that records a row for a message in its chain, and moves it on.  *)
LEMMA ChainStep ==
    ASSUME RouteInv, NEW m \in Messages, NEW accepted \in BOOLEAN, Record(m, accepted),
           msg[m].at \in Asks, UNCHANGED <<job, touched>>,
           NEW x, msg' = [msg EXCEPT ![m] = x], x.session = msg[m].session,
           x.before = msg[m].before,
           x.at \in (Asks \ {"rules"}) \cup {"decided"}, x.at = "decided" => accepted,
           x.at \in Asks => x = [msg[m] EXCEPT !.at = x.at]
    PROVE  RouteInv'
<1>1. /\ log' \in Rows /\ Len(log') = Len(log) + 1 /\ Len(log) \in Nat
      /\ \A i \in 1..Len(log) : log'[i] = log[i]
      /\ log'[Len(log')].of = m /\ log'[Len(log')].accepted = accepted
      /\ lastId' = [lastId EXCEPT ![msg[m].session] = Len(log')]
  BY Recorded DEF Under, RouteInv, Rows
<1>2. msg[m].session \in Connections
  BY DEF RouteInv, Under
<1>3. lastId' \in [Connections -> Nat] /\ \A s \in Connections : lastId'[s] <= Len(log')
  BY <1>1, <1>2 DEF RouteInv
<1>4. msg' = [n \in Messages |-> msg'[n]] /\ job' = [n \in Messages |-> job'[n]]
  BY DEF RouteInv
<1>5. \A n \in Messages : msg'[n] = IF n = m THEN x ELSE msg[n]
  BY DEF RouteInv
<1>6. ASSUME NEW n \in Messages, NEW i, Lands(n, i)
      PROVE  i # 0 => i \in 1..Len(log') /\ log'[i].of = n /\ log'[i].accepted
  BY <1>1, <1>6 DEF Lands
<1>7. ASSUME NEW n \in Messages
      PROVE  /\ msg'[n].at \in {"new", "over"} \cup Under
             /\ msg'[n].at \in Under => msg'[n].session \in Connections
             /\ msg'[n].at \in Asks =>
                   msg'[n] = [at |-> msg'[n].at, session |-> msg'[n].session,
                              hint |-> msg'[n].hint, recent |-> msg'[n].recent,
                              before |-> msg'[n].before,
                              open |-> msg'[n].open, asked |-> msg'[n].asked]
             /\ msg'[n].at \in Asks \cup {"decided"} => OwnRow(n)'
             /\ msg'[n].at = "store" => Lands(n, msg[n].decision)'
             /\ Lands(n, job[n].decision)'
  <2>1. Lands(n, job[n].decision)'
    BY <1>6 DEF RouteInv, Lands
  <2>2. CASE n = m
    <3>1. msg'[n] = x
      BY <1>5, <2>2
    <3>2. OwnRow(n)'
      BY <3>1, <2>2, <1>1, <1>2, <1>3 DEF OwnRow, RouteInv
    <3>3. x.at \in Asks =>
             x = [at |-> x.at, session |-> x.session, hint |-> x.hint, recent |-> x.recent,
                  before |-> x.before, open |-> x.open, asked |-> x.asked]
      BY DEF RouteInv
    <3> QED
      BY <3>1, <3>2, <3>3, <2>1, <1>2 DEF Under, Asks
  <2>3. CASE n # m
    <3>1. msg'[n] = msg[n]
      BY <1>5, <2>3
    <3>2. msg[n].at \in Asks \cup {"decided"} => OwnRow(n)'
      <4> SUFFICES ASSUME msg[n].at \in Asks \cup {"decided"} PROVE OwnRow(n)'
        OBVIOUS
      <4>1. OwnRow(n) /\ msg[n].session # msg[m].session
        BY <2>3 DEF RouteInv, Under
      <4>2. lastId'[msg[n].session] = lastId[msg[n].session]
        BY <4>1, <1>1 DEF OwnRow, RouteInv
      <4> QED
        BY <4>1, <4>2, <3>1, <1>1 DEF OwnRow
    <3>3. msg[n].at = "store" => Lands(n, msg[n].decision)'
      BY <1>6, <3>1 DEF RouteInv, Lands
    <3>4. /\ msg[n].at \in {"new", "over"} \cup Under
          /\ msg[n].at \in Under => msg[n].session \in Connections
          /\ msg[n].at \in Asks =>
                msg[n] = [at |-> msg[n].at, session |-> msg[n].session, hint |-> msg[n].hint,
                          recent |-> msg[n].recent, before |-> msg[n].before,
                          open |-> msg[n].open, asked |-> msg[n].asked]
      BY DEF RouteInv
    <3> QED
      BY <3>1, <3>2, <3>3, <3>4, <2>1
  <2> QED
    BY <2>2, <2>3
<1>8. \A n, k \in Messages :
         msg'[n].at \in Under /\ msg'[k].at \in Under /\ msg'[n].session = msg'[k].session
            => n = k
  BY <1>5 DEF RouteInv, Under
<1> QED
  BY <1>1, <1>3, <1>4, <1>7, <1>8 DEF RouteInv

(* Any step that moves one delivery on and records nothing.                   *)
LEMMA MessageStep ==
    ASSUME RouteInv, NEW m \in Messages, UNCHANGED <<log, lastId>>,
           NEW x, msg' = [msg EXCEPT ![m] = x], x.at \in {"over"} \cup Under,
           x.at \in Under =>
              /\ x.session \in Connections
              /\ \A n \in Messages : msg[n].at \in Under /\ msg[n].session = x.session => n = m,
           x.at \in Asks =>
              x = [at |-> x.at, session |-> x.session, hint |-> x.hint, recent |-> x.recent,
                   before |-> x.before, open |-> x.open, asked |-> x.asked],
           x.at \in Asks \cup {"decided"} /\ lastId[x.session] # x.before =>
              /\ lastId[x.session] \in 1..Len(log)
              /\ log[lastId[x.session]].of = m
              /\ x.at # "rules"
              /\ x.at = "decided" => log[lastId[x.session]].accepted,
           x.at = "store" => Lands(m, x.decision),
           job' = [n \in Messages |-> job'[n]],
           \A n \in Messages : Lands(n, job'[n].decision),
           \A p \in touched' : LaneBot[p[2]] = MessageBot[p[1]]
    PROVE  RouteInv'
<1>1. msg' = [n \in Messages |-> msg'[n]]
  BY DEF RouteInv
<1>2. \A n \in Messages : msg'[n] = IF n = m THEN x ELSE msg[n]
  BY DEF RouteInv
<1>3. ASSUME NEW n \in Messages
      PROVE  /\ msg'[n].at \in {"new", "over"} \cup Under
             /\ msg'[n].at \in Under => msg'[n].session \in Connections
             /\ msg'[n].at \in Asks =>
                   msg'[n] = [at |-> msg'[n].at, session |-> msg'[n].session,
                              hint |-> msg'[n].hint, recent |-> msg'[n].recent,
                              before |-> msg'[n].before,
                              open |-> msg'[n].open, asked |-> msg'[n].asked]
             /\ msg'[n].at \in Asks \cup {"decided"} => OwnRow(n)'
             /\ msg'[n].at = "store" => Lands(n, msg[n].decision)'
             /\ Lands(n, job[n].decision)'
  <2>1. Lands(n, job[n].decision)'
    BY DEF Lands
  <2>2. CASE n = m
    <3>1. msg'[n] = x
      BY <1>2, <2>2
    <3>2. x.at \in Asks \cup {"decided"} => OwnRow(n)'
      BY <3>1, <2>2 DEF OwnRow, Under
    <3> QED
      BY <3>1, <3>2, <2>1, <2>2 DEF Lands
  <2>3. CASE n # m
    <3>1. msg'[n] = msg[n]
      BY <1>2, <2>3
    <3>2. OwnRow(n)' <=> OwnRow(n)
      BY <3>1 DEF OwnRow
    <3>3. Lands(n, msg[n].decision)' <=> Lands(n, msg[n].decision)
      BY <3>1 DEF Lands
    <3> QED
      BY <3>1, <3>2, <3>3, <2>1 DEF RouteInv
  <2> QED
    BY <2>2, <2>3
<1>4. \A n, k \in Messages :
         msg'[n].at \in Under /\ msg'[k].at \in Under /\ msg'[n].session = msg'[k].session
            => n = k
  BY <1>2 DEF RouteInv
<1> QED
  BY <1>1, <1>3, <1>4 DEF RouteInv

(* A decider that is not there: the next one is asked.                        *)
LEMMA PassStep ==
    ASSUME RouteInv, NEW m \in Messages, msg[m].at \in Asks, NEW at \in Asks \ {"rules"},
           msg' = [msg EXCEPT ![m].at = at], UNCHANGED <<log, lastId, job, touched>>
    PROVE  RouteInv'
<1> DEFINE x == [msg[m] EXCEPT !.at = at]
<1>1. msg[m] = [at |-> msg[m].at, session |-> msg[m].session, hint |-> msg[m].hint,
                recent |-> msg[m].recent, before |-> msg[m].before,
                open |-> msg[m].open, asked |-> msg[m].asked]
  BY DEF RouteInv
<1>2. /\ x.at = at /\ x.session = msg[m].session /\ x.before = msg[m].before
      /\ x = [at |-> x.at, session |-> x.session, hint |-> x.hint, recent |-> x.recent,
              before |-> x.before, open |-> x.open, asked |-> x.asked]
  BY <1>1
<1>3. msg' = [msg EXCEPT ![m] = x]
  OBVIOUS
<1>4. /\ at \in Under /\ at # "decided" /\ at # "store" /\ at # "rules"
      /\ msg[m].session \in Connections
      /\ \A n \in Messages : msg[n].at \in Under /\ msg[n].session = msg[m].session => n = m
  BY DEF RouteInv, Under, Asks
<1>5. OwnRow(m)
  BY DEF RouteInv
<1>6. /\ job' = [n \in Messages |-> job'[n]]
      /\ \A n \in Messages : Lands(n, job'[n].decision)
      /\ \A p \in touched' : LaneBot[p[2]] = MessageBot[p[1]]
  BY DEF RouteInv
<1>7. /\ x.at \in {"over"} \cup Under /\ x.at # "store"
      /\ x.at \in Under =>
           /\ x.session \in Connections
           /\ \A n \in Messages : msg[n].at \in Under /\ msg[n].session = x.session => n = m
  BY <1>2, <1>4
<1>8. lastId[x.session] # x.before =>
        /\ lastId[x.session] \in 1..Len(log) /\ log[lastId[x.session]].of = m
        /\ x.at # "rules"
        /\ x.at = "decided" => log[lastId[x.session]].accepted
  BY <1>2, <1>4, <1>5 DEF OwnRow
<1>9. x.at \in Asks =>
         x = [at |-> x.at, session |-> x.session, hint |-> x.hint, recent |-> x.recent,
              before |-> x.before, open |-> x.open, asked |-> x.asked]
  BY <1>2
<1>10. x.at = "store" => Lands(m, x.decision)
  BY <1>7
<1>11. UNCHANGED <<log, lastId>>
  OBVIOUS
<1> HIDE DEF x
<1> QED
  BY <1>3, <1>6, <1>7, <1>8, <1>9, <1>10, <1>11, MessageStep

(* A delivery that lands has the row it recorded, or none.                    *)
LEMMA LandedStep ==
    ASSUME RouteInv, NEW m \in Messages, NEW a, NEW state, Landed(m, a, state),
           msg[m].at = "decided", LaneBot[a] = MessageBot[m]
    PROVE  RouteInv'
<1> DEFINE x == [at |-> "store", session |-> msg[m].session, lane |-> a,
                 state |-> state, decision |-> DecisionId(m)]
<1>1. Lands(m, DecisionId(m))
  BY DEF RouteInv, OwnRow, Lands, DecisionId
<1>2. /\ x.session \in Connections
      /\ \A n \in Messages : msg[n].at \in Under /\ msg[n].session = x.session => n = m
  BY DEF RouteInv, Under
<1>3. job' = [n \in Messages |-> job'[n]] /\ \A n \in Messages : Lands(n, job'[n].decision)
  BY DEF RouteInv, Landed
<1>4. \A p \in touched' : LaneBot[p[2]] = MessageBot[p[1]]
  BY DEF RouteInv, Landed
<1>5. msg' = [msg EXCEPT ![m] = x] /\ UNCHANGED <<log, lastId>>
  BY DEF Landed
<1>6. x.at = "store" /\ x.decision = DecisionId(m) /\ "store" \in Under /\ x.at \notin Asks
  BY DEF Under, Asks
<1> HIDE DEF x
<1> QED
  BY <1>1, <1>2, <1>3, <1>4, <1>5, <1>6, MessageStep

(* Where the chain goes after a step.                                        *)
LEMMA AfterStep == \A i \in 1..4 : After(Steps[i]) \in Asks \ {"rules"}
<1> SUFFICES ASSUME NEW i \in 1..4 PROVE After(Steps[i]) \in Asks \ {"rules"}
  OBVIOUS
<1> DEFINE j == CHOOSE k \in DOMAIN Steps : Steps[k] = Steps[i]
<1>1. DOMAIN Steps = 1..5
  BY DEF Steps
<1>2. j \in 1..5 /\ Steps[j] = Steps[i]
  BY <1>1
<1>3. j = i
  BY <1>2 DEF Steps
<1>4. After(Steps[i]) = Steps[1 + i]
  BY <1>3 DEF After
<1> QED
  BY <1>4 DEF Steps, Asks

LEMMA RouteStep == RouteInv /\ [RouteNext]_routeVars => RouteInv'
<1> SUFFICES ASSUME RouteInv, [RouteNext]_routeVars PROVE RouteInv'
  OBVIOUS
<1>1. CASE UNCHANGED routeVars \/ \E a \in LaneIds : LaneEvent(a)
  <2>1. UNCHANGED <<msg, log, lastId, job, touched>>
    BY <1>1 DEF routeVars, LaneEvent
  <2>2. \A m \in Messages : (OwnRow(m)' <=> OwnRow(m)) /\ (Lands(m, msg[m].decision)' <=> Lands(m, msg[m].decision))
                               /\ (Lands(m, job[m].decision)' <=> Lands(m, job[m].decision))
    BY <2>1 DEF OwnRow, Lands
  <2> QED
    BY <2>1, <2>2 DEF RouteInv
<1>2. ASSUME NEW m \in Messages, NEW s \in Connections, NEW hint \in Hints,
             NEW recent \in BOOLEAN, LoadContext(m, s, hint, recent)
      PROVE  RouteInv'
  <2>1. PICK open, asked :
           msg' = [msg EXCEPT ![m] = [at |-> "rules", session |-> s, hint |-> hint,
                                      recent |-> recent, before |-> lastId[s],
                                      open |-> open, asked |-> asked]]
    BY <1>2 DEF LoadContext
  <2> DEFINE x == [at |-> "rules", session |-> s, hint |-> hint, recent |-> recent,
                   before |-> lastId[s], open |-> open, asked |-> asked]
  <2>2. \A n \in Messages : msg[n].at \in Under /\ msg[n].session = s => n = m
    BY <1>2 DEF LoadContext, Busy, Under, Asks
  <2>3. UNCHANGED <<log, lastId, job, touched>>
    BY <1>2 DEF LoadContext
  <2>4. /\ x.at \in Under /\ x.session = s /\ x.at = "rules" /\ x.before = lastId[s]
        /\ x = [at |-> x.at, session |-> x.session, hint |-> x.hint, recent |-> x.recent,
                before |-> x.before, open |-> x.open, asked |-> x.asked]
        /\ msg' = [msg EXCEPT ![m] = x]
    BY <2>1 DEF Under, Asks
  <2>5. job' = [n \in Messages |-> job'[n]] /\ \A n \in Messages : Lands(n, job'[n].decision)
    BY <2>3 DEF RouteInv
  <2>6. \A p \in touched' : LaneBot[p[2]] = MessageBot[p[1]]
    BY <2>3 DEF RouteInv
  <2> HIDE DEF x
  <2> QED
    BY <2>2, <2>3, <2>4, <2>5, <2>6, MessageStep
<1>3. ASSUME NEW m \in Messages, NEW p \in Providers, Rules(m, p) PROVE RouteInv'
  <2>1. CASE Ruled(msg[m]) # {}
    <3>1. PICK d : Record(m, TRUE) /\ Chosen(m, d)
      BY <1>3, <2>1 DEF Rules
    <3> DEFINE x == [at |-> "decided", session |-> msg[m].session, before |-> msg[m].before,
                     decision |-> d]
    <3>2. /\ msg' = [msg EXCEPT ![m] = x] /\ x.session = msg[m].session
          /\ x.before = msg[m].before /\ x.at = "decided"
      BY <3>1 DEF Chosen
    <3>3. UNCHANGED <<job, touched>> /\ msg[m].at \in Asks /\ "decided" \notin Asks
      BY <1>3 DEF Rules, Asks
    <3> HIDE DEF x
    <3> QED
      BY <3>1, <3>2, <3>3, ChainStep
  <2>2. CASE Ruled(msg[m]) = {}
    <3>1. UNCHANGED <<log, lastId, job, touched>> /\ msg[m].at = "rules"
      BY <1>3, <2>2 DEF Rules
    <3>2. CASE p = "rules"
      <4> DEFINE x == [at |-> "decided", session |-> msg[m].session, before |-> msg[m].before,
                       decision |-> Decision("new_request", NoLane, "rule", FALSE)]
      <4>1. msg' = [msg EXCEPT ![m] = x]
        BY <1>3, <2>2, <3>2 DEF Rules, Chosen
      <4>2. x.at = "decided" /\ x.session = msg[m].session /\ x.before = msg[m].before
        OBVIOUS
      <4>3. lastId[x.session] = x.before
        BY <3>1, <4>2 DEF RouteInv, OwnRow, Asks
      <4>4. /\ x.session \in Connections /\ x.at \in Under /\ x.at \notin Asks /\ x.at # "store"
            /\ \A n \in Messages : msg[n].at \in Under /\ msg[n].session = x.session => n = m
        BY <3>1, <4>2 DEF RouteInv, Under, Asks
      <4>5. /\ job' = [n \in Messages |-> job'[n]]
            /\ \A n \in Messages : Lands(n, job'[n].decision)
            /\ \A q \in touched' : LaneBot[q[2]] = MessageBot[q[1]]
        BY <3>1 DEF RouteInv
      <4> HIDE DEF x
      <4> QED
        BY <3>1, <4>1, <4>2, <4>3, <4>4, <4>5, MessageStep
    <3>3. CASE p # "rules"
      <4>1. PICK at \in {"llm", "jev"} : msg' = [msg EXCEPT ![m].at = at]
        BY <1>3, <2>2, <3>3 DEF Rules
      <4>2. at \in Asks \ {"rules"} /\ msg[m].at \in Asks
        BY <3>1 DEF Asks
      <4> QED
        BY <3>1, <4>1, <4>2, PassStep
    <3> QED
      BY <3>2, <3>3
  <2> QED
    BY <2>1, <2>2
<1>4. ASSUME NEW m \in Messages, NEW i \in 1..4, Unavailable(m, Steps[i]) PROVE RouteInv'
  <2>1. msg[m].at = Steps[i] /\ Steps[i] \in Asks
    BY <1>4 DEF Unavailable, Steps, Asks
  <2> QED
    BY <1>4, <2>1, AfterStep, PassStep DEF Unavailable
<1>5. ASSUME NEW m \in Messages, NEW i \in 1..4, NEW intent \in Intents,
             NEW target \in LaneIds \cup {NoLane}, NEW sure \in BOOLEAN,
             Attempt(m, Steps[i], intent, target, sure)
      PROVE  RouteInv'
  <2> DEFINE d == Decision(intent, target, Steps[i], FALSE)
             accepted == sure /\ Keep(d, msg[m])
  <2>1. /\ Record(m, accepted) /\ UNCHANGED <<job, touched>>
        /\ IF accepted THEN Chosen(m, d) ELSE msg' = [msg EXCEPT ![m].at = After(Steps[i])]
    BY <1>5 DEF Attempt
  <2>2. msg[m].at \in Asks /\ After(Steps[i]) \in Asks \ {"rules"} /\ "decided" \notin Asks
    BY <1>5, AfterStep DEF Attempt, Steps, Asks
  <2>3. accepted \in BOOLEAN
    BY DEF Keep
  <2>4. CASE accepted
    <3> DEFINE x == [at |-> "decided", session |-> msg[m].session, before |-> msg[m].before,
                     decision |-> d]
    <3>1. /\ msg' = [msg EXCEPT ![m] = x] /\ x.session = msg[m].session
          /\ x.before = msg[m].before /\ x.at = "decided"
      BY <2>1, <2>4 DEF Chosen
    <3> HIDE DEF x, d, accepted
    <3> QED
      BY <2>1, <2>2, <2>3, <2>4, <3>1, ChainStep
  <2>5. CASE ~accepted
    <3> DEFINE x == [msg[m] EXCEPT !.at = After(Steps[i])]
    <3>1. msg[m] = [at |-> msg[m].at, session |-> msg[m].session, hint |-> msg[m].hint,
                    recent |-> msg[m].recent, before |-> msg[m].before,
                    open |-> msg[m].open, asked |-> msg[m].asked]
      BY <2>2 DEF RouteInv
    <3>2. /\ x.at = After(Steps[i]) /\ x.session = msg[m].session
          /\ x.before = msg[m].before /\ x = [msg[m] EXCEPT !.at = x.at]
      BY <3>1
    <3>3. msg' = [msg EXCEPT ![m] = x]
      BY <2>1, <2>5
    <3> HIDE DEF x, d, accepted
    <3> QED
      BY <2>1, <2>2, <2>3, <2>5, <3>2, <3>3, ChainStep
  <2> QED
    BY <2>4, <2>5
<1>6. ASSUME NEW m \in Messages, Default(m) PROVE RouteInv'
  <2>1. PICK d : Record(m, TRUE) /\ Chosen(m, d)
    BY <1>6 DEF Default
  <2> DEFINE x == [at |-> "decided", session |-> msg[m].session, before |-> msg[m].before,
                   decision |-> d]
  <2>2. /\ msg' = [msg EXCEPT ![m] = x] /\ x.session = msg[m].session
        /\ x.before = msg[m].before /\ x.at = "decided"
    BY <2>1 DEF Chosen
  <2>3. UNCHANGED <<job, touched>> /\ msg[m].at \in Asks /\ "decided" \notin Asks
    BY <1>6 DEF Default, Asks
  <2> HIDE DEF x
  <2> QED
    BY <2>1, <2>2, <2>3, ChainStep
<1>7. ASSUME NEW m \in Messages, ActAsk(m) \/ ActFresh(m) PROVE RouteInv'
  <2>1. msg[m].at = "decided"
    BY <1>7 DEF ActAsk, ActFresh
  <2>2. PICK a \in FirstOpen(m) \cup Spare(m) : \E state : Landed(m, a, state)
    BY <1>7 DEF ActAsk, ActFresh, SpawnLane
  <2>3. LaneBot[a] = MessageBot[m]
    BY DEF FirstOpen, Spare
  <2> QED
    BY <2>1, <2>2, <2>3, LandedStep
<1>8. ASSUME NEW m \in Messages, NEW steered \in BOOLEAN, ActTargeted(m, steered)
      PROVE  RouteInv'
  <2>1. msg[m].at = "decided" /\ LaneBot[msg[m].decision.target] = MessageBot[m]
    BY <1>8 DEF ActTargeted, OnBot
  <2>2. PICK state : Landed(m, msg[m].decision.target, state)
    BY <1>8 DEF ActTargeted, ActOn
  <2> QED
    BY <2>1, <2>2, LandedStep
<1>9. ASSUME NEW m \in Messages, ActRefuse(m) \/ Store(m) PROVE RouteInv'
  <2> DEFINE x == [at |-> "over"]
  <2>1. /\ msg' = [msg EXCEPT ![m] = x] /\ UNCHANGED <<log, lastId, touched>>
        /\ x.at = "over" /\ x.at \notin Under \cup Asks \cup {"decided", "store"}
    BY <1>9 DEF ActRefuse, Store, Under, Asks
  <2>2. job' = [n \in Messages |-> job'[n]]
    BY <1>9 DEF ActRefuse, Store, RouteInv
  <2>3. ASSUME NEW n \in Messages PROVE Lands(n, job'[n].decision)
    <3>1. CASE Store(m)
      BY <3>1 DEF Store, RouteInv
    <3>2. CASE ActRefuse(m)
      BY <3>2 DEF ActRefuse, RouteInv
    <3> QED
      BY <1>9, <3>1, <3>2
  <2>4. \A q \in touched' : LaneBot[q[2]] = MessageBot[q[1]]
    BY <2>1 DEF RouteInv
  <2> HIDE DEF x
  <2> QED
    BY <2>1, <2>2, <2>3, <2>4, MessageStep
<1> QED
  BY <1>1, <1>2, <1>3, <1>4, <1>5, <1>6, <1>7, <1>8, <1>9 DEF RouteNext

(* A message lands as it was decided, for any number of bots, lanes, messages *)
(* and connections, whatever lane and intent the deciders answer             *)
(* (RoutingService._act, deliver, last_decision_id).                         *)
THEOREM DeliveriesLand == RouteSpec => []LandsAsDecided
<1>1. RouteInv => LandsAsDecided
  BY DEF RouteInv, LandsAsDecided, Lands
<1> QED
  BY <1>1, RouteStarts, RouteStep, PTL DEF RouteSpec

-----------------------------------------------------------------------------
(* Metrics and share links. What an open has read stays a link's row; only    *)
(* the counter of a row follows it. A page that was shown holds values of     *)
(* reports, and reports are never removed.                                   *)
Reported(b, k, v) ==
    \E i \in DOMAIN points : /\ points[i].bot = b /\ points[i].key = k
                             /\ points[i].value = v /\ points[i].shareable

PageInv ==
    \A x \in Readers : reader[x].at = "shown" =>
        \A t \in reader[x].tiles : \A b \in DOMAIN t.reports :
            reader[x].scope \in {Everyone, b} /\ Reported(b, t.key, t.reports[b])

LinkInv ==
    /\ mClock \in 0..MaxMetricClock
    /\ points \in Seq(MetricPoints)
    /\ \A i \in DOMAIN points : points[i].asOf <= mClock + Skew
    /\ link \in [Links -> ShareLinks]
    /\ reader = [x \in Readers |-> reader[x]]
    /\ \A x \in Readers : reader[x].at = "found" =>
          reader[x].link \in Links /\ reader[x].row \in ShareLinks

(* The latest report of a bot is one of its reports.                         *)
LEMMA LatestReport ==
    ASSUME LinkInv, NEW k, NEW b, Of(k, b) # {}
    PROVE  \E i \in Of(k, b) : Latest(k, b) = points[i]
<1> USE MetricsAssumption
<1> DEFINE times == {points[i].asOf : i \in Of(k, b)}
<1>1. mClock + Skew \in Nat /\ Len(points) \in Nat /\ DOMAIN points = 1..Len(points)
  BY DEF LinkInv
<1>2. times \subseteq 0..mClock + Skew /\ times # {}
  <2>1. ASSUME NEW i \in DOMAIN points PROVE points[i].asOf \in 0..mClock + Skew
    <3>1. points[i] \in MetricPoints
      BY DEF LinkInv
    <3>2. points[i].asOf \in Nat
      BY <3>1 DEF MetricPoints
    <3> QED BY <3>2, <1>1 DEF LinkInv
  <2>2. Of(k, b) \subseteq DOMAIN points
    BY DEF Of
  <2> QED BY <2>1, <2>2
<1>3. \E m \in times : \A y \in times : m >= y
  <2>1. \E m \in times : \A y \in times : y <= m
    <3> HIDE DEF times
    <3> QED BY <1>1, <1>2, GreatestElement
  <2> QED BY <1>2, <2>1
<1>4. Max(times) \in times
  <2> HIDE DEF times
  <2> QED BY <1>3 DEF Max
<1> DEFINE latest == {i \in Of(k, b) : points[i].asOf = LatestTime(k, b)}
<1>5. latest \subseteq 0..Len(points) /\ latest # {}
  <2>1. Of(k, b) \subseteq 1..Len(points)
    BY <1>1 DEF Of
  <2>2. LatestTime(k, b) \in times
    BY <1>4 DEF LatestTime
  <2> QED BY <1>1, <2>1, <2>2
<1>6. \E m \in latest : \A y \in latest : m >= y
  <2>1. \E m \in latest : \A y \in latest : y <= m
    <3> HIDE DEF latest
    <3> QED BY <1>1, <1>5, GreatestElement
  <2> QED BY <1>5, <2>1
<1>7. Max(latest) \in latest
  <2> HIDE DEF latest
  <2> QED BY <1>6 DEF Max
<1> QED
  BY <1>7 DEF Latest

LEMMA LinkStep == LinkInv /\ [MetricNext]_metricVars => LinkInv'
<1> SUFFICES ASSUME LinkInv, [MetricNext]_metricVars PROVE LinkInv'
  OBVIOUS
<1> USE MetricsAssumption
<1>1. ASSUME NEW b \in Reporters, NEW k \in Keys, NEW v \in Readings \cup {Failed},
             NEW at \in 0..MaxMetricClock, NEW f \in Freshness, NEW s \in BOOLEAN,
             Report([bot |-> b, key |-> k, value |-> v, asOf |-> at, freshness |-> f,
                     shareable |-> s])
      PROVE  LinkInv'
  <2> DEFINE p == [bot |-> b, key |-> k, value |-> v, asOf |-> at, freshness |-> f,
                   shareable |-> s]
  <2>1. p \in MetricPoints /\ p.asOf <= mClock + Skew
    BY <1>1 DEF Report, MetricPoints
  <2>2. points' = Append(points, p) /\ UNCHANGED <<mClock, link, reader>>
    BY <1>1 DEF Report
  <2> HIDE DEF p
  <2>3. /\ points' \in Seq(MetricPoints) /\ DOMAIN points' = 1..Len(points) + 1
        /\ \A i \in 1..Len(points) : points'[i] = points[i]
        /\ points'[Len(points) + 1] = p /\ DOMAIN points = 1..Len(points)
    BY <2>1, <2>2 DEF LinkInv
  <2> QED
    BY <2>1, <2>2, <2>3 DEF LinkInv
<1>2. ASSUME NEW l \in Links, NEW scope \in Reporters \cup {Everyone},
             CreateShare(l, scope, DayHours)
      PROVE  LinkInv'
  BY <1>2 DEF CreateShare, LinkInv, ShareLinks
<1>3. ASSUME NEW l \in Links, RevokeShare(l) PROVE LinkInv'
  BY <1>3 DEF RevokeShare, LinkInv, ShareLinks
<1>4. ASSUME NEW l \in Links, NEW x \in Readers, NEW ok \in BOOLEAN, OpenLink(x, l, ok)
      PROVE  LinkInv'
  BY <1>4 DEF OpenLink, LinkInv
<1>5. ASSUME NEW x \in Readers, CountOpen(x) PROVE LinkInv'
  <2>1. reader[x].link \in Links /\ reader[x].row.opens + 1 \in Nat
    BY <1>5 DEF CountOpen, LinkInv, ShareLinks
  <2>2. link' = [link EXCEPT ![reader[x].link].opens = reader[x].row.opens + 1]
    BY <1>5 DEF CountOpen
  <2>3. link[reader[x].link] \in ShareLinks
    BY <2>1 DEF LinkInv
  <2>4. [link[reader[x].link] EXCEPT !.opens = reader[x].row.opens + 1] \in ShareLinks
    BY <2>1, <2>3 DEF ShareLinks
  <2>5. link' \in [Links -> ShareLinks]
    BY <2>1, <2>2, <2>4 DEF LinkInv
  <2> QED
    BY <1>5, <2>5 DEF CountOpen, LinkInv
<1>6. ASSUME NEW x \in Readers, Snapshot(x) PROVE LinkInv'
  BY <1>6 DEF Snapshot, LinkInv
<1>7. CASE MetricTick \/ UNCHANGED metricVars
  <2>1. UNCHANGED <<points, link, reader>> /\ mClock' \in {mClock, mClock + 1}
        /\ mClock' \in 0..MaxMetricClock
    BY <1>7 DEF MetricTick, metricVars, LinkInv
  <2>2. \A i \in DOMAIN points : points[i].asOf \in Nat
    <3>1. \A i \in DOMAIN points : points[i] \in MetricPoints
      BY DEF LinkInv
    <3> QED BY <3>1 DEF MetricPoints
  <2>3. \A i \in DOMAIN points' : points'[i].asOf <= mClock' + Skew
    BY <2>1, <2>2 DEF LinkInv
  <2> QED
    BY <2>1, <2>3 DEF LinkInv
<1> QED
  BY <1>1, <1>2, <1>3, <1>4, <1>5, <1>6, <1>7 DEF MetricNext

LEMMA LinkStarts == MetricInit => LinkInv
<1> SUFFICES ASSUME MetricInit PROVE LinkInv
  OBVIOUS
<1>1. NoLink \in ShareLinks
  BY DEF NoLink, ShareLinks
<1> QED
  BY <1>1, MetricsAssumption DEF MetricInit, LinkInv, NoReader

(* What was reported stays reported.                                         *)
LEMMA ReportsStay ==
    ASSUME points \in Seq(MetricPoints), [MetricNext]_metricVars, NEW b, NEW k, NEW v,
           Reported(b, k, v)
    PROVE  \E i \in DOMAIN points' : /\ points'[i].bot = b /\ points'[i].key = k
                                     /\ points'[i].value = v /\ points'[i].shareable
<1>1. CASE points' = points
  BY <1>1 DEF Reported
<1>2. ASSUME NEW p, points' = Append(points, p)
      PROVE  \E i \in DOMAIN points' : /\ points'[i].bot = b /\ points'[i].key = k
                                       /\ points'[i].value = v /\ points'[i].shareable
  <2>1. /\ DOMAIN points \subseteq DOMAIN points'
        /\ \A i \in DOMAIN points : points'[i] = points[i]
    BY <1>2
  <2> QED BY <2>1 DEF Reported
<1>3. points' = points \/ \E p : points' = Append(points, p)
  <2>1. CASE UNCHANGED metricVars \/ MetricTick
    BY <2>1 DEF metricVars, MetricTick
  <2>2. CASE \E l \in Links : \/ \E scope \in Reporters \cup {Everyone} : CreateShare(l, scope, DayHours)
                             \/ RevokeShare(l) \/ \E x \in Readers, ok \in BOOLEAN : OpenLink(x, l, ok)
    BY <2>2 DEF CreateShare, RevokeShare, OpenLink
  <2>3. CASE \E x \in Readers : CountOpen(x) \/ Snapshot(x)
    BY <2>3 DEF CountOpen, Snapshot
  <2>4. ASSUME NEW p, Report(p) PROVE \E q : points' = Append(points, q)
    BY <2>4 DEF Report
  <2> QED BY <2>1, <2>2, <2>3, <2>4 DEF MetricNext
<1> QED BY <1>1, <1>2, <1>3

(* What a scope may see of a tile is in the scope and was reported as         *)
(* shareable, bot by bot.                                                    *)
LEMMA TileIsReported ==
    ASSUME LinkInv, NEW k, NEW scope, MayShow(Tile(k), scope)
    PROVE  \A b \in DOMAIN Tile(k).reports :
              scope \in {Everyone, b} /\ Reported(b, Tile(k).key, Tile(k).reports[b])
<1>1. /\ Tile(k).key = k /\ DOMAIN Tile(k).reports = ReportersOf(k)
      /\ \A b \in ReportersOf(k) : Tile(k).reports[b] = Latest(k, b).value
      /\ Tile(k).shareable = \A b \in ReportersOf(k) : Latest(k, b).shareable
  BY DEF Tile
<1> SUFFICES ASSUME NEW b \in ReportersOf(k)
             PROVE  scope \in {Everyone, b} /\ Reported(b, k, Latest(k, b).value)
  BY <1>1
<1>2. scope \in {Everyone, b}
  BY <1>1 DEF MayShow
<1>3. Latest(k, b).shareable
  BY <1>1 DEF MayShow
<1>4. Of(k, b) # {}
  BY DEF ReportersOf
<1>5. PICK i \in Of(k, b) : Latest(k, b) = points[i]
  BY <1>4, LatestReport
<1>6. i \in DOMAIN points /\ points[i].bot = b /\ points[i].key = k
  BY DEF Of
<1> QED BY <1>2, <1>3, <1>5, <1>6 DEF Reported

LEMMA PageStep == LinkInv /\ PageInv /\ [MetricNext]_metricVars => PageInv'
<1> SUFFICES ASSUME LinkInv, PageInv, [MetricNext]_metricVars,
                    NEW x \in Readers, reader'[x].at = "shown",
                    NEW t \in reader'[x].tiles, NEW b \in DOMAIN t.reports
             PROVE  /\ reader'[x].scope \in {Everyone, b}
                    /\ \E i \in DOMAIN points' :
                          /\ points'[i].bot = b /\ points'[i].key = t.key
                          /\ points'[i].value = t.reports[b] /\ points'[i].shareable
  BY DEF PageInv, Reported
<1> SUFFICES reader'[x].scope \in {Everyone, b} /\ Reported(b, t.key, t.reports[b])
  BY ReportsStay DEF LinkInv
<1>1. CASE reader'[x] = reader[x]
  BY <1>1 DEF PageInv
<1>2. CASE Snapshot(x)
  <2>1. /\ reader'[x].scope = reader[x].scope
        /\ t \in {Tiles(MaxTiles)[i] : i \in DOMAIN Tiles(MaxTiles)}
        /\ MayShow(t, reader[x].scope)
    BY <1>2 DEF Snapshot, LinkInv
  <2>2. PICK k : t = Tile(k)
    BY <2>1 DEF Tiles
  <2> QED BY <2>1, <2>2, TileIsReported
<1>3. reader'[x] = reader[x] \/ Snapshot(x)
  <2>1. CASE UNCHANGED metricVars \/ MetricTick
    BY <2>1 DEF metricVars, MetricTick
  <2>2. CASE \E p : Report(p)
    BY <2>2 DEF Report
  <2>3. CASE \E l \in Links : RevokeShare(l) \/ \E scope : CreateShare(l, scope, DayHours)
    BY <2>3 DEF CreateShare, RevokeShare
  <2>4. CASE \E l \in Links, y \in Readers, ok \in BOOLEAN : OpenLink(y, l, ok)
    BY <2>4 DEF OpenLink, LinkInv
  <2>5. CASE \E y \in Readers : CountOpen(y)
    BY <2>5 DEF CountOpen, LinkInv
  <2>6. CASE \E y \in Readers : y # x /\ Snapshot(y)
    BY <2>6 DEF Snapshot, LinkInv
  <2> QED BY <2>1, <2>2, <2>3, <2>4, <2>5, <2>6 DEF MetricNext
<1> QED BY <1>1, <1>2, <1>3

(* A page shows no value outside its link's scope and none that its bot did   *)
(* not report as shareable, for any number of bots, links, reports and        *)
(* readers between whose steps they change (shares._snapshot, visible).       *)
THEOREM PagesInScope == MetricSpec => []SharedInScope
<1>1. MetricInit => PageInv
  BY DEF MetricInit, PageInv, NoReader
<1>2. LinkInv /\ PageInv => SharedInScope
  BY DEF PageInv, SharedInScope, Reported
<1> QED
  BY <1>1, <1>2, LinkStarts, LinkStep, PageStep, PTL DEF MetricSpec

(* A link that was revoked stays revoked, and an expired one never opens      *)
(* again, also when an open writes its count to a row that it read before     *)
(* (ShareService.revoke, shared_snapshot).                                   *)
THEOREM RevokedStays == MetricSpec => RevokeSticks
<1>1. ASSUME LinkInv, [MetricNext]_metricVars, NEW l \in Links, link[l].state # "absent",
             ShareStatus(l) # "active"
      PROVE  ShareStatus(l)' \in {ShareStatus(l), "revoked"}
  <2>1. /\ link[l] \in ShareLinks /\ link[l].expires \in Nat /\ mClock \in Nat
        /\ mClock' \in {mClock, mClock + 1}
    <3>1. link[l] \in ShareLinks /\ mClock \in Nat
      BY <1>1, MetricsAssumption DEF LinkInv
    <3>2. mClock' \in {mClock, mClock + 1}
      BY <1>1 DEF MetricNext, metricVars, MetricTick, Report, CreateShare, RevokeShare, OpenLink,
                  CountOpen, Snapshot
    <3> QED BY <3>1, <3>2 DEF ShareLinks
  <2>2. link'[l].expires = link[l].expires /\ link'[l].state \in {link[l].state, "revoked"}
    <3>1. CASE link' = link
      BY <3>1
    <3>2. ASSUME NEW k \in Links, RevokeShare(k)
          PROVE  link'[l].expires = link[l].expires /\ link'[l].state \in {link[l].state, "revoked"}
      BY <1>1, <3>2 DEF RevokeShare, LinkInv, ShareLinks
    <3>3. ASSUME NEW k \in Links, NEW scope, CreateShare(k, scope, DayHours)
          PROVE  link'[l] = link[l]
      BY <1>1, <3>3 DEF CreateShare, LinkInv
    <3>4. ASSUME NEW x \in Readers, CountOpen(x)
          PROVE  link'[l].expires = link[l].expires /\ link'[l].state = link[l].state
      BY <1>1, <3>4 DEF CountOpen, LinkInv, ShareLinks
    <3>5. \/ link' = link \/ \E k \in Links : RevokeShare(k)
          \/ \E k \in Links, scope \in Reporters \cup {Everyone} : CreateShare(k, scope, DayHours)
          \/ \E x \in Readers : CountOpen(x)
      BY <1>1 DEF MetricNext, metricVars, MetricTick, Report, OpenLink, Snapshot
    <3> QED BY <3>1, <3>2, <3>3, <3>4, <3>5
  <2> QED
    <3>1. CASE link[l].state = "revoked"
      <4>1. link'[l].state = "revoked"
        BY <2>2, <3>1
      <4>2. ShareStatus(l)' = "revoked"
        BY <4>1 DEF ShareStatus
      <4> QED BY <4>2
    <3>2. CASE link[l].state # "revoked"
      <4>1. link[l].expires <= mClock /\ ShareStatus(l) = "expired"
        BY <1>1, <3>2 DEF ShareStatus
      <4>2. link'[l].expires <= mClock'
        BY <2>1, <2>2, <4>1
      <4> QED
        BY <4>1, <4>2 DEF ShareStatus
    <3> QED
      BY <3>1, <3>2
<1>2. LinkInv /\ [MetricNext]_metricVars =>
        [\A l \in Links : link[l].state # "absent" /\ ShareStatus(l) # "active" =>
           ShareStatus(l)' \in {ShareStatus(l), "revoked"}]_metricVars
  BY <1>1
<1> QED
  BY <1>2, LinkStarts, LinkStep, PTL DEF MetricSpec, RevokeSticks
-----------------------------------------------------------------------------
(* Routines. Whoever moves a routine's cursor puts it ahead of the moment at   *)
(* which it decided; so a cursor is ahead of every run of its routine, still  *)
(* at the slot of one, or at a slot that a call wrote when it was past.       *)
Runs == {"run", "queue", "cursor"}

OccInv ==
    \A x \in occurrences :
        /\ x[2] <= x[3] /\ x[3] <= clock /\ (sweep # "sleep" => x[3] <= moment)
        /\ \/ row[x[1]].next > x[3] \/ row[x[1]].next = x[2]
           \/ <<x[1], row[x[1]].next>> \in late

(* The call that will make a routine active leaves it a cursor ahead of its   *)
(* now.                                                                      *)
CallInv ==
    call # <<>> =>
        /\ call[4] <= clock
        /\ call[3].next # call[2].next => call[3].next > call[4]
        /\ call[3].status = "active" /\ call[2].status # "active" /\ call[3].next = call[2].next =>
              \/ row[call[1]].next > call[4]
              \/ /\ row[call[1]].status = "active"
                 /\ sweep = "budgets" => row[call[1]] = plan[1][call[1]]

(* What _apply_budgets is about to write.                                    *)
PlanOK(r) ==
    LET old == plan[1][r] new == plan[2][r]
    IN  /\ new.next # old.next => new.next > moment
        /\ old.status = "active" => new = old \/ (new.status = "paused" /\ new.next = Never)
        /\ old.status # "active" => new = old \/ (r \notin breach /\ new.status = "active")
        /\ r \in breach /\ old.status = "active" => new.status = "paused"
        /\ r \in breach /\ old.status # "active" /\ row[r].status = "active" =>
              row[r].next > moment \/ <<r, row[r].next>> \in late

BudgetInv ==
    /\ sweep = "budgets" => plan # <<>> /\ \A r \in Rtns : PlanOK(r)
    /\ sweep = "due" => \A r \in breach : row[r].status = "active" =>
                           row[r].next > moment \/ <<r, row[r].next>> \in late

DueOK(d) ==
    /\ d[2] <= moment /\ d[3] > moment
    /\ \/ row[d[1]].next = d[2] \/ row[d[1]].next > moment
       \/ <<d[1], row[d[1]].next>> \in late
    /\ <<d[1], d[2]>> \notin late =>
          /\ d[1] \notin breach
          /\ \A x \in occurrences : x[1] = d[1] => x[2] = d[2] \/ x[3] < d[2]

DueInv ==
    /\ sweep \notin Runs => due = {}
    /\ \A d \in due : DueOK(d)
    /\ \A d, e \in due : d[1] = e[1] => d = e
    /\ sweep \in {"queue", "cursor"} =>
          /\ inHand # <<>> /\ DueOK(inHand)
          /\ \A d \in due : d[1] # inHand[1]
    /\ sweep = "queue" => \A x \in occurrences : ~(x[1] = inHand[1] /\ x[2] = inHand[2])

SweepInv ==
    /\ TypeOK /\ moment <= clock
    /\ OccInv /\ CallInv /\ BudgetInv /\ DueInv
    /\ RunsOnceInBudget

LEMMA FollowingIsLater ==
    ASSUME NEW s \in Schedules, NEW now \in Minutes
    PROVE  Following(s, now) \in 1..Never /\ Following(s, now) > now
<1> USE RoutinesAssumption DEF Minutes, Never
<1> DEFINE S == {t \in s : t > now} \cup {Never}
<1>1. s \subseteq 0..Horizon
  OBVIOUS
<1>2. S \subseteq Nat /\ S # {} /\ \A t \in S : t \in 1..Never /\ t > now
  <2>1. ASSUME NEW t \in s, t > now PROVE t \in 1..Never
    BY <1>1, <2>1
  <2>2. Never \in 1..Never /\ Never > now
    OBVIOUS
  <2>3. ASSUME NEW t \in S PROVE t \in 1..Never /\ t > now
    BY <2>1, <2>2
  <2>4. 1..Never \subseteq Nat /\ Never \in S
    OBVIOUS
  <2> HIDE DEF S
  <2> QED BY <2>3, <2>4
<1> HIDE DEF S
<1>3. \E x \in S : \A y \in S : x <= y
  BY <1>2, LeastElement
<1>4. Min(S) \in S
  BY <1>3 DEF Min
<1>5. Following(s, now) = Min(S)
  BY DEF Following, S
<1> QED
  BY <1>2, <1>4, <1>5

LEMMA Flushed ==
    ASSUME NEW a \in Row, NEW b \in Row, NEW c \in Row
    PROVE  /\ Flush(a, b, c) \in Row
           /\ Flush(a, b, c).next = IF c.next # b.next THEN c.next ELSE a.next
           /\ Flush(a, b, c).status = IF c.status # b.status THEN c.status ELSE a.status
           /\ b = c => Flush(a, b, c) = a
BY DEF Flush, Row

(* A call of the owner that moves a cursor moves it ahead of the clock.       *)
LEMMA OwnerBegins ==
    ASSUME TypeOK, Owner
    PROVE  \E r \in Rtns :
              \/ PauseBot(r)
              \/ \E new \in Row :
                    /\ Begin(r, new)
                    /\ new.next # row[r].next => new.next > clock
                    /\ new.status = "active" /\ row[r].status # "active" => new.next > clock
<1> USE RoutinesAssumption
<1>1. PICK r \in Rtns : \/ Create(r) \/ (\E s \in Schedules : Update(r, s))
                        \/ Pause(r) \/ Resume(r) \/ Cancel(r) \/ PauseBot(r)
  BY DEF Owner
<1>2. /\ row[r] \in Row /\ clock \in Minutes /\ row[r].sched \in Schedules
      /\ clock \in Minutes \cup {Never} /\ Never \in 1..Never /\ Never > clock
  BY DEF TypeOK, Row, Never, Minutes
<1>3. \A s \in Schedules : Following(s, clock) \in 1..Never /\ Following(s, clock) > clock
  BY <1>2, FollowingIsLater
<1>4. CASE Create(r)
  <2> DEFINE new == [row[r] EXCEPT !.status = "active", !.next = Following(row[r].sched, clock)]
  <2>1. new \in Row /\ new.next = Following(row[r].sched, clock)
    BY <1>2, <1>3 DEF Row
  <2>2. Begin(r, new)
    BY <1>4 DEF Create
  <2> HIDE DEF new
  <2> QED BY <2>1, <2>2, <1>2, <1>3
<1>5. ASSUME NEW s \in Schedules, Update(r, s)
      PROVE  \E new \in Row :
                    /\ Begin(r, new)
                    /\ new.next # row[r].next => new.next > clock
                    /\ new.status = "active" /\ row[r].status # "active" => new.next > clock
  <2> DEFINE new == [row[r] EXCEPT !.sched = s, !.next = IF row[r].status = "active"
                                                         THEN Following(s, clock) ELSE @]
  <2>1. /\ new \in Row /\ new.status = row[r].status
        /\ new.next = row[r].next \/ new.next = Following(s, clock)
    BY <1>2, <1>3 DEF Row
  <2>2. Begin(r, new)
    BY <1>5 DEF Update
  <2> HIDE DEF new
  <2> QED BY <2>1, <2>2, <1>2, <1>3
<1>6. CASE Pause(r)
  <2> DEFINE new == [row[r] EXCEPT !.status = "paused", !.reason = "user", !.next = Never]
  <2>1. new \in Row /\ new.next = Never
    BY <1>2 DEF Row
  <2>2. Begin(r, new)
    BY <1>6 DEF Pause
  <2> HIDE DEF new
  <2> QED BY <2>1, <2>2, <1>2
<1>7. CASE Resume(r)
  <2> DEFINE new == [row[r] EXCEPT !.resumed = IF row[r].reason = "budget" THEN clock ELSE @,
                                   !.status = "active", !.reason = "none",
                                   !.next = Following(row[r].sched, clock)]
  <2>1. new \in Row /\ new.next = Following(row[r].sched, clock)
    BY <1>2, <1>3 DEF Row
  <2>2. Begin(r, new)
    BY <1>7 DEF Resume
  <2> HIDE DEF new
  <2> QED BY <2>1, <2>2, <1>2, <1>3
<1>8. CASE Cancel(r)
  <2> DEFINE new == [row[r] EXCEPT !.status = "cancelled", !.reason = "none", !.next = Never]
  <2>1. new \in Row /\ new.next = Never
    BY <1>2 DEF Row
  <2>2. Begin(r, new)
    BY <1>8 DEF Cancel
  <2> HIDE DEF new
  <2> QED BY <2>1, <2>2, <1>2
<1> QED
  BY <1>1, <1>4, <1>5, <1>6, <1>7, <1>8

(* What _apply_budgets makes of a row.                                        *)
LEMMA BudgetedRow ==
    ASSUME TypeOK, NEW r \in Rtns
    PROVE  /\ Budgeted(r) \in Row
           /\ Budgeted(r).next # row[r].next => Budgeted(r).next > clock
           /\ row[r].status = "active" =>
                 Budgeted(r) = row[r] \/ (Budgeted(r).status = "paused" /\ Budgeted(r).next = Never)
           /\ row[r].status # "active" =>
                 Budgeted(r) = row[r] \/ (~InBreach(r) /\ Budgeted(r).status = "active")
           /\ InBreach(r) /\ row[r].status = "active" => Budgeted(r).status = "paused"
<1> USE RoutinesAssumption
<1>2. /\ row[r] \in Row /\ clock \in Minutes /\ row[r].sched \in Schedules
      /\ Never \in 1..Never /\ Never > clock
  BY DEF TypeOK, Row, Never, Minutes
<1>3. Following(row[r].sched, clock) \in 1..Never /\ Following(row[r].sched, clock) > clock
  BY <1>2, FollowingIsLater
<1> DEFINE over == [row[r] EXCEPT !.status = "paused", !.reason = "budget", !.next = Never]
           back == [row[r] EXCEPT !.status = "active", !.reason = "none",
                                  !.next = Following(row[r].sched, clock)]
<1>4. over \in Row /\ over.status = "paused" /\ over.next = Never
  BY <1>2 DEF Row
<1>5. back \in Row /\ back.status = "active" /\ back.next = Following(row[r].sched, clock)
  BY <1>2, <1>3 DEF Row
<1>6. CASE row[r].status = "active" /\ InBreach(r)
  <2>1. Budgeted(r) = over
    BY <1>6 DEF Budgeted
  <2> HIDE DEF over
  <2> QED BY <1>2, <1>4, <1>6, <2>1
<1>7. CASE row[r].status = "paused" /\ row[r].reason = "budget" /\ ~InBreach(r)
  <2>1. Budgeted(r) = back
    BY <1>7 DEF Budgeted
  <2> HIDE DEF back
  <2> QED BY <1>3, <1>5, <1>7, <2>1
<1>8. CASE ~(row[r].status = "active" /\ InBreach(r)) /\
           ~(row[r].status = "paused" /\ row[r].reason = "budget" /\ ~InBreach(r))
  <2>1. Budgeted(r) = row[r]
    BY <1>8 DEF Budgeted
  <2> QED BY <1>2, <1>8, <2>1
<1> QED
  BY <1>6, <1>7, <1>8

LEMMA SweepStarts == Init => SweepInv
<1> SUFFICES ASSUME Init PROVE SweepInv
  OBVIOUS
<1>1. TypeOK
  BY RoutinesAssumption DEF Init, TypeOK, Row, Minutes, Never
<1> QED
  BY <1>1, RoutinesAssumption DEF Init, SweepInv, OccInv, CallInv, BudgetInv, DueInv, Runs, RunsOnceInBudget, OnTime

LEMMA SweepTypes == SweepInv /\ [Next]_vars => TypeOK' /\ moment' <= clock'
<1> SUFFICES ASSUME SweepInv, [Next]_vars PROVE TypeOK' /\ moment' <= clock'
  OBVIOUS
<1> USE RoutinesAssumption
<1>0. TypeOK /\ moment <= clock
  BY DEF SweepInv
<1>1. CASE Owner
  <2>1. CASE \E r \in Rtns : PauseBot(r)
    BY <1>0, <2>1 DEF PauseBot, TypeOK, loop
  <2>2. ASSUME NEW r \in Rtns, NEW new \in Row, Begin(r, new) PROVE TypeOK' /\ moment' <= clock'
    <3>1. <<r, row[r], new, clock>> \in Rtns \X Row \X Row \X Minutes
      BY <1>0 DEF TypeOK
    <3> QED BY <1>0, <2>2, <3>1 DEF Begin, TypeOK, loop, world
  <2> QED BY <1>0, <1>1, <2>1, <2>2, OwnerBegins
<1>2. CASE Commit
  <2> DEFINE r == call[1]
             new == Flush(row[r], call[2], call[3])
  <2>1. call \in Rtns \X Row \X Row \X Minutes
    BY <1>0, <1>2 DEF Commit, TypeOK
  <2>2. r \in Rtns /\ new \in Row
    BY <1>0, <2>1, Flushed DEF TypeOK
  <2>3. row' \in [Rtns -> Row]
    BY <1>0, <1>2, <2>1, <2>2 DEF Commit, TypeOK
  <2>4. late' = late \/ (late' = late \cup {<<r, new.next>>} /\ new.next <= clock)
    BY <1>2 DEF Commit
  <2>5. new.next <= clock => new.next \in Minutes
    <3>1. new.next \in Nat /\ clock \in Minutes
      BY <1>0, <2>2 DEF TypeOK, Row, Never
    <3> QED BY <3>1 DEF Minutes
  <2>6. late' \subseteq Rtns \X Minutes
    <3> HIDE DEF r, new
    <3> QED BY <1>0, <2>2, <2>4, <2>5 DEF TypeOK
  <2>7. UNCHANGED <<world, occurrences, loop, edits, faults>> /\ call' = <<>>
    BY <1>2 DEF Commit
  <2> QED BY <1>0, <2>3, <2>6, <2>7 DEF TypeOK, loop, world
<1>3. CASE Tick \/ (\E b \in Rtns \cup {Other} : Spend(b)) \/ UNCHANGED vars
  <2>1. CASE Tick
    <3>1. spent' \in [Rtns \cup {Other} -> Nat]
      BY <1>0, <2>1 DEF Tick, TypeOK
    <3> QED BY <1>0, <2>1, <3>1 DEF Tick, TypeOK, Minutes, loop
  <2>2. ASSUME NEW b \in Rtns \cup {Other}, Spend(b) PROVE TypeOK' /\ moment' <= clock'
    BY <1>0, <2>2 DEF Spend, TypeOK, loop
  <2>3. CASE UNCHANGED vars
    BY <1>0, <2>3 DEF vars, TypeOK, loop, world
  <2> QED BY <1>3, <2>1, <2>2, <2>3
<1>4. CASE ReadBudgets
  <2>1. plan' \in [Rtns -> Row] \X [Rtns -> Row]
    BY <1>0, <1>4, BudgetedRow DEF ReadBudgets, TypeOK
  <2> QED BY <1>0, <1>4, <2>1 DEF ReadBudgets, TypeOK, world, Minutes
<1>5. CASE WriteBudgets
  <2>1. plan \in [Rtns -> Row] \X [Rtns -> Row]
    BY <1>0, <1>5 DEF WriteBudgets, TypeOK, SweepInv, BudgetInv
  <2>2. \A r \in Rtns : Flush(row[r], plan[1][r], plan[2][r]) \in Row
    BY <1>0, <2>1, Flushed DEF TypeOK
  <2> QED BY <1>0, <1>5, <2>2 DEF WriteBudgets, TypeOK, world
<1>6. CASE ReadDue
  <2>1. \A r \in Rtns : row[r] \in Row /\ moment \in Minutes
    BY <1>0 DEF TypeOK
  <2>2. ASSUME NEW r \in Rtns, row[r].next <= moment
        PROVE  <<r, row[r].next, Following(row[r].sched, moment)>> \in Rtns \X Minutes \X (1..Never)
    <3>1. row[r].sched \in Schedules /\ row[r].next \in 1..Never
      BY <2>1 DEF Row
    <3>2. row[r].next \in Minutes
      BY <2>1, <2>2, <3>1 DEF Minutes
    <3> QED BY <2>1, <3>1, <3>2, FollowingIsLater
  <2>3. due' \subseteq Rtns \X Minutes \X (1..Never)
    BY <1>6, <2>2 DEF ReadDue
  <2> QED BY <1>0, <1>6, <2>3 DEF ReadDue, TypeOK, world
<1>7. ASSUME NEW d \in due, StartRun(d) PROVE TypeOK' /\ moment' <= clock'
  <2>1. d \in Rtns \X Minutes \X (1..Never)
    BY <1>0 DEF TypeOK
  <2>2. inHand' \in Rtns \X Minutes \X (1..Never) \X BOOLEAN
    BY <1>7, <2>1 DEF StartRun
  <2> QED BY <1>0, <1>7, <2>2 DEF StartRun, TypeOK, world
<1>8. CASE QueueRun
  <2>1. inHand \in Rtns \X Minutes \X (1..Never) \X BOOLEAN
    BY <1>0, <1>8 DEF QueueRun, TypeOK, SweepInv, DueInv
  <2>2. inHand' \in Rtns \X Minutes \X (1..Never) \X BOOLEAN
    BY <1>8, <2>1 DEF QueueRun
  <2>3. occurrences' \subseteq Rtns \X Minutes \X Minutes
    BY <1>0, <1>8, <2>1 DEF QueueRun, TypeOK
  <2> QED BY <1>0, <1>8, <2>2, <2>3 DEF QueueRun, TypeOK, world
<1>9. CASE MoveCursor
  <2>1. inHand \in Rtns \X Minutes \X (1..Never) \X BOOLEAN
    BY <1>0, <1>9 DEF MoveCursor, TypeOK, SweepInv, DueInv
  <2>2. row' \in [Rtns -> Row]
    <3> DEFINE r == inHand[1]
               new == [row[r] EXCEPT !.next = inHand[3], !.last = IF inHand[4] THEN moment ELSE @]
    <3>1. row' = row \/ row' = [row EXCEPT ![r] = new]
      BY <1>9 DEF MoveCursor
    <3>2. r \in Rtns /\ row[r] \in Row /\ inHand[3] \in 1..Never /\ moment \in Minutes
      BY <1>0, <2>1 DEF TypeOK
    <3>3. new \in Row
      BY <3>2 DEF Row
    <3> HIDE DEF r, new
    <3> QED BY <1>0, <3>1, <3>2, <3>3 DEF TypeOK
  <2> QED BY <1>0, <1>9, <2>2 DEF MoveCursor, TypeOK, world
<1>10. CASE FailRun \/ EndSweep \/ Stop
  BY <1>0, <1>10 DEF FailRun, EndSweep, Stop, TypeOK, world, Minutes
<1> QED
  BY <1>1, <1>2, <1>3, <1>4, <1>5, <1>6, <1>7, <1>8, <1>9, <1>10 DEF Next, SweepStep
(* What a call's commit leaves of its row: a routine that it activates or      *)
(* whose cursor it moves is ahead of the clock, or its slot is late.         *)
LEMMA CommitRow ==
    ASSUME SweepInv, Commit, NEW r \in Rtns
    PROVE  /\ \/ row'[r] = row[r]
              \/ r = call[1] /\ row'[r] = Flush(row[r], call[2], call[3])
           /\ \/ row'[r].next = row[r].next \/ row'[r].next > clock
              \/ <<r, row'[r].next>> \in late'
           /\ row'[r].status = "active" =>
                 \/ row[r].status = "active" /\ row'[r].next = row[r].next
                 \/ row'[r].next > clock \/ <<r, row'[r].next>> \in late'
<1>0. /\ TypeOK /\ CallInv /\ row[r] \in Row /\ call # <<>> /\ call[1] \in Rtns
      /\ call[2] \in Row /\ call[3] \in Row /\ call[4] \in Minutes
  BY DEF SweepInv, TypeOK, Commit
<1>1. CASE r # call[1]
  <2>1. row'[r] = row[r]
    BY <1>0, <1>1 DEF Commit, TypeOK
  <2>2. row[r].next \in Nat /\ clock \in Nat
    BY <1>0, RoutinesAssumption DEF Row, TypeOK, Minutes, Never
  <2>3. CASE row[r].status # "active"
    BY <2>1, <2>3
  <2> QED BY <2>1, <2>3
<1>2. CASE r = call[1]
  <2> DEFINE new == Flush(row[r], call[2], call[3])
  <2>1. row'[r] = new
    BY <1>0, <1>2 DEF Commit, TypeOK
  <2>2. /\ new.next = IF call[3].next # call[2].next THEN call[3].next ELSE row[r].next
        /\ new.status = IF call[3].status # call[2].status THEN call[3].status ELSE row[r].status
        /\ new \in Row
    BY <1>0, Flushed
  <2>3. new.next # row[r].next \/ new.status # row[r].status =>
           (call[4] < new.next /\ new.next <= clock => <<r, new.next>> \in late')
    BY <1>0, <1>2 DEF Commit
  <2> HIDE DEF new
  <2>4. new.next # row[r].next => new.next > call[4]
    BY <1>0, <2>2 DEF CallInv
  <2>5. new.status = "active" /\ row[r].status # "active" => new.next > call[4]
    <3>1. CASE call[3].next # call[2].next
      BY <1>0, <2>2, <3>1 DEF CallInv
    <3>2. CASE call[3].next = call[2].next
      BY <1>0, <1>2, <2>2, <3>2 DEF CallInv
    <3> QED BY <3>1, <3>2
  <2>6. new.next \in Nat /\ clock \in Nat
    BY <1>0, <2>2, RoutinesAssumption DEF Row, TypeOK, Minutes, Never
  <2>7. new.next > clock \/ new.next <= clock
    BY <2>6
  <2> QED
    <3>1. new.next # row[r].next \/ (new.status = "active" /\ row[r].status # "active") =>
             new.next > clock \/ <<r, new.next>> \in late'
      BY <2>3, <2>4, <2>5, <2>7
    <3>2. row'[r] = Flush(row[r], call[2], call[3])
      BY <2>1 DEF new
    <3> QED BY <1>2, <2>1, <3>1, <3>2
<1> QED BY <1>1, <1>2

(* A cursor that is moved is put ahead of the clock, or at least of the        *)
(* sweep's moment, or it is late.                                            *)
LEMMA CursorStep ==
    ASSUME SweepInv, [Next]_vars, NEW r \in Rtns
    PROVE  \/ row'[r].next = row[r].next \/ row'[r].next > clock
           \/ sweep \in {"budgets", "cursor"} /\ row'[r].next > moment
           \/ <<r, row'[r].next>> \in late'
<1>0. TypeOK /\ CallInv /\ BudgetInv /\ DueInv /\ row[r] \in Row
  BY DEF SweepInv, TypeOK
<1>1. CASE row' = row
  BY <1>1
<1>2. CASE Commit
  BY <1>2, CommitRow
<1>3. CASE WriteBudgets
  <2>1. plan \in [Rtns -> Row] \X [Rtns -> Row] /\ sweep = "budgets" /\ PlanOK(r)
    BY <1>0, <1>3 DEF WriteBudgets, TypeOK, BudgetInv
  <2>2. row'[r] = Flush(row[r], plan[1][r], plan[2][r])
    BY <1>3 DEF WriteBudgets
  <2> QED BY <1>0, <2>1, <2>2, Flushed DEF PlanOK
<1>4. CASE MoveCursor
  <2>1. inHand \in Rtns \X Minutes \X (1..Never) \X BOOLEAN /\ sweep = "cursor"
    BY <1>0, <1>4 DEF MoveCursor, TypeOK, DueInv
  <2>2. inHand[3] > moment
    BY <1>0, <2>1 DEF DueInv, DueOK
  <2>3. row'[r].next = row[r].next \/ row'[r].next = inHand[3]
    BY <1>0, <1>4, <2>1 DEF MoveCursor, TypeOK, Row
  <2> QED BY <2>1, <2>2, <2>3
<1>5. CASE Owner
  <2>1. row' = row
    BY <1>0, <1>5, OwnerBegins DEF PauseBot, Begin
  <2> QED BY <2>1
<1> QED
  BY <1>1, <1>2, <1>3, <1>4, <1>5
  DEF Next, SweepStep, Tick, Spend, vars, ReadBudgets, ReadDue, StartRun, QueueRun, FailRun, EndSweep, Stop

LEMMA LateGrows == SweepInv /\ [Next]_vars => late \subseteq late'
<1> SUFFICES ASSUME SweepInv, [Next]_vars PROVE late \subseteq late'
  OBVIOUS
<1>0. TypeOK
  BY DEF SweepInv
<1>1. CASE Owner
  BY <1>0, <1>1, OwnerBegins DEF PauseBot, Begin
<1> QED
  BY <1>1
  DEF Next, SweepStep, Tick, Spend, vars, Commit, ReadBudgets, WriteBudgets, ReadDue, StartRun, QueueRun, MoveCursor,
      FailRun, EndSweep, Stop

LEMMA OccStep == SweepInv /\ [Next]_vars => OccInv'
<1> SUFFICES ASSUME SweepInv, [Next]_vars, NEW x \in occurrences'
             PROVE  /\ x[2] <= x[3] /\ x[3] <= clock' /\ (sweep' # "sleep" => x[3] <= moment')
                    /\ \/ row'[x[1]].next > x[3] \/ row'[x[1]].next = x[2]
                       \/ <<x[1], row'[x[1]].next>> \in late'
  BY DEF OccInv
<1> USE RoutinesAssumption
<1>0. TypeOK /\ TypeOK' /\ OccInv /\ DueInv /\ moment <= clock
  BY SweepTypes DEF SweepInv
<1>1. /\ moment \in Nat /\ clock \in Nat /\ moment' \in Nat /\ clock' \in Nat
      /\ x \in Rtns \X Minutes \X Minutes /\ row'[x[1]].next \in Nat /\ row[x[1]].next \in Nat
  <2>1. /\ moment \in Minutes /\ clock \in Minutes /\ moment' \in Minutes /\ clock' \in Minutes
        /\ x \in Rtns \X Minutes \X Minutes
    BY <1>0 DEF TypeOK
  <2>2. row'[x[1]] \in Row /\ row[x[1]] \in Row
    BY <1>0, <2>1 DEF TypeOK
  <2> QED BY <2>1, <2>2 DEF Minutes, Row, Never
<1>2. clock <= clock' /\ (sweep' # "sleep" => moment' = clock \/ (sweep # "sleep" /\ moment' = moment))
  <2>1. CASE Owner
    <3>1. UNCHANGED <<clock, moment, sweep>>
      BY <1>0, <2>1, OwnerBegins DEF PauseBot, Begin, world, loop
    <3> QED BY <1>1, <3>1
  <2>2. CASE Tick
    <3>1. clock' = clock + 1 /\ UNCHANGED <<moment, sweep>>
      BY <2>2 DEF Tick, loop
    <3> QED BY <1>1, <3>1
  <2>3. CASE Commit \/ (\E b \in Rtns \cup {Other} : Spend(b)) \/ UNCHANGED vars
    <3>1. UNCHANGED <<clock, moment, sweep>>
      BY <2>3 DEF Commit, Spend, vars, world, loop
    <3> QED BY <1>1, <3>1
  <2>4. CASE SweepStep \/ FailRun \/ Stop
    <3>1. clock' = clock /\ (sweep' # "sleep" => moment' = clock \/ (sweep # "sleep" /\ moment' = moment))
      BY <2>4
      DEF SweepStep, ReadBudgets, WriteBudgets, ReadDue, StartRun, QueueRun, MoveCursor, FailRun, EndSweep, Stop,
          world
    <3> QED BY <1>1, <3>1
  <2> QED
    BY <2>1, <2>2, <2>3, <2>4 DEF Next
<1>3. CASE x \in occurrences
  <2>1. /\ x[2] <= x[3] /\ x[3] <= clock /\ (sweep # "sleep" => x[3] <= moment)
        /\ \/ row[x[1]].next > x[3] \/ row[x[1]].next = x[2]
           \/ <<x[1], row[x[1]].next>> \in late
    BY <1>0, <1>3 DEF OccInv
  <2>2. \/ row'[x[1]].next = row[x[1]].next \/ row'[x[1]].next > clock
        \/ sweep \in {"budgets", "cursor"} /\ row'[x[1]].next > moment
        \/ <<x[1], row'[x[1]].next>> \in late'
    BY <1>1, CursorStep
  <2>3. late \subseteq late'
    BY LateGrows
  <2>4. CASE <<x[1], row'[x[1]].next>> \in late'
    BY <1>1, <1>2, <2>1, <2>4 DEF Minutes
  <2>5. CASE <<x[1], row'[x[1]].next>> \notin late'
    <3>1. row'[x[1]].next = row[x[1]].next => <<x[1], row[x[1]].next>> \notin late
      BY <2>3, <2>5
    <3> QED BY <1>1, <1>2, <2>1, <2>2, <2>5, <3>1 DEF Minutes
  <2> QED BY <2>4, <2>5
<1>4. CASE x \notin occurrences
  <2>1. QueueRun /\ x = <<inHand[1], inHand[2], moment>>
    <3>1. CASE Owner
      BY <1>0, <1>4, <3>1, OwnerBegins DEF PauseBot, Begin
    <3> QED
      BY <1>4, <3>1
      DEF Next, SweepStep, Tick, Commit, Spend, vars, ReadBudgets, WriteBudgets, ReadDue, StartRun, QueueRun,
          MoveCursor, FailRun, EndSweep, Stop
  <2>2. /\ inHand[2] <= moment
        /\ \/ row[inHand[1]].next = inHand[2] \/ row[inHand[1]].next > moment
           \/ <<inHand[1], row[inHand[1]].next>> \in late
    BY <1>0, <2>1 DEF QueueRun, DueInv, DueOK
  <2>3. UNCHANGED <<clock, moment, row, late>>
    BY <2>1 DEF QueueRun, world
  <2> QED BY <1>0, <1>1, <2>1, <2>2, <2>3
<1> QED BY <1>3, <1>4

LEMMA CallStep == SweepInv /\ [Next]_vars => CallInv'
<1> SUFFICES ASSUME SweepInv, [Next]_vars PROVE CallInv'
  OBVIOUS
<1> USE RoutinesAssumption
<1>0. /\ TypeOK /\ CallInv /\ BudgetInv /\ DueInv /\ moment <= clock
      /\ moment \in Nat /\ clock \in Nat /\ Never > clock
      /\ call # <<>> => call[4] \in Nat /\ call[4] <= clock /\ Never > call[4]
  <2>1. call # <<>> => call[4] \in Minutes
    BY DEF SweepInv, TypeOK
  <2> QED BY <2>1 DEF SweepInv, TypeOK, Minutes, Never, CallInv
<1>1. CASE Owner
  <2>1. CASE \E r \in Rtns : PauseBot(r)
    BY <1>0, <2>1 DEF PauseBot, CallInv, loop
  <2>2. ASSUME NEW r \in Rtns, NEW new \in Row, Begin(r, new),
               new.next # row[r].next => new.next > clock,
               new.status = "active" /\ row[r].status # "active" => new.next > clock
        PROVE  CallInv'
    <3>1. call' = <<r, row[r], new, clock>> /\ UNCHANGED <<clock, row>>
      BY <2>2 DEF Begin, world
    <3> QED BY <1>0, <2>2, <3>1 DEF CallInv
  <2> QED BY <1>0, <1>1, <2>1, <2>2, OwnerBegins
<1>2. CASE Commit \/ Tick
  BY <1>0, <1>2 DEF Commit, Tick, CallInv, loop
<1>3. CASE ReadBudgets
  <2>1. plan'[1] = row
    BY <1>3 DEF ReadBudgets
  <2> QED BY <1>0, <1>3, <2>1 DEF ReadBudgets, CallInv, world
<1>4. CASE WriteBudgets
  <2> SUFFICES ASSUME call # <<>>,
                      call[3].status = "active" /\ call[2].status # "active" /\ call[3].next = call[2].next
               PROVE  row'[call[1]].next > call[4] \/ row'[call[1]].status = "active"
    BY <1>0, <1>4 DEF WriteBudgets, CallInv, world
  <2> DEFINE r == call[1]
  <2>1. /\ r \in Rtns /\ plan \in [Rtns -> Row] \X [Rtns -> Row] /\ row[r] \in Row
        /\ sweep = "budgets" /\ PlanOK(r)
    BY <1>0, <1>4 DEF WriteBudgets, TypeOK, BudgetInv
  <2>2. row[r].next > call[4] \/ (row[r].status = "active" /\ row[r] = plan[1][r])
    BY <1>0, <2>1 DEF CallInv
  <2>3. row'[r] = Flush(row[r], plan[1][r], plan[2][r])
    BY <1>4, <2>1 DEF WriteBudgets
  <2>4. plan[1][r] \in Row /\ plan[2][r] \in Row
    BY <2>1
  <2> DEFINE old == plan[1][r]
             new == plan[2][r]
  <2>5. /\ row'[r].next = IF new.next # old.next THEN new.next ELSE row[r].next
        /\ row'[r].status = IF new.status # old.status THEN new.status ELSE row[r].status
        /\ new = old => row'[r] = row[r]
    BY <2>1, <2>3, <2>4, Flushed
  <2>6. /\ old.status = "active" => new = old \/ (new.status = "paused" /\ new.next = Never)
        /\ old.status # "active" => new = old \/ new.status = "active"
    BY <2>1 DEF PlanOK
  <2> HIDE DEF r, old, new
  <2>7. row'[r].next > call[4] \/ row'[r].status = "active"
    BY <1>0, <2>2, <2>5, <2>6 DEF old
  <2> QED BY <2>7 DEF r
<1>5. CASE MoveCursor
  <2> SUFFICES ASSUME call # <<>>,
                      call[3].status = "active" /\ call[2].status # "active" /\ call[3].next = call[2].next
               PROVE  row'[call[1]].next > call[4] \/ row'[call[1]].status = "active"
    BY <1>0, <1>5 DEF MoveCursor, CallInv, world
  <2>1. call[1] \in Rtns /\ row[call[1]] \in Row /\ inHand \in Rtns \X Minutes \X (1..Never) \X BOOLEAN
    BY <1>0, <1>5 DEF MoveCursor, TypeOK, DueInv
  <2>2. inHand[2] <= moment /\ inHand[2] \in Nat /\ inHand[3] > moment /\ inHand[3] \in Nat
    BY <1>0, <1>5, <2>1 DEF MoveCursor, DueInv, DueOK, Minutes, Never
  <2>3. /\ row'[call[1]].status = row[call[1]].status
        /\ \/ row'[call[1]] = row[call[1]]
           \/ row[call[1]].next = inHand[2] /\ row'[call[1]].next = inHand[3]
    BY <1>0, <1>5, <2>1 DEF MoveCursor, TypeOK, Row
  <2>4. row[call[1]].next > call[4] \/ row[call[1]].status = "active"
    BY <1>0 DEF CallInv
  <2> QED BY <1>0, <2>2, <2>3, <2>4
<1>6. CASE (\E b \in Rtns \cup {Other} : Spend(b)) \/ UNCHANGED vars
  BY <1>0, <1>6 DEF Spend, vars, loop, world, CallInv
<1>7. CASE ReadDue \/ (\E d \in due : StartRun(d)) \/ QueueRun \/ FailRun \/ EndSweep \/ Stop
  <2>1. UNCHANGED <<clock, call, row>> /\ sweep' # "budgets"
    BY <1>7 DEF ReadDue, StartRun, QueueRun, FailRun, EndSweep, Stop, world
  <2> QED BY <1>0, <2>1 DEF CallInv
<1> QED
  BY <1>1, <1>2, <1>3, <1>4, <1>5, <1>6, <1>7 DEF Next, SweepStep

LEMMA BudgetStep == SweepInv /\ [Next]_vars => BudgetInv'
<1> SUFFICES ASSUME SweepInv, [Next]_vars PROVE BudgetInv'
  OBVIOUS
<1> USE RoutinesAssumption
<1>0. /\ TypeOK /\ CallInv /\ BudgetInv /\ moment <= clock
      /\ moment \in Nat /\ clock \in Nat /\ Never > clock
  <2>1. moment \in Minutes /\ clock \in Minutes
    BY DEF SweepInv, TypeOK
  <2> QED BY <2>1 DEF SweepInv, Minutes, Never
<1>l. late \subseteq late'
  BY LateGrows
<1>1. CASE UNCHANGED <<row, moment, plan, breach, sweep>>
  BY <1>0, <1>1, <1>l DEF BudgetInv, PlanOK
<1>2. CASE Commit
  <2>1. UNCHANGED <<moment, plan, breach, sweep>>
    BY <1>2 DEF Commit, loop
  <2>3. ASSUME NEW r \in Rtns, r \in breach, row'[r].status = "active",
               \/ sweep = "due"
               \/ sweep = "budgets" /\ plan[1][r].status # "active"
        PROVE  row'[r].next > moment \/ <<r, row'[r].next>> \in late'
    <3>1. row[r].status = "active" => row[r].next > moment \/ <<r, row[r].next>> \in late
      BY <1>0, <2>3 DEF BudgetInv, PlanOK
    <3>2. /\ row'[r].status = "active" =>
                 \/ row[r].status = "active" /\ row'[r].next = row[r].next
                 \/ row'[r].next > clock \/ <<r, row'[r].next>> \in late'
      BY <1>2, CommitRow
    <3>3. row'[r].next \in Nat
      BY SweepTypes, <2>3 DEF TypeOK, Row, Never
    <3> QED BY <1>0, <1>l, <2>3, <3>1, <3>2, <3>3
  <2>4. CASE sweep = "budgets"
    <3>1. plan # <<>> /\ \A r \in Rtns : PlanOK(r)
      BY <1>0, <2>4 DEF BudgetInv
    <3>2. ASSUME NEW r \in Rtns PROVE PlanOK(r)'
      <4>1. PlanOK(r)
        BY <3>1
      <4> QED BY <2>1, <2>3, <2>4, <4>1 DEF PlanOK
    <3> QED BY <2>1, <2>4, <3>1, <3>2 DEF BudgetInv
  <2>5. CASE sweep # "budgets"
    BY <1>0, <2>1, <2>3, <2>5 DEF BudgetInv, TypeOK
  <2> QED BY <2>4, <2>5
<1>3. CASE ReadBudgets
  <2> SUFFICES ASSUME NEW r \in Rtns PROVE PlanOK(r)'
    BY <1>3 DEF ReadBudgets, BudgetInv
  <2>1. /\ plan'[1][r] = row[r] /\ plan'[2][r] = Budgeted(r)
        /\ moment' = clock /\ row' = row /\ (r \in breach' <=> InBreach(r))
    BY <1>3 DEF ReadBudgets
  <2>2. /\ Budgeted(r).next # row[r].next => Budgeted(r).next > clock
        /\ row[r].status = "active" =>
              Budgeted(r) = row[r] \/ (Budgeted(r).status = "paused" /\ Budgeted(r).next = Never)
        /\ row[r].status # "active" =>
              Budgeted(r) = row[r] \/ (~InBreach(r) /\ Budgeted(r).status = "active")
        /\ InBreach(r) /\ row[r].status = "active" => Budgeted(r).status = "paused"
    BY <1>0, BudgetedRow
  <2> QED BY <2>1, <2>2 DEF PlanOK
<1>4. CASE WriteBudgets
  <2> SUFFICES ASSUME NEW r \in breach, row'[r].status = "active"
               PROVE  row'[r].next > moment \/ <<r, row'[r].next>> \in late'
    BY <1>4 DEF WriteBudgets, BudgetInv
  <2>1. /\ r \in Rtns /\ plan \in [Rtns -> Row] \X [Rtns -> Row] /\ row[r] \in Row
        /\ sweep = "budgets" /\ PlanOK(r)
    BY <1>0, <1>4 DEF WriteBudgets, TypeOK, BudgetInv
  <2>2. plan[1][r] \in Row /\ plan[2][r] \in Row
    BY <2>1
  <2>3. row'[r] = Flush(row[r], plan[1][r], plan[2][r])
    BY <1>4, <2>1 DEF WriteBudgets
  <2>4. /\ row'[r].status = IF plan[2][r].status # plan[1][r].status THEN plan[2][r].status ELSE row[r].status
        /\ plan[1][r] = plan[2][r] => row'[r] = row[r]
    BY <2>1, <2>2, <2>3, Flushed
  <2> QED BY <1>l, <2>1, <2>4 DEF PlanOK
<1>5. CASE sweep' \notin {"budgets", "due"}
  BY <1>5 DEF BudgetInv
<1>6. CASE Owner
  BY <1>0, <1>1, <1>6, OwnerBegins DEF PauseBot, Begin, loop
<1>7. CASE Tick \/ (\E b \in Rtns \cup {Other} : Spend(b)) \/ UNCHANGED vars
  BY <1>1, <1>7 DEF Tick, Spend, vars, loop
<1> QED
  BY <1>1, <1>2, <1>3, <1>4, <1>5, <1>6, <1>7
  DEF Next, SweepStep, ReadDue, StartRun, QueueRun, MoveCursor, FailRun, EndSweep, Stop

(* What a sweep still has to run stays as it was read, while it has a moment.  *)
LEMMA DueStays ==
    ASSUME SweepInv, [Next]_vars, NEW d, d[1] \in Rtns,
           UNCHANGED <<moment, breach, occurrences>>, DueOK(d)
    PROVE  /\ d[2] <= moment' /\ d[3] > moment'
           /\ \/ row'[d[1]].next = d[2] \/ row'[d[1]].next > moment'
              \/ <<d[1], row'[d[1]].next>> \in late'
           /\ <<d[1], d[2]>> \notin late' =>
                 /\ d[1] \notin breach'
                 /\ \A x \in occurrences' : x[1] = d[1] => x[2] = d[2] \/ x[3] < d[2]
<1>0. TypeOK /\ TypeOK' /\ moment <= clock
  BY SweepTypes DEF SweepInv
<1>1. moment \in Nat /\ clock \in Nat /\ row'[d[1]].next \in Nat
  BY <1>0, RoutinesAssumption DEF TypeOK, Minutes, Row, Never
<1>2. \/ row'[d[1]].next = row[d[1]].next \/ row'[d[1]].next > clock
      \/ row'[d[1]].next > moment \/ <<d[1], row'[d[1]].next>> \in late'
  BY CursorStep
<1>3. late \subseteq late'
  BY LateGrows
<1>4. \/ row'[d[1]].next = d[2] \/ row'[d[1]].next > moment'
      \/ <<d[1], row'[d[1]].next>> \in late'
  BY <1>0, <1>1, <1>2, <1>3 DEF DueOK
<1> QED BY <1>3, <1>4 DEF DueOK


LEMMA DueStep == SweepInv /\ [Next]_vars => DueInv'
<1> SUFFICES ASSUME SweepInv, [Next]_vars PROVE DueInv'
  OBVIOUS
<1> USE RoutinesAssumption
<1>0. TypeOK /\ OccInv /\ BudgetInv /\ DueInv /\ moment \in Nat
  BY DEF SweepInv, TypeOK, Minutes
<1>1. /\ \A d \in due : d \in Rtns \X Minutes \X (1..Never) /\ DueOK(d)
      /\ sweep \in {"queue", "cursor"} =>
            inHand \in Rtns \X Minutes \X (1..Never) \X BOOLEAN /\ DueOK(inHand)
  BY <1>0 DEF TypeOK, DueInv
<1>2. CASE UNCHANGED <<moment, breach, occurrences, due, inHand>> /\ sweep' = sweep
  <2>1. \A d \in due' : DueOK(d)'
    BY <1>1, <1>2, DueStays DEF DueOK
  <2>2. sweep' \in {"queue", "cursor"} => DueOK(inHand)'
    BY <1>1, <1>2, DueStays DEF DueOK
  <2> QED BY <1>0, <1>2, <2>1, <2>2 DEF DueInv
<1>3. CASE ReadBudgets \/ WriteBudgets \/ EndSweep \/ Stop
  BY <1>0, <1>3 DEF ReadBudgets, WriteBudgets, EndSweep, Stop, DueInv, Runs
<1>4. CASE ReadDue
  <2>1. UNCHANGED <<row, occurrences, late, moment, breach>> /\ sweep = "due" /\ sweep' = "run"
    BY <1>4 DEF ReadDue
  <2>2. ASSUME NEW r \in Rtns, row[r].status = "active", row[r].next <= moment
        PROVE  DueOK(<<r, row[r].next, Following(row[r].sched, moment)>>)'
    <3>1. row[r] \in Row /\ row[r].sched \in Schedules /\ moment \in Minutes /\ row[r].next \in Nat
      BY <1>0 DEF TypeOK, Row, Never
    <3>2. Following(row[r].sched, moment) > moment
      BY <3>1, FollowingIsLater
    <3>3. <<r, row[r].next>> \notin late => r \notin breach
      BY <1>0, <2>1, <2>2, <3>1 DEF BudgetInv
    <3>4. <<r, row[r].next>> \notin late =>
            \A x \in occurrences : x[1] = r => row[r].next > x[3] \/ row[r].next = x[2]
      BY <1>0 DEF OccInv
    <3>5. \A x \in occurrences : x[3] \in Nat
      BY <1>0 DEF TypeOK, Minutes
    <3> QED BY <2>1, <2>2, <3>1, <3>2, <3>3, <3>4, <3>5 DEF DueOK
  <2>3. \A d \in due' : DueOK(d)'
    BY <1>4, <2>2 DEF ReadDue
  <2>4. \A d, e \in due' : d[1] = e[1] => d = e
    BY <1>4 DEF ReadDue
  <2> QED BY <2>1, <2>3, <2>4 DEF DueInv, Runs
<1>5. ASSUME NEW d \in due, StartRun(d) PROVE DueInv'
  <2>1. /\ due' = due \ {d} /\ inHand' = <<d[1], d[2], d[3], FALSE>> /\ sweep = "run"
        /\ UNCHANGED <<moment, breach, occurrences>> /\ d \in Rtns \X Minutes \X (1..Never)
        /\ sweep' \in {"queue", "cursor"} /\ (sweep' = "queue" => ~Queued(d[1], d[2]))
    BY <1>1, <1>5 DEF StartRun
  <2>2. \A e \in due : DueOK(e)'
    BY <1>1, <2>1, DueStays DEF DueOK
  <2>3. DueOK(inHand)' /\ inHand' # <<>>
    BY <2>1, <2>2 DEF DueOK
  <2>4. \A e \in due' : e[1] # inHand'[1]
    BY <1>0, <2>1 DEF DueInv
  <2>5. sweep' = "queue" => \A x \in occurrences' : ~(x[1] = d[1] /\ x[2] = d[2])
    <3>1. ASSUME NEW x \in occurrences PROVE x[3] \in Minutes /\ <<x[1], x[2], x[3]>> \in occurrences
      BY <1>0 DEF TypeOK
    <3> QED BY <2>1, <3>1 DEF Queued
  <2>6. \A e, f \in due' : e[1] = f[1] => e = f
    BY <1>0, <2>1 DEF DueInv
  <2>7. sweep' \in Runs /\ \A e \in due' : DueOK(e)'
    BY <2>1, <2>2 DEF Runs
  <2> QED BY <2>1, <2>3, <2>4, <2>5, <2>6, <2>7 DEF DueInv
<1>6. CASE QueueRun
  <2>1. /\ inHand \in Rtns \X Minutes \X (1..Never) \X BOOLEAN /\ sweep' = "cursor"
        /\ inHand' = <<inHand[1], inHand[2], inHand[3], TRUE>>
        /\ occurrences' = occurrences \cup {<<inHand[1], inHand[2], moment>>}
        /\ UNCHANGED <<row, moment, breach, due, late>> /\ DueOK(inHand)
        /\ \A d \in due : d[1] # inHand[1]
    BY <1>0, <1>1, <1>6 DEF QueueRun, DueInv
  <2>2. ASSUME NEW d \in due' PROVE DueOK(d)'
    <3>1. DueOK(d) /\ d[1] # inHand[1]
      BY <1>1, <2>1
    <3>2. \A x \in occurrences' : x[1] = d[1] => x \in occurrences
      BY <2>1, <3>1
    <3> QED BY <2>1, <3>1, <3>2 DEF DueOK
  <2>3. DueOK(inHand)' /\ inHand' # <<>>
    <3>1. \A x \in occurrences' : x \in occurrences \/ x[2] = inHand[2]
      BY <2>1
    <3> QED BY <2>1, <3>1 DEF DueOK
  <2> QED BY <1>0, <2>1, <2>2, <2>3 DEF DueInv, Runs
<1>7. CASE MoveCursor \/ FailRun
  <2>1. UNCHANGED <<due, moment, breach, occurrences>> /\ sweep' = "run"
    BY <1>7 DEF MoveCursor, FailRun
  <2>2. \A d \in due' : DueOK(d)'
    BY <1>1, <2>1, DueStays DEF DueOK
  <2> QED BY <1>0, <2>1, <2>2 DEF DueInv, Runs
<1>8. CASE Owner
  BY <1>0, <1>2, <1>8, OwnerBegins DEF PauseBot, Begin, loop
<1>9. CASE Commit \/ Tick \/ (\E b \in Rtns \cup {Other} : Spend(b)) \/ UNCHANGED vars
  <2>1. UNCHANGED <<moment, breach, occurrences, due, inHand, sweep>>
    BY <1>9 DEF Commit, Tick, Spend, vars, loop
  <2> QED BY <1>2, <2>1
<1> QED
  BY <1>3, <1>4, <1>5, <1>6, <1>7, <1>8, <1>9 DEF Next, SweepStep

(* The run that is queued is of a slot after every run of its routine so far, *)
(* or the run there is has that very slot.                                   *)
LEMMA RunsStep == SweepInv /\ [Next]_vars => RunsOnceInBudget'
<1> SUFFICES ASSUME SweepInv, [Next]_vars PROVE RunsOnceInBudget'
  OBVIOUS
<1>1. TypeOK /\ OccInv /\ DueInv /\ RunsOnceInBudget /\ DueInv'
  BY DueStep DEF SweepInv
<1>2. sweep' = "queue" => inHand'[1] \notin breach' \/ <<inHand'[1], inHand'[2]>> \in late'
  BY <1>1 DEF DueInv, DueOK
<1>3. CASE occurrences' = occurrences
  <2>1. OnTime' \subseteq OnTime
    BY <1>3, LateGrows DEF OnTime
  <2> QED BY <1>1, <1>2, <2>1 DEF RunsOnceInBudget
<1>4. CASE QueueRun
  <2>1. /\ inHand \in Rtns \X Minutes \X (1..Never) \X BOOLEAN
        /\ occurrences' = occurrences \cup {<<inHand[1], inHand[2], moment>>} /\ DueOK(inHand)
        /\ \A x \in occurrences : ~(x[1] = inHand[1] /\ x[2] = inHand[2])
    BY <1>1, <1>4 DEF QueueRun, DueInv, TypeOK
  <2>0. late' = late
    BY <1>4 DEF QueueRun
  <2>2. <<inHand[1], inHand[2]>> \notin late =>
          \A x \in occurrences : x[1] = inHand[1] => x[3] < inHand[2]
    BY <2>1 DEF DueOK
  <2>3. \A x \in occurrences : x \in Rtns \X Minutes \X Minutes /\ x[2] <= x[3]
    BY <1>1 DEF TypeOK, OccInv
  <2>4. ASSUME NEW x \in OnTime', NEW y \in OnTime', x[1] = y[1], x[2] < y[2]
        PROVE  x[3] < y[2]
    <3>0. /\ x \in occurrences' /\ <<x[1], x[2]>> \notin late
          /\ y \in occurrences' /\ <<y[1], y[2]>> \notin late
      BY <2>0, <2>4 DEF OnTime
    <3>1. CASE x \in occurrences /\ y \in occurrences
      BY <1>1, <2>4, <3>0, <3>1 DEF RunsOnceInBudget, OnTime
    <3>2. CASE y = <<inHand[1], inHand[2], moment>> /\ x \in occurrences
      BY <2>2, <2>4, <3>0, <3>2
    <3>3. CASE x = <<inHand[1], inHand[2], moment>> /\ y \in occurrences
      <4>1. y[2] \in Nat /\ y[3] \in Nat /\ inHand[2] \in Nat
        BY RoutinesAssumption, <2>1, <2>3, <3>3 DEF Minutes
      <4> QED BY <2>2, <2>3, <2>4, <3>0, <3>3, <4>1
    <3>4. CASE x = y
      <4>1. x \in Rtns \X Minutes \X Minutes
        BY <1>1, <2>1, <3>0 DEF TypeOK
      <4>2. x[2] \in Nat
        BY <4>1, RoutinesAssumption DEF Minutes
      <4> QED BY <2>4, <3>4, <4>2
    <3> QED BY <2>1, <3>0, <3>1, <3>2, <3>3, <3>4
  <2> QED BY <1>2, <2>4 DEF RunsOnceInBudget
<1>5. CASE Owner
  BY <1>1, <1>3, <1>5, OwnerBegins DEF PauseBot, Begin
<1> QED
  BY <1>3, <1>4, <1>5
  DEF Next, SweepStep, Tick, Commit, Spend, vars, ReadBudgets, WriteBudgets, ReadDue, StartRun, MoveCursor, FailRun,
      EndSweep, Stop

(* A routine that missed runs runs once, and none runs that the sweep found    *)
(* over budget: run_due, _apply_budgets and the owner's calls between.        *)
THEOREM RunsOnce == Spec => []RunsOnceInBudget
<1>1. SweepInv /\ [Next]_vars => SweepInv'
  BY SweepTypes, OccStep, CallStep, BudgetStep, DueStep, RunsStep DEF SweepInv
<1>2. SweepInv => RunsOnceInBudget
  BY DEF SweepInv
<1> QED
  BY <1>1, <1>2, SweepStarts, PTL DEF Spec

-----------------------------------------------------------------------------
(* Cron. The walk of runs_between goes over the runs in order.               *)

(* A wall time's instant is the first at which the clock shows it: no instant *)
(* of the window shows it earlier.                                           *)
LEMMA WallIsFirst ==
    ASSUME NEW z \in Zones, NEW u \in Instants
    PROVE  /\ Wall(z, Local(z, u)) \in Instants /\ Wall(z, Local(z, u)) <= u
           /\ Local(z, Wall(z, Local(z, u))) = Local(z, u)
BY CronAssumption DEF Wall, Local, Instants

(* Later wall times that exist are later instants.                           *)
LEMMA WallsGrow ==
    ASSUME NEW z \in Zones, NEW v \in Int, NEW w \in Int, v < w,
           Wall(z, v) >= 0, Wall(z, w) >= 0
    PROVE  Wall(z, v) < Wall(z, w)
BY CronAssumption DEF Wall, Local, None

(* The instants that run are those whose wall time matches and is new.       *)
LEMMA RunsMatch ==
    ASSUME zone \in Zones, NEW u \in Instants
    PROVE  RunsAt(u) <=> Matches(spec, Local(zone, u)) /\ Wall(zone, Local(zone, u)) = u
<1> DEFINE w == Local(zone, u)
           day == w \div DayMins
<1>1. w \in WallTimes /\ day \in Days
  BY CronAssumption
<1>2. (\A v \in Instants : v < u => Local(zone, v) # w) <=> Wall(zone, w) = u
  <2>1. Wall(zone, w) \in Instants /\ Wall(zone, w) <= u /\ Local(zone, Wall(zone, w)) = w
    BY WallIsFirst
  <2>2. ASSUME Wall(zone, w) = u, NEW v \in Instants, v < u, Local(zone, v) = w PROVE FALSE
    <3>1. Wall(zone, w) <= v
      BY <2>2, WallIsFirst
    <3> QED
      BY <2>2, <3>1 DEF Instants
  <2> HIDE DEF w
  <2>3. CASE Wall(zone, w) < u
    BY <2>1, <2>3, CronAssumption DEF Instants
  <2> QED
    BY <2>1, <2>2, <2>3, CronAssumption DEF Instants
<1>3. Matches(spec, w) <=>
        /\ (w % DayMins) \div Mins \in spec.hours /\ w % Mins \in spec.minutes
        /\ Calendar[day][1] \in spec.months
        /\ \/ Calendar[day][2] \in spec.days /\ Calendar[day][3] \in spec.weekdays
           \/ /\ ~spec.daysAny /\ ~spec.weekdaysAny
              /\ Calendar[day][2] \in spec.days \/ Calendar[day][3] \in spec.weekdays
  <2> HIDE DEF w
  <2> QED
    BY <1>1, Zenon DEF Matches, DayMatches
<1> HIDE DEF w
<1> QED
  BY <1>2, <1>3 DEF RunsAt, w

(* The run after an instant of the window is the first one: it is there, and  *)
(* not later than any run of the rest of the window, and runs itself.        *)
LEMMA NextIsFirst ==
    ASSUME zone \in Zones, NEW c \in Instants
    PROVE  LET found == NextAfter(spec, c, zone) IN
           /\ \A u \in c + 1 .. LastInstant : RunsAt(u) => found # None /\ found <= u
           /\ found # None /\ found <= LastInstant =>
                 found \in c + 1 .. LastInstant /\ RunsAt(found)
<1> DEFINE walls == {w \in WallTimes : /\ w > Local(zone, c)
                                       /\ Matches(spec, w) /\ Wall(zone, w) > c}
<1>1. ASSUME NEW u \in c + 1 .. LastInstant, RunsAt(u) PROVE Local(zone, u) \in walls
  <2>1. u \in Instants /\ c \in Int /\ u > c /\ c >= 0
    BY CronAssumption DEF Instants
  <2>2. Matches(spec, Local(zone, u)) /\ Wall(zone, Local(zone, u)) = u
    BY <1>1, <2>1, RunsMatch
  <2>3. Local(zone, u) \in WallTimes /\ Local(zone, c) \in WallTimes
    BY <2>1, CronAssumption
  <2>4. Local(zone, u) \in Int /\ Local(zone, c) \in Int
    BY <2>3, CronAssumption DEF WallTimes
  <2>5. Local(zone, u) > Local(zone, c)
    <3>1. Wall(zone, Local(zone, c)) \in Instants /\ Wall(zone, Local(zone, c)) <= c
      BY WallIsFirst
    <3>2. Wall(zone, Local(zone, c)) >= 0
      BY <3>1 DEF Instants
    <3>3. CASE Local(zone, u) < Local(zone, c)
      <4>1. Wall(zone, Local(zone, u)) < Wall(zone, Local(zone, c))
        BY <2>1, <2>2, <2>4, <3>2, <3>3, WallsGrow
      <4> QED
        BY <2>1, <2>2, <3>1, <4>1 DEF Instants
    <3>4. CASE Local(zone, u) = Local(zone, c)
      BY <2>1, <2>2, <3>1, <3>4 DEF Instants
    <3> QED
      BY <2>4, <3>3, <3>4
  <2> QED
    BY <2>1, <2>2, <2>3, <2>5
<1>2. NextAfter(spec, c, zone) = IF walls = {} THEN None ELSE Wall(zone, Min(walls))
  BY DEF NextAfter
<1>3. ASSUME walls # {} PROVE Min(walls) \in walls /\ \A w \in walls : Min(walls) <= w
  <2>1. walls \subseteq Nat
    BY CronAssumption DEF WallTimes
  <2> HIDE DEF walls
  <2>2. \E x \in walls : \A y \in walls : x <= y
    BY <1>3, <2>1, LeastElement
  <2> QED
    BY <2>2 DEF Min
<1> HIDE DEF walls
<1>4. CASE walls = {}
  BY <1>1, <1>2, <1>4
<1>5. CASE walls # {}
  <2> DEFINE first == Min(walls)
             found == Wall(zone, first)
  <2>1. /\ first \in WallTimes /\ first > Local(zone, c)
        /\ Matches(spec, first) /\ found > c
    BY <1>3, <1>5 DEF walls
  <2>2. first \in Int /\ found \in Int /\ c \in Int /\ c >= 0
    BY <2>1, CronAssumption DEF WallTimes, Wall, None, Instants
  <2>3. NextAfter(spec, c, zone) = found /\ found # None
    BY <1>2, <1>5, <2>1, <2>2 DEF None
  <2>4. ASSUME NEW u \in c + 1 .. LastInstant, RunsAt(u) PROVE found <= u
    <3>1. Local(zone, u) \in walls /\ first <= Local(zone, u)
      BY <1>1, <1>3, <1>5, <2>4
    <3>2. u \in Instants
      BY <2>2, CronAssumption DEF Instants
    <3>3. Wall(zone, Local(zone, u)) = u
      BY <2>4, <3>2, RunsMatch
    <3>4. Local(zone, u) \in Int /\ u >= 0 /\ u \in Int /\ found >= 0
      BY <2>1, <2>2, <3>2, CronAssumption DEF WallTimes, Instants
    <3>5. CASE first < Local(zone, u)
      <4>1. found < Wall(zone, Local(zone, u))
        BY <2>2, <3>3, <3>4, <3>5, WallsGrow
      <4> QED
        BY <2>2, <3>3, <3>4, <4>1
    <3>6. CASE first = Local(zone, u)
      BY <3>3, <3>4, <3>6
    <3> QED
      BY <2>2, <3>1, <3>4, <3>5, <3>6
  <2>5. ASSUME found <= LastInstant PROVE found \in c + 1 .. LastInstant /\ RunsAt(found)
    <3>1. found \in Instants /\ found \in c + 1 .. LastInstant
      BY <2>1, <2>2, <2>5, CronAssumption DEF Instants
    <3>2. Local(zone, found) = first
      <4>1. found # None
        BY <2>3
      <4> QED
        BY <4>1 DEF Wall
    <3> QED
      BY <2>1, <3>1, <3>2, RunsMatch
  <2> HIDE DEF found
  <2> QED
    BY <2>3, <2>4, <2>5
<1> QED
  BY <1>4, <1>5

(* The runs so far are counted, and the walk stays in its window.             *)
WalkInv ==
  /\ zone \in Zones /\ start \in Instants /\ cursor \in Instants /\ start <= cursor
  /\ count = Cardinality({u \in start + 1 .. cursor : RunsAt(u)})

LEMMA WalkStarts == CountInit => WalkInv
<1> SUFFICES ASSUME CountInit PROVE WalkInv
  OBVIOUS
<1>1. zone \in Zones /\ start \in Instants /\ cursor = start /\ count = 0 /\ start \in Int
  BY CronAssumption DEF CountInit, Instants
<1>2. {u \in start + 1 .. cursor : RunsAt(u)} = {}
  BY <1>1
<1>3. Cardinality({u \in start + 1 .. cursor : RunsAt(u)}) = 0
  BY <1>2, FS_EmptySet
<1> QED
  BY <1>1, <1>3 DEF WalkInv

LEMMA WalkStep == WalkInv /\ [CountNext]_cronVars => WalkInv'
<1> SUFFICES ASSUME WalkInv, [CountNext]_cronVars PROVE WalkInv'
  OBVIOUS
<1>1. CASE CountRun
  <2> DEFINE found == NextAfter(spec, cursor, zone)
             before == {u \in start + 1 .. cursor : RunsAt(u)}
  <2>1. /\ found # None /\ found <= LastInstant /\ cursor' = found /\ count' = count + 1
        /\ spec' = spec /\ zone' = zone /\ start' = start
    BY <1>1 DEF CountRun
  <2>2. /\ found \in cursor + 1 .. LastInstant /\ RunsAt(found)
        /\ \A u \in cursor + 1 .. LastInstant : RunsAt(u) => found <= u
    BY <2>1, NextIsFirst DEF WalkInv
  <2> HIDE DEF found
  <2>3. start \in Nat /\ cursor \in Nat /\ start <= cursor /\ LastInstant \in Nat
    BY CronAssumption DEF WalkInv, Instants
  <2>4. \A u : RunsAt(u)' <=> RunsAt(u)
    BY <2>1 DEF RunsAt
  <2>5. {u \in start + 1 .. cursor : RunsAt(u)}' = before \cup {found}
    <3>1. {u \in start + 1 .. cursor : RunsAt(u)}' = {u \in start + 1 .. found : RunsAt(u)}
      BY <2>1, <2>4
    <3>2. ASSUME NEW u \in start + 1 .. found, RunsAt(u) PROVE u \in before \cup {found}
      BY <2>2, <2>3, <3>2
    <3>3. \A u \in before \cup {found} : u \in start + 1 .. found /\ RunsAt(u)
      BY <2>2, <2>3
    <3> QED
      BY <3>1, <3>2, <3>3
  <2>6. IsFiniteSet(before)
    <3>1. IsFiniteSet(start + 1 .. cursor)
      BY <2>3, FS_Interval
    <3> QED
      BY <3>1, FS_Subset
  <2>7. found \notin before
    BY <2>2, <2>3
  <2>8. Cardinality(before \cup {found}) = Cardinality(before) + 1
    BY <2>6, <2>7, FS_AddElement
  <2>9. cursor' \in Instants /\ start' <= cursor'
    BY <2>1, <2>2, <2>3 DEF Instants
  <2> QED
    BY <2>1, <2>5, <2>8, <2>9 DEF WalkInv
<1>2. CASE UNCHANGED cronVars
  <2>1. \A u : RunsAt(u)' <=> RunsAt(u)
    BY <1>2 DEF RunsAt, cronVars
  <2> QED
    BY <1>2, <2>1 DEF WalkInv, cronVars
<1> QED
  BY <1>1, <1>2 DEF CountNext

(* The walk meets every run of its window once, for every calendar, schedule, *)
(* zone, start and limit, across a gap or a fold of the wall clock            *)
(* (next_after, _wall, runs_between).                                        *)
THEOREM WalksEveryRun == CountSpec => []CountsEveryRun
<1>1. WalkInv => CountsEveryRun
  BY NextIsFirst DEF WalkInv, CountsEveryRun
<1>2. WalkInv /\ [CountNext]_cronVars => WalkInv'
  BY WalkStep
<1> QED
  BY <1>1, <1>2, WalkStarts, PTL DEF CountSpec

(* Sums over finite sets. A sum is a recursive function that takes a chosen   *)
(* element first; any element may be taken instead.                          *)
Sums(g, D, f) ==
  /\ g \in [SUBSET D -> Nat] /\ g[{}] = 0
  /\ \A T \in SUBSET D : \A x \in D \ T : g[T \cup {x}] = g[T] + f[x]

LEMMA SumIsFunction ==
    ASSUME NEW D, IsFiniteSet(D), NEW f \in [D -> Nat]
    PROVE  \E g : Sums(g, D, f) /\ \A S \in SUBSET D : SumFunctionOnSet(f, S) = g[S]
<1> DEFINE pick == [s \in SUBSET D |-> CHOOSE x \in s : TRUE]
           take == [x \in D |-> [v \in Nat |-> f[x] + v]]
<1>0. \A s \in SUBSET D : IsFiniteSet(s) /\ Cardinality(s) \in Nat
  BY FS_Subset, FS_CardinalityType
<1>1. /\ \A s \in SUBSET D : pick[s] = (CHOOSE x \in s : TRUE) /\ (s # {} => pick[s] \in s)
      /\ \A x \in D : \A v \in Nat : take[x][v] = f[x] + v /\ f[x] + v \in Nat
  OBVIOUS
<1> HIDE DEF pick, take
<1>2. PICK g : IsFold(g, D, Nat, 0, pick, take)
  <2>1. CanFold(D, Nat, 0, pick, take)
    BY <1>1 DEF CanFold
  <2> QED
    BY <2>1, FoldExists
<1>3. g \in [SUBSET D -> Nat] /\ g[{}] = 0
  BY <1>2 DEF IsFold
<1>4. ASSUME NEW s \in SUBSET D, s # {}
      PROVE  pick[s] \in s /\ s \ {pick[s]} \in SUBSET D /\ g[s] = f[pick[s]] + g[s \ {pick[s]}]
  <2>1. pick[s] \in D /\ pick[s] \in s /\ s \ {pick[s]} \in SUBSET D
    BY <1>1, <1>4
  <2>2. g[s \ {pick[s]}] \in Nat
    BY <1>3, <2>1
  <2>3. g[s] = take[pick[s]][g[s \ {pick[s]}]]
    BY <1>2, <1>4 DEF IsFold
  <2> QED
    BY <1>1, <2>1, <2>2, <2>3
<1>5. ASSUME NEW S \in SUBSET D PROVE SumFunctionOnSet(f, S) = g[S]
  <2> DEFINE Eq(i) == i = [s \in SUBSET S |->
                             IF s = {} THEN 0
                             ELSE f[CHOOSE x \in s : TRUE] + i[s \ {CHOOSE x \in s : TRUE}]]
             iter == CHOOSE i : Eq(i)
             h == [s \in SUBSET S |-> g[s]]
  <2>1. SumFunctionOnSet(f, S) = iter[S]
    BY DEF SumFunctionOnSet, FoldFunctionOnSet, MapThenFoldSet
  <2>2. ASSUME NEW s \in SUBSET S, s # {}
        PROVE  g[s] = f[CHOOSE x \in s : TRUE] + g[s \ {CHOOSE x \in s : TRUE}]
    <3>1. s \in SUBSET D
      OBVIOUS
    <3> QED
      BY <1>1, <1>4, <2>2, <3>1
  <2>3. Eq(h)
    <3>1. ASSUME NEW s \in SUBSET S
          PROVE  g[s] = IF s = {} THEN 0
                        ELSE f[CHOOSE x \in s : TRUE] + h[s \ {CHOOSE x \in s : TRUE}]
      <4>1. s \ {CHOOSE x \in s : TRUE} \in SUBSET S
        OBVIOUS
      <4>2. h[s \ {CHOOSE x \in s : TRUE}] = g[s \ {CHOOSE x \in s : TRUE}]
        BY <4>1
      <4> HIDE DEF h
      <4> QED
        BY <1>3, <2>2, <4>2
    <3> QED
      BY <3>1
  <2>4. Eq(iter)
    <3> HIDE DEF Eq
    <3> QED
      BY <2>3
  <2> HIDE DEF iter, h
  <2>5. ASSUME NEW s \in SUBSET S, s # {}
        PROVE  iter[s] = f[pick[s]] + iter[s \ {pick[s]}]
    <3>1. pick[s] = CHOOSE x \in s : TRUE
      BY <1>1
    <3> QED
      BY <2>4, <2>5, <3>1
  <2> DEFINE N == {n \in Nat : \A s \in SUBSET S : Cardinality(s) = n => iter[s] = g[s]}
  <2>6. 0 \in N
    <3>1. \A s \in SUBSET S : Cardinality(s) = 0 => s = {}
      BY <1>0, FS_EmptySet
    <3>2. iter[{}] = 0
      BY <2>4
    <3> QED
      BY <1>3, <3>1, <3>2
  <2>7. ASSUME NEW n \in N PROVE n + 1 \in N
    <3>1. ASSUME NEW s \in SUBSET S, Cardinality(s) = n + 1 PROVE iter[s] = g[s]
      <4>0. n \in Nat /\ Cardinality(s) # 0
        BY <2>7, <3>1
      <4>1. s # {} /\ s \in SUBSET D
        BY <4>0, FS_EmptySet
      <4>2. pick[s] \in s /\ g[s] = f[pick[s]] + g[s \ {pick[s]}]
        BY <1>4, <4>1
      <4>3. Cardinality(s \ {pick[s]}) = n /\ s \ {pick[s]} \in SUBSET S
        <5>1. IsFiniteSet(s)
          BY <1>0, <4>1
        <5>2. Cardinality(s \ {pick[s]}) = Cardinality(s) - 1
          BY <4>2, <5>1, FS_RemoveElement
        <5> QED
          BY <2>7, <3>1, <5>2
      <4> QED
        BY <2>5, <4>1, <4>2, <4>3
    <3> QED
      BY <3>1
  <2>8. Cardinality(S) \in N
    <3>1. 0..Cardinality(S) \subseteq N
      <4> HIDE DEF N
      <4> QED
        BY <1>0, <2>6, <2>7, UpTo
    <3>2. Cardinality(S) \in 0..Cardinality(S)
      BY <1>0
    <3> HIDE DEF N
    <3> QED
      BY <3>1, <3>2
  <2> QED
    BY <2>1, <2>8
<1> DEFINE N == {n \in Nat : \A T \in SUBSET D : Cardinality(T) = n =>
                               \A x \in D \ T : g[T \cup {x}] = g[T] + f[x]}
<1>6. ASSUME NEW T \in SUBSET D, NEW x \in D \ T,
             \A c \in T : \A y \in D \ (T \ {c}) : g[(T \ {c}) \cup {y}] = g[T \ {c}] + f[y]
      PROVE  g[T \cup {x}] = g[T] + f[x]
  <2> DEFINE U == T \cup {x}
             c == pick[U]
  <2>1. c \in U /\ g[U] = f[c] + g[U \ {c}]
    BY <1>4
  <2>2. f[x] \in Nat /\ f[c] \in Nat /\ g[T] \in Nat
    BY <1>3, <2>1
  <2>3. CASE c = x
    <3>1. U \ {c} = T
      BY <2>3
    <3> QED
      BY <2>1, <2>2, <2>3, <3>1
  <2>4. CASE c # x
    <3> HIDE DEF c
    <3>1. c \in T /\ U \ {c} = (T \ {c}) \cup {x} /\ T = (T \ {c}) \cup {c}
      BY <2>1, <2>4
    <3>2. g[(T \ {c}) \cup {x}] = g[T \ {c}] + f[x] /\ g[(T \ {c}) \cup {c}] = g[T \ {c}] + f[c]
      BY <1>6, <3>1
    <3>3. g[T \ {c}] \in Nat
      BY <1>3
    <3>4. g[U] = f[c] + (g[T \ {c}] + f[x])
      BY <2>1, <3>1, <3>2
    <3>5. g[T] = g[T \ {c}] + f[c]
      BY <3>1, <3>2
    <3> HIDE DEF U
    <3>6. g[U] = g[T] + f[x]
      BY <2>2, <3>3, <3>4, <3>5
    <3> QED
      BY <3>6 DEF U
  <2> QED
    BY <2>3, <2>4
<1>7. 0 \in N
  <2>1. ASSUME NEW T \in SUBSET D, Cardinality(T) = 0, NEW x \in D \ T
        PROVE  g[T \cup {x}] = g[T] + f[x]
    <3>1. T = {}
      BY <1>0, <2>1, FS_EmptySet
    <3> QED
      BY <1>6, <3>1
  <2> QED
    BY <2>1
<1>8. ASSUME NEW n \in N PROVE n + 1 \in N
  <2>1. ASSUME NEW T \in SUBSET D, Cardinality(T) = n + 1, NEW x \in D \ T
        PROVE  g[T \cup {x}] = g[T] + f[x]
    <3>1. ASSUME NEW c \in T
          PROVE  \A y \in D \ (T \ {c}) : g[(T \ {c}) \cup {y}] = g[T \ {c}] + f[y]
      <4>1. Cardinality(T \ {c}) = n /\ T \ {c} \in SUBSET D
        BY <1>0, <2>1, FS_RemoveElement
      <4> QED
        BY <4>1
    <3> HIDE DEF N
    <3> QED
      BY <1>6, <3>1
  <2> QED
    BY <2>1
<1>9. \A T \in SUBSET D : \A x \in D \ T : g[T \cup {x}] = g[T] + f[x]
  <2> SUFFICES ASSUME NEW T \in SUBSET D PROVE \A x \in D \ T : g[T \cup {x}] = g[T] + f[x]
    OBVIOUS
  <2>1. 0..Cardinality(T) \subseteq N
    <3> HIDE DEF N
    <3> QED
      BY <1>0, <1>7, <1>8, UpTo
  <2>2. Cardinality(T) \in 0..Cardinality(T)
    BY <1>0
  <2>3. Cardinality(T) \in N
    <3> HIDE DEF N
    <3> QED
      BY <2>1, <2>2
  <2> QED
    BY <2>3
<1> QED
  BY <1>3, <1>5, <1>9 DEF Sums

(* The sum over a union of two sets that share nothing.                       *)
LEMMA SumOfTwo ==
    ASSUME NEW D, IsFiniteSet(D), NEW f \in [D -> Nat], NEW g, Sums(g, D, f),
           NEW S \in SUBSET D, NEW T \in SUBSET D, S \cap T = {}
    PROVE  g[S \cup T] = g[S] + g[T]
<1> DEFINE P == {Y \in SUBSET T : g[S \cup Y] = g[S] + g[Y]}
<1>0. g \in [SUBSET D -> Nat] /\ g[{}] = 0
  BY DEF Sums
<1>1. {} \in P
  <2>1. S \cup {} = S
    OBVIOUS
  <2>2. g[S] \in Nat
    BY <1>0
  <2> QED
    BY <1>0, <2>1, <2>2
<1>2. ASSUME NEW Y \in SUBSET T, NEW x \in T \ Y, Y \in P PROVE Y \cup {x} \in P
  <2>1. g[S \cup Y] = g[S] + g[Y]
    BY <1>2
  <2>2. Y \in SUBSET D /\ x \in D \ Y /\ S \cup Y \in SUBSET D /\ x \in D \ (S \cup Y)
    OBVIOUS
  <2>3. g[Y \cup {x}] = g[Y] + f[x] /\ g[(S \cup Y) \cup {x}] = g[S \cup Y] + f[x]
    BY <2>2 DEF Sums
  <2>4. (S \cup Y) \cup {x} = S \cup (Y \cup {x}) /\ Y \cup {x} \in SUBSET T
    OBVIOUS
  <2>5. g[S] \in Nat /\ g[Y] \in Nat /\ f[x] \in Nat
    BY <1>0, <2>2
  <2>6. g[S \cup (Y \cup {x})] = g[S] + g[Y \cup {x}]
    BY <2>1, <2>3, <2>4, <2>5
  <2> QED
    BY <2>4, <2>6
<1>3. IsFiniteSet(T)
  BY FS_Subset
<1>4. T \in P
  <2> HIDE DEF P
  <2> QED
    BY <1>1, <1>2, <1>3, OneByOne
<1> QED
  BY <1>4

(* The sum of the sums of parts is the sum of all.                            *)
LEMMA SumOfParts ==
    ASSUME NEW D, IsFiniteSet(D), NEW f \in [D -> Nat], NEW B, IsFiniteSet(B),
           NEW S \in SUBSET D, NEW of, \A x \in S : of[x] \in B,
           NEW h \in [B -> Nat], \A b \in B : h[b] = SumFunctionOnSet(f, {x \in S : of[x] = b})
    PROVE  SumFunctionOnSet(h, B) = SumFunctionOnSet(f, S)
<1>1. PICK g : Sums(g, D, f) /\ \A T \in SUBSET D : SumFunctionOnSet(f, T) = g[T]
  BY SumIsFunction
<1>2. PICK k : Sums(k, B, h) /\ \A C \in SUBSET B : SumFunctionOnSet(h, C) = k[C]
  BY SumIsFunction
<1>3. \A b \in B : h[b] = g[{x \in S : of[x] = b}]
  <2>1. \A b \in B : {x \in S : of[x] = b} \in SUBSET D
    OBVIOUS
  <2> QED
    BY <1>1, <2>1
<1> DEFINE P == {C \in SUBSET B : k[C] = g[{x \in S : of[x] \in C}]}
<1>4. {} \in P
  <2>1. {x \in S : of[x] \in {}} = {}
    OBVIOUS
  <2>2. k[{}] = 0 /\ g[{}] = 0
    BY <1>1, <1>2 DEF Sums
  <2> QED
    BY <2>1, <2>2
<1>5. ASSUME NEW C \in SUBSET B, NEW b \in B \ C, C \in P PROVE C \cup {b} \in P
  <2> DEFINE X == {x \in S : of[x] \in C}
             Y == {x \in S : of[x] = b}
  <2>1. /\ X \in SUBSET D /\ Y \in SUBSET D /\ X \cap Y = {}
        /\ {x \in S : of[x] \in C \cup {b}} = X \cup Y
    OBVIOUS
  <2>2. k[C \cup {b}] = k[C] + h[b] /\ k[C] = g[X] /\ h[b] = g[Y]
    BY <1>2, <1>3, <1>5 DEF Sums
  <2> HIDE DEF X, Y
  <2>3. g[X \cup Y] = g[X] + g[Y]
    <3>1. Sums(g, D, f) /\ X \in SUBSET D /\ Y \in SUBSET D /\ X \cap Y = {}
      BY <1>1, <2>1
    <3>2. IsFiniteSet(D) /\ f \in [D -> Nat]
      OBVIOUS
    <3> HIDE DEF P
    <3> QED
      BY <3>1, <3>2, SumOfTwo
  <2> QED
    BY <2>1, <2>2, <2>3
<1>6. B \in P
  <2> HIDE DEF P
  <2> QED
    BY <1>4, <1>5, OneByOne
<1>7. {x \in S : of[x] \in B} = S
  OBVIOUS
<1> QED
  BY <1>1, <1>2, <1>6, <1>7

(* The overview. A turn that was started keeps its agent, and the turns that  *)
(* have run since the overview began were running when the agents were read. *)
Sources == {"empty", "subscription", "unknown", "price_table", "local"}
TurnRows == [agent : Agents \cup {NoTurn.agent}, job : Jobs \cup {NoRun},
             status : Ended \cup {"none", "running", "waiting"}, finished : Nat,
             usage : [source : Sources, cost : Nat]]

RowInv ==
  /\ fClock \in Nat
  /\ turnRow \in [Turns -> TurnRows]
  /\ \A t \in Turns : turnRow[t].status # "none" => turnRow[t].agent \in Agents

Named == {"today", "upcoming", "ended", "answer", "shown"}

BoardInv ==
  /\ "at" \in DOMAIN board
  /\ board.at # "none" =>
        "busy" \in DOMAIN board /\ board.busy \subseteq {t \in Turns : turnRow[t].status # "none"}
  /\ board.at = "agents" => \A t \in board.busy : turnRow[t].agent \in board.running
  /\ board.at \in Named =>
        "bots" \in DOMAIN board /\ \A t \in board.busy : board.bots[BotOf(t)] = "running"

FleetInv == RowInv /\ BoardInv

LEMMA SpendsAgree == ASSUME RowInv PROVE Spends = Costs /\ Costs \in [Turns -> Nat]
<1>1. ASSUME NEW t \in Turns
      PROVE  /\ SpendOf(turnRow[t].usage) = PricedCost(turnRow[t].usage)
             /\ PricedCost(turnRow[t].usage) \in Nat
  <2>1. turnRow[t].usage \in [source : Sources, cost : Nat]
    BY DEF RowInv, TurnRows
  <2> QED
    BY <2>1 DEF SpendOf, PricedCost, Priced, Sources
<1> QED
  BY <1>1 DEF Spends, Costs

LEMMA SumTyped ==
    ASSUME NEW D, IsFiniteSet(D), NEW f \in [D -> Nat], NEW S \in SUBSET D
    PROVE  SumFunctionOnSet(f, S) \in Nat
<1>1. PICK g : Sums(g, D, f) /\ \A T \in SUBSET D : SumFunctionOnSet(f, T) = g[T]
  BY SumIsFunction
<1>2. g \in [SUBSET D -> Nat] /\ SumFunctionOnSet(f, S) = g[S]
  BY <1>1 DEF Sums
<1> QED
  BY <1>2

LEMMA LevelsAgree ==
    ASSUME RowInv, HostBudget > 0, HostSpend # HostBudget, NEW below \in BOOLEAN
    PROVE  Level(Today(StartOfDay(fClock)).spend) = "over" <=> HostOver(below)
<1> DEFINE since == StartOfDay(fClock)
           S == EndedSince(since)
           of == [t \in Turns |-> BotOf(t)]
           h == SpendByBot(since)
<1> HIDE DEF since
<1>1. IsFiniteSet(Turns) /\ IsFiniteSet(Bots) /\ HostBudget \in Nat
      /\ Costs \in [Turns -> Nat] /\ S \in SUBSET Turns
  BY FleetAssumption, SpendsAgree DEF EndedSince
<1>2. \A t \in S : of[t] \in Bots
  <2>1. \A t \in S : t \in Turns /\ turnRow[t].agent \in Agents
    BY DEF EndedSince, Ended, RowInv
  <2>2. AgentBot \in [Agents -> Bots]
    BY FleetAssumption DEF Agents
  <2>3. \A t \in Turns : of[t] = AgentBot[turnRow[t].agent]
    BY DEF BotOf
  <2> HIDE DEF of, S
  <2> QED
    BY <2>1, <2>2, <2>3
<1>3. \A b \in Bots : {t \in S : BotOf(t) = b} = {t \in S : of[t] = b}
  BY <1>1
<1>4. \A b \in Bots : /\ h[b] = SumFunctionOnSet(Costs, {t \in S : of[t] = b})
                      /\ h[b] \in Nat
  <2> SUFFICES ASSUME NEW b \in Bots
               PROVE  /\ h[b] = SumFunctionOnSet(Costs, {t \in S : of[t] = b})
                      /\ h[b] \in Nat
    OBVIOUS
  <2>1. h[b] = SumFunctionOnSet(Costs, {t \in S : BotOf(t) = b})
    BY DEF SpendByBot
  <2>2. {t \in S : of[t] = b} \in SUBSET Turns
    BY <1>1
  <2> HIDE DEF of, S, h
  <2>3. SumFunctionOnSet(Costs, {t \in S : of[t] = b}) \in Nat
    BY <1>1, <2>2, SumTyped
  <2> QED
    BY <1>3, <2>1, <2>3
<1>5. h \in [Bots -> Nat]
  <2>1. h = [b \in Bots |-> h[b]]
    BY DEF SpendByBot
  <2> HIDE DEF h
  <2> QED
    BY <1>4, <2>1
<1>6. HostSpend = SumFunctionOnSet(h, Bots)
  BY DEF HostSpend, since
<1>7. Today(since).spend = SumFunctionOnSet(Costs, S)
  BY SpendsAgree DEF Today
<1> HIDE DEF S, of, h
<1>8. SumFunctionOnSet(h, Bots) = SumFunctionOnSet(Costs, S)
  BY <1>1, <1>2, <1>4, <1>5, SumOfParts
<1>9. SumFunctionOnSet(Costs, S) \in Nat
  BY <1>1, SumTyped
<1>10. Level(Today(since).spend) = "over" <=> Today(since).spend >= HostBudget
  BY <1>1 DEF Level
<1> QED
  BY <1>1, <1>6, <1>7, <1>8, <1>9, <1>10 DEF since, HostOver

(* The rows that a change of the world leaves: a started turn keeps its agent. *)
RowsKept ==
  /\ fClock' \in Nat /\ UNCHANGED board
  /\ turnRow' \in [Turns -> TurnRows]
  /\ \A t \in Turns :
        \/ turnRow'[t] = turnRow[t]
        \/ /\ turnRow'[t].status # "none" /\ turnRow'[t].agent \in Agents
           /\ turnRow[t].status # "none" => turnRow'[t].agent = turnRow[t].agent

LEMMA RowsChange == ASSUME FleetInv, RowsKept PROVE FleetInv'
<1> USE DEF RowsKept
<1>1. RowInv'
  BY DEF FleetInv, RowInv
<1>2. \A t \in Turns : turnRow[t].status # "none" =>
         turnRow'[t].status # "none" /\ turnRow'[t].agent = turnRow[t].agent
  OBVIOUS
<1>3. BoardInv'
  <2>1. board.at # "none" =>
           "busy" \in DOMAIN board /\ board.busy \subseteq {t \in Turns : turnRow'[t].status # "none"}
    BY <1>2 DEF FleetInv, BoardInv
  <2>2. board.at = "agents" => \A t \in board.busy : turnRow'[t].agent \in board.running
    BY <1>2 DEF FleetInv, BoardInv
  <2>3. board.at \in Named =>
           "bots" \in DOMAIN board /\ \A t \in board.busy : board.bots[AgentBot[turnRow'[t].agent]] = "running"
    BY <1>2 DEF FleetInv, BoardInv, BotOf, Named
  <2> QED
    BY <2>1, <2>2, <2>3 DEF FleetInv, BoardInv, BotOf
<1> QED
  BY <1>1, <1>3 DEF FleetInv

(* A turn that runs when a read is done was started.                          *)
LEMMA BusyStarted ==
    StillBusy \subseteq {t \in Turns : turnRow[t].status # "none"} /\ StillBusy \subseteq board.busy
BY DEF StillBusy

(* A read sets its fields, moves on, and keeps the turns that still run.      *)
LEMMA ReadSets ==
    ASSUME BoardInv, NEW from, from # "none", NEW to, NEW fields, Read(from, to, fields),
           DOMAIN fields \cap {"at", "busy"} = {}
    PROVE  /\ DOMAIN board' = DOMAIN fields \cup DOMAIN board
           /\ board.at = from /\ board'.at = to /\ board'.busy = StillBusy
           /\ \A x \in DOMAIN fields : board'[x] = fields[x]
           /\ \A x \in DOMAIN board : x \notin DOMAIN fields \cup {"at", "busy"} => board'[x] = board[x]
           /\ {"at", "busy"} \subseteq DOMAIN board' /\ UNCHANGED <<fClock, turnRow>>
BY DEF Read, BoardInv, World

LEMMA BoardInit == FleetInit => FleetInv
<1> SUFFICES ASSUME FleetInit PROVE FleetInv
  OBVIOUS
<1>1. NoTurn \in TurnRows /\ NoTurn.status = "none"
  BY DEF NoTurn, TurnRows, NoUsage, Sources
<1>2. RowInv
  BY <1>1 DEF FleetInit, RowInv
<1>3. "at" \in DOMAIN Empty /\ Empty.at = "none"
  BY DEF Empty
<1>4. BoardInv
  BY <1>3 DEF FleetInit, BoardInv, Named
<1> QED
  BY <1>2, <1>4 DEF FleetInv

LEMMA BoardStep == FleetInv /\ [FleetNext]_fleetVars => FleetInv'
<1> SUFFICES ASSUME FleetInv, [FleetNext]_fleetVars PROVE FleetInv'
  OBVIOUS
<1>0. RowInv /\ BoardInv /\ fClock \in Nat /\ turnRow \in [Turns -> TurnRows]
  BY DEF FleetInv, RowInv
<1>r. ASSUME UNCHANGED <<fClock, turnRow, board>> PROVE FleetInv'
  <2>1. RowsKept
    BY <1>0, <1>r DEF RowsKept
  <2> QED
    BY <2>1, RowsChange
<1>1. ASSUME NEW t \in Turns, NEW a \in Agents, NEW j \in Jobs \cup {NoRun}, StartTurn(t, a, j)
      PROVE  FleetInv'
  <2> DEFINE new == [NoTurn EXCEPT !.agent = a, !.job = j, !.status = "running"]
  <2>1. turnRow' = [turnRow EXCEPT ![t] = new] /\ turnRow[t].status = "none"
        /\ UNCHANGED <<fClock, board>>
    BY <1>1 DEF StartTurn
  <2>2. new \in TurnRows /\ new.status = "running" /\ new.agent = a
    BY DEF NoTurn, TurnRows, NoUsage, Sources
  <2> HIDE DEF new
  <2>3. turnRow' \in [Turns -> TurnRows]
    BY <1>0, <2>1, <2>2
  <2>4. turnRow'[t] = new /\ \A u \in Turns : u # t => turnRow'[u] = turnRow[u]
    BY <1>0, <2>1
  <2>5. turnRow'[t].status # "none" /\ turnRow'[t].agent \in Agents
    BY <2>2, <2>4
  <2>6. RowsKept
    BY <1>0, <2>1, <2>3, <2>4, <2>5 DEF RowsKept
  <2> QED
    BY <2>6, RowsChange
(* A turn that goes on keeps its agent.                                      *)
<1>g. ASSUME NEW t \in Turns, NEW record \in TurnRows, UNCHANGED <<fClock, board>>,
             turnRow' = [turnRow EXCEPT ![t] = record], turnRow[t].status # "none",
             record.status # "none", record.agent = turnRow[t].agent
      PROVE  FleetInv'
  <2>1. turnRow' \in [Turns -> TurnRows]
    BY <1>0, <1>g
  <2>2. turnRow'[t] = record /\ \A u \in Turns : u # t => turnRow'[u] = turnRow[u]
    BY <1>0, <1>g
  <2>3. turnRow'[t].status # "none" /\ turnRow'[t].agent \in Agents
        /\ turnRow'[t].agent = turnRow[t].agent
    BY <1>0, <1>g, <2>2 DEF RowInv
  <2>4. RowsKept
    BY <1>0, <1>g, <2>1, <2>2, <2>3 DEF RowsKept
  <2> QED
    BY <2>4, RowsChange
<1>2. ASSUME NEW q \in Requests, NEW t \in Turns, NEW kind, NEW blocking, NEW priority,
             Ask(q, t, kind, blocking, priority)
      PROVE  FleetInv'
  <2>1. UNCHANGED <<fClock, board>> /\ turnRow[t].status = "running"
        /\ (UNCHANGED turnRow \/ turnRow' = [turnRow EXCEPT ![t].status = "waiting"])
    BY <1>2 DEF Ask
  <2>2. CASE UNCHANGED turnRow
    BY <1>r, <2>1, <2>2
  <2>3. CASE turnRow' = [turnRow EXCEPT ![t].status = "waiting"]
    <3> DEFINE record == [turnRow[t] EXCEPT !.status = "waiting"]
    <3>1. turnRow[t] \in TurnRows
      BY <1>0
    <3>2. record \in TurnRows /\ record.status # "none" /\ record.agent = turnRow[t].agent
      BY <3>1 DEF TurnRows
    <3>3. turnRow' = [turnRow EXCEPT ![t] = record]
      BY <2>3
    <3> HIDE DEF record
    <3> QED
      BY <1>g, <2>1, <3>2, <3>3
  <2> QED
    BY <2>1, <2>2, <2>3
<1>3. ASSUME NEW q \in Requests, Answer(q) PROVE FleetInv'
  <2>1. /\ UNCHANGED <<fClock, board>>
        /\ \/ UNCHANGED turnRow
           \/ /\ turnRow[askRow[q].turn].status = "waiting"
              /\ turnRow' = [turnRow EXCEPT ![askRow[q].turn].status = "running"]
    BY <1>3 DEF Answer
  <2>2. CASE UNCHANGED turnRow
    BY <1>r, <2>1, <2>2
  <2> DEFINE t == askRow[q].turn
  <2>3. CASE turnRow[t].status = "waiting" /\ turnRow' = [turnRow EXCEPT ![t].status = "running"]
    <3> HIDE DEF t
    <3>0. CASE t \in Turns
      <4> DEFINE record == [turnRow[t] EXCEPT !.status = "running"]
      <4>1. turnRow[t] \in TurnRows
        BY <1>0, <3>0
      <4>2. record \in TurnRows /\ record.status # "none" /\ record.agent = turnRow[t].agent
        BY <4>1 DEF TurnRows
      <4>3. turnRow' = [turnRow EXCEPT ![t] = record]
        BY <2>3
      <4> HIDE DEF record
      <4> QED
        BY <1>g, <2>1, <2>3, <3>0, <4>2, <4>3
    <3>1. CASE t \notin Turns
      <4>1. turnRow' = turnRow
        BY <1>0, <2>3, <3>1
      <4> QED
        BY <1>r, <2>1, <4>1
    <3> QED
      BY <3>0, <3>1
  <2> QED
    BY <2>1, <2>2, <2>3
<1>4. ASSUME NEW t \in Turns, NEW status \in {"done", "failed"}, NEW usage \in Usages, NEW silent,
             EndTurn(t, status, usage, silent)
      PROVE  FleetInv'
  <2> DEFINE record == [turnRow[t] EXCEPT !.status = status, !.finished = fClock, !.usage = usage]
  <2>1. UNCHANGED <<fClock, board>> /\ turnRow[t].status = "running"
        /\ turnRow' = [turnRow EXCEPT ![t] = record]
    BY <1>4 DEF EndTurn
  <2>2. turnRow[t] \in TurnRows /\ usage \in [source : Sources, cost : Nat]
    BY <1>0, FleetAssumption DEF Sources
  <2>3. record \in TurnRows /\ record.status # "none" /\ record.agent = turnRow[t].agent
    BY <1>0, <2>2 DEF TurnRows, Ended
  <2> HIDE DEF record
  <2> QED
    BY <1>g, <2>1, <2>3
<1>5. CASE (\E below \in BOOLEAN : BudgetSweep(below)) \/ \E b \in Bots : FlipBot(b)
  BY <1>5, <1>r DEF BudgetSweep, FlipBot
<1>6. CASE Hour
  <2>1. fClock' = fClock + 1 /\ UNCHANGED <<turnRow, board>>
    BY <1>6 DEF Hour
  <2>2. RowsKept
    BY <1>0, <2>1 DEF RowsKept
  <2> QED
    BY <2>2, RowsChange
(* A step of the overview.                                                   *)
<1>b. ASSUME UNCHANGED <<fClock, turnRow>>, BoardInv' PROVE FleetInv'
  <2>1. RowInv'
    BY <1>0, <1>b DEF RowInv
  <2> QED
    BY <1>b, <2>1 DEF FleetInv
<1>7. ASSUME NEW what, BeginBoard(what) PROVE FleetInv'
  <2>1. /\ DOMAIN board' = {"at", "what", "now", "ollama", "busy"}
        /\ board'.at \in {"probe", "waiting"} /\ board'.busy = {t \in Turns : turnRow[t].status = "running"}
        /\ UNCHANGED <<fClock, turnRow>>
    BY <1>7 DEF BeginBoard, World
  <2>2. BoardInv'
    BY <2>1 DEF BoardInv, Named
  <2> QED
    BY <1>b, <2>1, <2>2
<1>8. ASSUME NEW answer, FirstProbe(answer) PROVE FleetInv'
  <2>1. /\ board.at = "probe" /\ board' = [board EXCEPT !.at = "waiting", !.ollama = answer]
        /\ UNCHANGED <<fClock, turnRow>>
    BY <1>8 DEF FirstProbe, World
  <2>2. /\ DOMAIN board' = DOMAIN board /\ board'.at = "waiting" /\ board'.busy = board.busy
        /\ "at" \in DOMAIN board /\ "busy" \in DOMAIN board
    BY <1>0, <2>1 DEF BoardInv
  <2>3. BoardInv'
    BY <1>0, <2>1, <2>2 DEF BoardInv, Named
  <2> QED
    BY <1>b, <2>1, <2>3
<1>9. ASSUME NEW answer, RefreshDone(answer) PROVE FleetInv'
  BY <1>9, <1>r DEF RefreshDone, World
(* A read that neither lists the turns nor names the bots.                   *)
<1>c. ASSUME NEW from, NEW to, NEW fields, Read(from, to, fields), from # "none", to # "agents",
             DOMAIN fields \cap {"at", "busy", "bots"} = {}, to \in Named => from \in Named
      PROVE  FleetInv'
  <2>1. /\ DOMAIN board' = DOMAIN fields \cup DOMAIN board
        /\ board.at = from /\ board'.at = to /\ board'.busy = StillBusy
        /\ \A x \in DOMAIN board : x \notin DOMAIN fields \cup {"at", "busy"} => board'[x] = board[x]
        /\ {"at", "busy"} \subseteq DOMAIN board' /\ UNCHANGED <<fClock, turnRow>>
    BY <1>0, <1>c, ReadSets
  <2>2. ASSUME to \in Named
        PROVE  "bots" \in DOMAIN board' /\ \A t \in StillBusy : board'.bots[BotOf(t)] = "running"
    <3>1. "bots" \in DOMAIN board /\ \A t \in board.busy : board.bots[BotOf(t)] = "running"
      BY <1>0, <1>c, <2>1, <2>2 DEF BoardInv
    <3>2. "bots" \in DOMAIN board' /\ board'["bots"] = board["bots"]
      BY <1>c, <2>1, <3>1
    <3> QED
      BY <3>1, <3>2, BusyStarted
  <2>3. \A t \in Turns : BotOf(t)' = BotOf(t)
    BY <2>1 DEF BotOf
  <2>4. BoardInv'
    BY <1>c, <2>1, <2>2, <2>3, BusyStarted DEF BoardInv
  <2> QED
    BY <1>b, <2>1, <2>4
<1>10. CASE ReadWaiting \/ ReadActivity
  <2>1. CASE ReadWaiting
    <3> DEFINE fields == [cards |-> Waiting, perBot |-> [b \in Bots |-> WaitingOf(Waiting, b)]]
    <3>1. DOMAIN fields = {"cards", "perBot"} /\ Read("waiting", "activity", fields)
      BY <2>1 DEF ReadWaiting
    <3> HIDE DEF fields
    <3> QED
      BY <1>c, <3>1 DEF Named
  <2>2. CASE ReadActivity
    <3> DEFINE fields == [activity |-> Activity(0)]
    <3>1. DOMAIN fields = {"activity"} /\ Read("activity", "running", fields)
      BY <2>2 DEF ReadActivity
    <3> HIDE DEF fields
    <3> QED
      BY <1>c, <3>1 DEF Named
  <2> QED
    BY <1>10, <2>1, <2>2
<1>11. CASE ReadRunning
  <2> DEFINE now == {u \in Turns : turnRow[u].status = "running"}
             fields == [running |-> {turnRow[t].agent : t \in now}]
  <2>1. DOMAIN fields = {"running"} /\ Read("running", "agents", fields)
    BY <1>11 DEF ReadRunning
  <2>2. fields["running"] = {turnRow[t].agent : t \in now}
    OBVIOUS
  <2> HIDE DEF fields
  <2>3. /\ board'.at = "agents" /\ board'.busy = StillBusy /\ board'["running"] = fields["running"]
        /\ {"at", "busy"} \subseteq DOMAIN board' /\ UNCHANGED <<fClock, turnRow>>
    BY <1>0, <2>1, ReadSets
  <2>4. \A t \in StillBusy : turnRow[t].agent \in board'["running"]
    BY <2>2, <2>3 DEF StillBusy
  <2>5. BoardInv'
    BY <2>3, <2>4, BusyStarted DEF BoardInv, Named
  <2> QED
    BY <1>b, <2>3, <2>5
<1>12. CASE ReadAgents
  <2> DEFINE of(b) == BotStatus({AgentStatus(a, board.running) : a \in {x \in Agents : AgentBot[x] = b}},
                                board.perBot[b])
             fields == [bots |-> [b \in Bots |-> of(b)]]
  <2>1. DOMAIN fields = {"bots"} /\ Read("agents", "today", fields)
    BY <1>12 DEF ReadAgents
  <2>2. fields["bots"] = [b \in Bots |-> of(b)]
    OBVIOUS
  <2> HIDE DEF fields
  <2>r. /\ DOMAIN board' = DOMAIN fields \cup DOMAIN board
        /\ board.at = "agents" /\ board'.at = "today" /\ board'.busy = StillBusy
        /\ \A x \in DOMAIN fields : board'[x] = fields[x]
        /\ {"at", "busy"} \subseteq DOMAIN board' /\ UNCHANGED <<fClock, turnRow>>
    <3>1. DOMAIN fields \cap {"at", "busy"} = {}
      BY <2>1
    <3> QED
      BY <1>0, <2>1, <3>1, ReadSets
  <2>3. /\ board.at = "agents" /\ board'.at = "today" /\ board'.busy = StillBusy
        /\ board'["bots"] = fields["bots"] /\ "bots" \in DOMAIN board'
        /\ {"at", "busy"} \subseteq DOMAIN board' /\ UNCHANGED <<fClock, turnRow>>
    BY <2>1, <2>r
  <2>4. ASSUME NEW t \in StillBusy PROVE board'.bots[BotOf(t)] = "running"
    <3> DEFINE a == turnRow[t].agent
    <3>1. a \in board.running /\ a \in Agents
      BY <1>0, <2>3, BusyStarted DEF BoardInv, RowInv
    <3>2. BotOf(t) = AgentBot[a] /\ AgentBot[a] \in Bots
      BY <3>1, FleetAssumption DEF BotOf, Agents
    <3>3. AgentStatus(a, board.running) = "running"
      BY <3>1 DEF AgentStatus
    <3> HIDE DEF a
    <3>4. "running" \in {AgentStatus(x, board.running) : x \in {y \in Agents : AgentBot[y] = AgentBot[a]}}
      BY <3>1, <3>3
    <3>5. of(AgentBot[a]) = "running"
      BY <3>4 DEF BotStatus
    <3> HIDE DEF of
    <3>6. fields["bots"][AgentBot[a]] = "running"
      BY <2>2, <3>2, <3>5
    <3> QED
      BY <2>3, <3>2, <3>6
  <2>5. \A t \in Turns : BotOf(t)' = BotOf(t)
    BY <2>3 DEF BotOf
  <2>6. BoardInv'
    BY <2>3, <2>4, <2>5, BusyStarted DEF BoardInv, Named
  <2> QED
    BY <1>b, <2>3, <2>6
<1>13. CASE ReadToday \/ ReadUpcoming \/ ReadEnded
  <2>1. CASE ReadToday
    <3> DEFINE fields == [today |-> Today(StartOfDay(board.now))]
    <3>1. DOMAIN fields = {"today"} /\ Read("today", "upcoming", fields)
      BY <2>1 DEF ReadToday
    <3> HIDE DEF fields
    <3> QED
      BY <1>c, <3>1 DEF Named
  <2>2. CASE ReadUpcoming
    <3> DEFINE fields == [upcoming |-> Upcoming(board.now)]
               to == IF board.what = "brief" THEN "ended" ELSE "answer"
    <3>1. /\ DOMAIN fields = {"upcoming"} /\ Read("upcoming", to, fields)
          /\ to \in {"ended", "answer"}
      BY <2>2 DEF ReadUpcoming
    <3> HIDE DEF fields, to
    <3> QED
      BY <1>c, <3>1 DEF Named
  <2>3. CASE ReadEnded
    <3> DEFINE since == IF board.now < HoursADay THEN 0 ELSE board.now - HoursADay
               fields == [done |-> FinishedCount("done", since), failed |-> FinishedCount("failed", since)]
    <3>1. DOMAIN fields = {"done", "failed"} /\ Read("ended", "answer", fields)
      BY <2>3 DEF ReadEnded
    <3> HIDE DEF fields
    <3> QED
      BY <1>c, <3>1 DEF Named
  <2> QED
    BY <1>13, <2>1, <2>2, <2>3
<1>14. CASE Reply
  <2>1. /\ board.at = "answer" /\ board'.at = "shown" /\ board'.busy = StillBusy /\ board'.bots = board.bots
        /\ {"at", "busy", "bots"} \subseteq DOMAIN board' /\ UNCHANGED <<fClock, turnRow>>
    BY <1>14 DEF Reply, World
  <2>2. \A t \in StillBusy : board'.bots[BotOf(t)] = "running"
    BY <1>0, <2>1, BusyStarted DEF BoardInv, Named
  <2>3. \A t \in Turns : BotOf(t)' = BotOf(t)
    BY <2>1 DEF BotOf
  <2>4. BoardInv'
    BY <2>1, <2>2, <2>3, BusyStarted DEF BoardInv
  <2> QED
    BY <1>b, <2>1, <2>4
<1>15. CASE UNCHANGED fleetVars
  BY <1>15, <1>r DEF fleetVars
<1> QED
  BY <1>1, <1>2, <1>3, <1>4, <1>5, <1>6, <1>7, <1>8, <1>9, <1>10, <1>11, <1>12, <1>13, <1>14,
     <1>15 DEF FleetNext

(* The overview tells the truth, for any number of bots, turns, usage records *)
(* and changes between its reads (_agent_statuses, fleet._spend,              *)
(* spend.priced_cost, _apply_budgets).                                       *)
THEOREM OverviewTells == FleetSpec => []OverviewIsRight
<1>1. FleetInv => OverviewIsRight
  BY LevelsAgree DEF FleetInv, BoardInv, Named, OverviewIsRight
<1> QED
  BY <1>1, BoardInit, BoardStep, PTL DEF FleetSpec
=============================================================================
