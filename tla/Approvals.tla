----------------------------- MODULE Approvals ------------------------------
(***************************************************************************)
(* A turn that asks the user: tool calls that need approval and questions.  *)
(* The drive of the turn ends with the calls it wants approved, stored as   *)
(* pending rows beside the checkpoint of the conversation; clients answer   *)
(* them one by one, from cards or by a chat message; whoever finds nothing  *)
(* left that holds the turn starts the resume with the saved decisions. The *)
(* host may stop at any step and recovers from the rows.                    *)
(*                                                                         *)
(* One lane and one turn of the pydantic runtime. A block that reads a row  *)
(* and then writes it is two steps (see Routines), and so is the end of a   *)
(* drive, which reads what is open and stores the turn one after the other. *)
(***************************************************************************)
EXTENDS Naturals, FiniteSets

CONSTANTS
    Calls,       \* tool calls of one model response
    MaxRounds,   \* bound: responses of the turn that ask for approval
    Clients,     \* callers of pending.answer, deliver and cancel
    Asks,        \* questions the model may ask: "blocking", "aside"
    MaxStops     \* bound: restarts of the host

(* A client is none of the host's own parts.                                 *)
ASSUME ApprovalsAssumption ==
    /\ Asks \subseteq {"blocking", "aside"} /\ MaxRounds \in Nat
    /\ Clients \cap {"boot", "first", "free"} = {}

Rounds == 1..MaxRounds
Ids == Rounds \X Calls           \* tool_call_id
Q == <<0, "question">>           \* the question of the turn
Tasks == Clients \cup {"boot"}   \* a resume task, by who started it

VARIABLES
    aTurn, aJob,     \* Turn.status, Job.status
    aRound, aCalls,  \* the stored response, and the calls of each
    pend,            \* PendingRequest: status and answer by id
    aAsked,          \* how the question was asked
    aLane,           \* the drive that holds the lane: "first", a resume, or "free"
    aEnds, aWants, aWaits, aSaw,  \* its end: how far, calls to approve, has_waiting, status read
    aRaced,          \* whether the question was answered while the turn was stored as waiting
    decided,         \* decisions of each resume task: set of <<id, approved>>
    resumes,         \* resume tasks that wait for the lane
    aPc, aim,        \* calls of the clients, and the pending row they are about
    answerJobs,      \* clients whose card answer was queued as a message
    aStops

endVars == <<aEnds, aWants, aWaits, aSaw>>

approvalVars == <<aTurn, aJob, aRound, aCalls, pend, aAsked, aLane, endVars, aRaced, decided,
                  resumes, aPc, aim, answerJobs, aStops>>

Pending == {i \in DOMAIN pend : pend[i] = "waiting"}

(* blocks_turn: an approval always, a question unless asked aside.           *)
Holds(i) == i # Q \/ aAsked # "aside"

HasWaiting == \E i \in Pending : Holds(i)

Statuses == {"running", "waiting", "done", "failed", "cancelled"}

ApprovalTypeOK ==
    /\ aTurn \in Statuses
    /\ aJob \in {"started", "queued", "done", "failed", "cancelled"}
    /\ aRound \in 0..MaxRounds /\ aCalls \in [Rounds -> SUBSET Calls]
    /\ pend \in [Ids \cup {Q} -> {"none", "waiting", "approve", "deny", "text", "failed"}]
    /\ aAsked \in Asks \cup {"no"} /\ aLane \in Tasks \cup {"first", "free"}
    /\ aEnds \in {"no", "persist", "write"} /\ aWants \in SUBSET Calls
    /\ aWaits \in BOOLEAN /\ aSaw \in Statuses /\ aRaced \in BOOLEAN
    /\ decided \in [Tasks -> SUBSET (Ids \X BOOLEAN)] /\ resumes \subseteq Tasks
    /\ aPc \in [Clients -> {"off", "approve", "deny", "text", "chat", "check",
                            "decide", "queue", "cancel", "end"}]
    /\ aim \in [Clients -> Ids \cup {Q}] /\ answerJobs \subseteq Clients /\ aStops \in Nat

ApprovalInit ==
    /\ aTurn = "running" /\ aJob = "started" /\ aRound = 0
    /\ aCalls = [r \in Rounds |-> {}] /\ pend = [i \in Ids \cup {Q} |-> "none"]
    /\ aAsked = "no" /\ aLane = "first"
    /\ aEnds = "no" /\ aWants = {} /\ aWaits = FALSE /\ aSaw = "running" /\ aRaced = FALSE
    /\ decided = [w \in Tasks |-> {}] /\ resumes = {}
    /\ aPc = [c \in Clients |-> "off"] /\ aim = [c \in Clients |-> Q]
    /\ answerJobs = {} /\ aStops = 0

-----------------------------------------------------------------------------
(* The drive.                                                               *)

(* The calls on the stored response: none before the first one is stored.    *)
Current == IF aRound = 0 THEN {} ELSE {aRound} \X aCalls[aRound]

(* decisions: what is saved for the calls on the latest response.            *)
Saved == {<<i, pend[i] = "approve">> : i \in {j \in Current : pend[j] \notin {"none", "waiting"}}}

Named(w) == {d[1] : d \in decided[w]}
Driving == /\ aEnds = "no"
           /\ IF aLane \in Tasks THEN Named(aLane) = Current ELSE aLane = "first"

(* user.ask: a blocking question makes turn and lane wait at once.           *)
AskUser(how) ==
    /\ Driving /\ aAsked = "no"
    /\ aAsked' = how /\ pend' = [pend EXCEPT ![Q] = "waiting"]
    /\ aTurn' = IF how = "blocking" THEN "waiting" ELSE aTurn
    /\ UNCHANGED <<aJob, aRound, aCalls, aLane, endVars, aRaced, decided, resumes, aPc, aim,
                   answerJobs, aStops>>

(* No drive is about to be stored.                                           *)
NoEnd == aEnds' = "no" /\ aWants' = {} /\ aWaits' = FALSE /\ aSaw' = "running"

(* The drive ends with calls to approve or with none; in a session of its own *)
(* has_waiting looks for an open question.                                   *)
DriveEnds(A) ==
    /\ Driving /\ aEnds' = "persist" /\ aWants' = A /\ aWaits' = (A # {} \/ HasWaiting)
    /\ aWaits' => aRound + 1 \in Rounds
    /\ UNCHANGED <<aTurn, aJob, aRound, aCalls, pend, aAsked, aLane, aSaw, aRaced, decided,
                   resumes, aPc, aim, answerJobs, aStops>>

(* _persist_waiting or _persist_done reads the turn: one that was cancelled    *)
(* stays so.                                                                 *)
PersistReads ==
    /\ aEnds = "persist"
    /\ IF aTurn = "cancelled" THEN NoEnd /\ aLane' = "free"
       ELSE aEnds' = "write" /\ aSaw' = aTurn /\ UNCHANGED <<aLane, aWants, aWaits>>
    /\ UNCHANGED <<aTurn, aJob, aRound, aCalls, pend, aAsked, aRaced, decided, resumes, aPc,
                   aim, answerJobs, aStops>>

(* ...and writes it (a status equal to the one read is not written), with the *)
(* response and its rows, or with the answer.                                *)
PersistWrites ==
    LET next == aRound + 1
        st == IF aWaits THEN "waiting" ELSE "done"
    IN /\ aEnds = "write" /\ NoEnd /\ aLane' = "free"
       /\ aTurn' = IF aSaw = st THEN aTurn ELSE st
       /\ IF aWaits
          THEN /\ aRound' = next /\ aCalls' = [aCalls EXCEPT ![next] = aWants]
               /\ pend' = [i \in DOMAIN pend |->
                             IF i \in {next} \X aWants THEN "waiting" ELSE pend[i]]
               /\ UNCHANGED aJob
          ELSE /\ aJob' = IF aJob = "started" THEN "done" ELSE aJob
               /\ UNCHANGED <<aRound, aCalls, pend>>
       /\ UNCHANGED <<aAsked, aRaced, decided, resumes, aPc, aim, answerJobs, aStops>>

(* resolve_open_pendings.                                                    *)
Expired == [i \in DOMAIN pend |-> IF pend[i] = "waiting" THEN "failed" ELSE pend[i]]

(* The drive raises: always when the decisions are not those of the stored   *)
(* response (record_turn_failure leaves a turn alone that is over, or that    *)
(* waits on an open request).                                                *)
DriveFails ==
    /\ aLane # "free" /\ aLane' = "free" /\ NoEnd
    /\ IF aTurn \in {"done", "cancelled"} \/ (aTurn = "waiting" /\ HasWaiting)
       THEN UNCHANGED <<aTurn, aJob, pend, aRound>>
       ELSE /\ aTurn' = "failed" /\ aJob' = IF aJob = "started" THEN "failed" ELSE aJob
            /\ pend' = Expired /\ aRound' = 0
    /\ UNCHANGED <<aCalls, aAsked, aRaced, decided, resumes, aPc, aim, answerJobs, aStops>>

(* Worker.resume with the lane's lock: TurnRunner.resume takes up a turn that *)
(* waits or runs.                                                            *)
Resume(w) ==
    /\ w \in resumes /\ aLane = "free" /\ resumes' = resumes \ {w}
    /\ IF aTurn \in {"waiting", "running"} THEN aLane' = w /\ aTurn' = "running"
       ELSE UNCHANGED <<aLane, aTurn>>
    /\ UNCHANGED <<aJob, aRound, aCalls, pend, aAsked, endVars, aRaced, decided, aPc, aim,
                   answerJobs, aStops>>

-----------------------------------------------------------------------------
(* pending.answer, deliver of an answer, and the cancel of a waiting turn.   *)

Goes(c, where) == aPc' = [aPc EXCEPT ![c] = where]
Turnwise == <<aRound, aCalls, aAsked, aLane, endVars, aStops>>

(* PendingService.resolve reads the row, or answer_question does: it is       *)
(* waiting, or the call ends with pending_resolved.                          *)
OpenCard(c, i, how) ==
    /\ aPc[c] = "off" /\ i \in Pending
    /\ (how = "text") = (i = Q)
    /\ Goes(c, how) /\ aim' = [aim EXCEPT ![c] = i]
    /\ UNCHANGED <<Turnwise, aRaced, aTurn, aJob, pend, decided, resumes, answerJobs>>

(* ...and writes the decision.                                               *)
Resolve(c) ==
    /\ aPc[c] \in {"approve", "deny"} /\ Goes(c, "check")
    /\ pend' = [pend EXCEPT ![aim[c]] = aPc[c]]
    /\ UNCHANGED <<Turnwise, aRaced, aTurn, aJob, decided, resumes, aim, answerJobs>>

(* close_question_turns in the transaction that leaves the pending rows p:    *)
(* a waiting turn that nothing holds and that has no call to resume is done.  *)
Closed(p) ==
    /\ aTurn = "waiting" /\ \A i \in Current : p[i] = "none"
    /\ \A i \in DOMAIN p : p[i] = "waiting" => ~Holds(i)

CloseTurn(p) ==
    /\ pend' = p
    /\ aTurn' = IF Closed(p) THEN "done" ELSE aTurn
    /\ aJob' = IF Closed(p) /\ aJob \in {"started", "queued"} THEN "done" ELSE aJob

(* The question is answered while the end of a drive that found it open, and   *)
(* nothing else, still has to store the turn as waiting.                     *)
Races == aRaced' = (aRaced \/ (aEnds # "no" /\ aWaits /\ aWants = {}))

(* _claim_question: one answer wins the card, the other call fails.          *)
Claim(c) ==
    /\ aPc[c] = "text"
    /\ IF pend[Q] = "waiting"
       THEN Goes(c, "check") /\ CloseTurn([pend EXCEPT ![Q] = "text"]) /\ Races
       ELSE Goes(c, "end") /\ UNCHANGED <<aTurn, aJob, pend, aRaced>>
    /\ UNCHANGED <<Turnwise, decided, resumes, aim, answerJobs>>

(* deliver takes a message as the answer of the open question                *)
(* (_resolve_answer).                                                        *)
Chat(c) ==
    /\ aPc[c] = "off" /\ pend[Q] = "waiting"
    /\ aim' = [aim EXCEPT ![c] = Q] /\ Goes(c, "chat")
    /\ CloseTurn([pend EXCEPT ![Q] = "text"]) /\ Races
    /\ UNCHANGED <<Turnwise, decided, resumes, answerJobs>>

(* has_waiting after the answer.                                             *)
Check(c) ==
    /\ aPc[c] \in {"check", "chat"}
    /\ Goes(c, IF ~HasWaiting THEN "decide"
               ELSE IF aim[c] = Q /\ aPc[c] = "check" THEN "queue" ELSE "end")
    /\ UNCHANGED <<Turnwise, aRaced, aTurn, aJob, pend, decided, resumes, aim, answerJobs>>

(* Faulty variant: only the answer of a card resumes the turn.               *)
DecideCards(c) ==
    /\ aPc[c] = "decide" /\ decided' = [decided EXCEPT ![c] = Saved]
    /\ resumes' = IF aim[c] = Q THEN resumes ELSE resumes \cup {c}
    /\ Goes(c, IF aim[c] = Q THEN "queue" ELSE "end")
    /\ UNCHANGED <<Turnwise, aRaced, aTurn, aJob, pend, aim, answerJobs>>

(* decisions, and start_resume with them; a question resumes only a turn that *)
(* has decisions.                                                            *)
Decide(c) ==
    /\ aPc[c] = "decide" /\ decided' = [decided EXCEPT ![c] = Saved]
    /\ resumes' = IF aim[c] = Q /\ Saved = {} THEN resumes ELSE resumes \cup {c}
    /\ Goes(c, IF aim[c] = Q THEN "queue" ELSE "end")
    /\ UNCHANGED <<Turnwise, aRaced, aTurn, aJob, pend, aim, answerJobs>>

(* queue_on_lane: the answer is the lane's next message.                     *)
QueueAnswer(c) ==
    /\ aPc[c] = "queue" /\ Goes(c, "end") /\ answerJobs' = answerJobs \cup {c}
    /\ UNCHANGED <<Turnwise, aRaced, aTurn, aJob, pend, decided, resumes, aim>>

(* cancel_persisted_waiting.                                                 *)
Cancel(c) ==
    /\ aPc[c] = "off" /\ aTurn = "waiting" /\ aLane = "free" /\ Goes(c, "end")
    /\ aTurn' = "cancelled" /\ aJob' = "cancelled" /\ pend' = Expired /\ aRound' = 0
    /\ UNCHANGED <<aCalls, aAsked, aLane, endVars, aRaced, aStops, decided, resumes, aim,
                   answerJobs>>

-----------------------------------------------------------------------------
(* The host stops; the next one recovers (_answered_turns: no open request    *)
(* on a waiting turn, and decisions for the stored response).                *)
Stop ==
    LET ready == /\ aJob = "started" /\ aTurn \in {"waiting", "running"}
                 /\ ~(aTurn = "waiting" /\ Pending # {}) /\ aRound # 0 /\ Saved # {}
        retry == aJob = "started" /\ aTurn = "running" /\ aRound = 0
    IN /\ aStops < MaxStops /\ aStops' = aStops + 1
       /\ aPc' = [c \in Clients |-> IF aPc[c] = "off" THEN "off" ELSE "end"]
       /\ aLane' = "free" /\ NoEnd
       /\ resumes' = IF ready THEN {"boot"} ELSE {}
       /\ decided' = [w \in Tasks |-> IF w = "boot" /\ ready THEN Saved ELSE {}]
       /\ aTurn' = IF retry THEN "failed" ELSE aTurn
       /\ aJob' = IF retry THEN "queued" ELSE aJob
       /\ UNCHANGED <<aRound, aCalls, pend, aAsked, aRaced, aim, answerJobs>>

-----------------------------------------------------------------------------
ClientStep(c) ==
    \/ Resolve(c) \/ Claim(c) \/ Check(c) \/ Decide(c) \/ QueueAnswer(c)
    \/ Chat(c) \/ Cancel(c)
    \/ \E i \in Ids \cup {Q}, how \in {"approve", "deny", "text"} : OpenCard(c, i, how)

ApprovalNext ==
    \/ \E how \in Asks : AskUser(how)
    \/ \E A \in SUBSET Calls : DriveEnds(A)
    \/ PersistReads \/ PersistWrites \/ DriveFails \/ Stop
    \/ \E w \in Tasks : Resume(w)
    \/ \E c \in Clients : ClientStep(c)

ApprovalSpec == ApprovalInit /\ [][ApprovalNext]_approvalVars

-----------------------------------------------------------------------------
(* Nothing is under way: no drive, no resume, no call between two steps.     *)
AtRest == aLane = "free" /\ resumes = {} /\ \A c \in Clients : aPc[c] \in {"off", "end"}

(* Every answer counts, and once. A turn that waits, waits for somebody: when *)
(* nothing is under way a request that holds it is still open, otherwise no   *)
(* answer would ever come and its lane would stand still (pending_answer,     *)
(* _resume_answered, _answered_turns, close_question_turns). Left out are a   *)
(* turn that has asked a question and met a restart, and one whose question   *)
(* was answered after its drive had found it open and before that stored the  *)
(* turn: both can wait for ever (README, known disagreements). And of the     *)
(* clients that answer a question from its card one queues its answer         *)
(* (_claim_question: "a second client gets pending_resolved and queues        *)
(* nothing").                                                                *)
AnswersCountOnce ==
    /\ (aStops = 0 /\ ~aRaced) \/ aAsked = "no" => (aTurn = "waiting" /\ AtRest => HasWaiting)
    /\ Cardinality(answerJobs) <= 1
=============================================================================
