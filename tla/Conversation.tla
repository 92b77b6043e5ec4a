---------------------------- MODULE Conversation ----------------------------
(***************************************************************************)
(* The turns of one lane as its model sees them: the memory block in front  *)
(* of a prompt (memory/context.py), the drives of a turn through the        *)
(* pydantic-ai runtime (runtime/runtimes/pydantic_ai.py), the compaction of *)
(* a long request (runtime/compaction.py), and what the turn is charged     *)
(* (runtime/usage.py).                                                      *)
(*                                                                          *)
(* A prompt tells the model what changed against a baseline, so the         *)
(* baseline has to be what the history that is sent with it still shows,    *)
(* whatever failed, was cancelled, paused, restarted or summarised before.  *)
(* A block is text alone: which memory a line is of, the model is not told. *)
(* The text of a memory in a revision is the pair <<memory, revision>>, so  *)
(* that the texts of different memories and revisions differ.               *)
(***************************************************************************)
EXTENDS Integers, Sequences, FiniteSetsExt, SequencesExt

CONSTANTS
    Facts,        \* memories of the bot
    MaxFactRev,   \* bound on edits of a memory
    MaxTurnNo,    \* bound on turns of the lane
    MaxRequests,  \* bound on model requests of a turn
    Keep,         \* _KEEP of compaction
    NoSnap        \* a prompt without a stored snapshot

ASSUME ConversationAssumption ==
    /\ MaxFactRev \in Nat \ {0} /\ Keep \in Nat
    /\ \A memories \in SUBSET (Facts \X (1 .. MaxFactRev)) : memories # NoSnap

VARIABLES
    fact,       \* revision of each memory, 0 before it is stored, -1 once deleted
    turnNo,     \* turns begun
    cPhase,     \* idle, ready (to send a request), sent, ended, waiting
    hist,       \* model_messages of the lane's last turn that is done
    ckpt,       \* model_messages of the paused turn
    run,        \* messages of the open drive
    request,    \* what was sent to the model last
    shown,      \* _shown: the in-memory baseline
    told,       \* the memories the open turn's prompt was built from
    usage,      \* usage stored in the turn row
    drive,      \* usage of the open drive, and of the drives before it (spent)
    paid,       \* requests the open turn has really made: history
    lostDrive   \* a resumed drive of this turn died with the host: history

cVars == <<fact, turnNo, cPhase, hist, ckpt, run, request, shown, told, usage, drive,
           paid, lostDrive>>

-----------------------------------------------------------------------------
(* Messages. A prompt carries a full block, a diff, or nothing: the lines     *)
(* that hold, and those it says no longer hold.                              *)

Prompt(full, lines, removed) ==
    [k |-> "prompt", full |-> full, lines |-> lines, removed |-> removed, snap |-> NoSnap]
PlainPrompt == Prompt(FALSE, {}, {})
Response(calls, cap) == [k |-> "response", calls |-> calls, cap |-> cap]
Return(calls, cap) == [k |-> "return", calls |-> calls, cap |-> cap]
Summary == Response({}, FALSE)

(* MemoryStore.list_for.                                                    *)
Current == {<<m, fact[m]>> : m \in {f \in Facts : fact[f] > 0}}

(* carries_memories.                                                        *)
CarriesMemories(p) == p.full \/ p.lines # {} \/ p.removed # {}

(* _retained_snapshot: of the newest message that has one.                   *)
RetainedSnapshot(messages) ==
    LET with == {i \in DOMAIN messages : messages[i].k = "prompt"
                                           /\ messages[i].snap # NoSnap}
    IN  IF with = {} THEN NoSnap ELSE messages[Max(with)].snap

(* retain_snapshot: on the newest user prompt.                               *)
RetainSnapshot(messages, snap) ==
    LET prompts == {i \in DOMAIN messages : messages[i].k = "prompt"}
    IN  IF prompts = {} THEN messages ELSE [messages EXCEPT ![Max(prompts)].snap = snap]

(* render_user_block against a baseline: the texts of new and edited          *)
(* memories, and the last text shown of each that was deleted. The old text  *)
(* of an edited memory is not named.                                        *)
UserBlock(prior, baseline) ==
    IF ~prior THEN Prompt(Current # {}, Current, {})
    ELSE Prompt(FALSE, Current \ baseline,
                {p \in baseline : \A q \in Current : q[1] # p[1]})

(* Faulty variant of WithMemories: the baseline is what this process showed  *)
(* last, not what the history retains.                                      *)
WithMemoriesShown(messages) ==
    UserBlock(messages # <<>>, shown)

(* with_memories.                                                           *)
WithMemories(messages) ==
    LET retained == RetainedSnapshot(messages)
        prior == messages # <<>>
    IN  IF retained = NoSnap /\ prior THEN Prompt(TRUE, Current, {})
        ELSE UserBlock(prior, IF retained = NoSnap THEN {} ELSE retained)

-----------------------------------------------------------------------------
(* Compaction.                                                              *)

(* _keeps_capability.                                                       *)
Keeps(m) == IF m.k = "prompt" THEN CarriesMemories(m) ELSE m.cap

CallsOf(messages, kind, from, kept) ==
    UNION {messages[i].calls : i \in {j \in DOMAIN messages :
                messages[j].k = kind /\ (j > from \/ (kept /\ Keeps(messages[j])))}}

(* _split_point: the last place at or before start whose kept tool returns   *)
(* all have their call.                                                      *)
SplitPoint(messages, start) ==
    Max({0} \cup {s \in 1 .. start :
            CallsOf(messages, "return", s, FALSE) \subseteq CallsOf(messages, "response", s, TRUE)})

(* compact_messages, once the request is over the threshold.                 *)
Compacted(messages) ==
    LET split == SplitPoint(messages, Len(messages) - Keep)
        dropped == {i \in 1 .. split : ~Keeps(messages[i])}
        Add(kept, i) == IF i \notin dropped THEN Append(kept, messages[i])
                        ELSE IF i = Min(dropped) THEN Append(kept, Summary) ELSE kept
    IN  IF Len(messages) <= Keep \/ dropped = {} THEN messages
        ELSE FoldLeft(Add, <<>>, [i \in DOMAIN messages |-> i])

-----------------------------------------------------------------------------
(* Usage: a number of requests, and whether its cost is known.               *)

NoUsage == [n |-> 0, source |-> "none"]
Priced(n) == [n |-> n, source |-> "priced"]

(* interrupted_usage.                                                       *)
InterruptedUsage == [n |-> 0, source |-> "unknown"]

(* Faulty variant of Combine: the later run replaces the earlier ones.       *)
CombineLast(old, new) == IF new.source = "none" THEN old ELSE new

(* combine.                                                                 *)
Combine(old, new) ==
    IF old.source = "none" THEN new
    ELSE IF new.source = "none" THEN old
    ELSE [n |-> old.n + new.n,
          source |-> IF "unknown" \in {old.source, new.source} THEN "unknown" ELSE "priced"]

-----------------------------------------------------------------------------
(* A history may come from a version that stored no snapshot.                *)
Legacy(m) == Prompt(TRUE, {<<m, 1>>}, {})

ConvInit ==
    /\ fact \in [Facts -> 0 .. 1]
    /\ hist \in {<<>>} \cup {<<Legacy(m), Summary>> : m \in Facts}
    /\ turnNo = 0 /\ cPhase = "idle"
    /\ ckpt = <<>> /\ run = <<>> /\ request = <<>>
    /\ shown = {} /\ told = {}
    /\ usage = NoUsage /\ drive = [spent |-> NoUsage, n |-> 0] /\ paid = 0
    /\ lostDrive = FALSE

(* A memory is written, edited or deleted: by another lane or the owner.     *)
FactChanges ==
    /\ \E m \in Facts :
         \/ fact[m] \in 0 .. (MaxFactRev - 1) /\ fact' = [fact EXCEPT ![m] = @ + 1]
         \/ fact[m] > 0 /\ fact' = [fact EXCEPT ![m] = -1]
    /\ UNCHANGED <<turnNo, cPhase, hist, ckpt, run, request, shown, told, usage, drive,
                   paid, lostDrive>>

(* run_turn of a new turn: _previous_messages, the prompt and its snapshot.  *)
BeginTurn ==
    /\ cPhase = "idle" /\ turnNo < MaxTurnNo
    /\ turnNo' = turnNo + 1
    /\ run' = Append(hist, WithMemories(hist))
    /\ shown' = Current /\ told' = Current
    /\ cPhase' = "ready"
    /\ request' = <<>> /\ ckpt' = <<>>
    /\ usage' = NoUsage /\ drive' = [spent |-> NoUsage, n |-> 0] /\ paid' = 0
    /\ lostDrive' = FALSE
    /\ UNCHANGED <<fact, hist>>

(* enqueue: a steer joins the live run as a prompt without a block.          *)
Steer ==
    /\ cPhase = "ready" /\ request # <<>> /\ Last(run).k # "prompt"
    /\ run' = Append(run, PlainPrompt)
    /\ UNCHANGED <<fact, turnNo, cPhase, hist, ckpt, request, shown, told, usage, drive,
                   paid, lostDrive>>

(* before_model_request and the request. The summary is a request of its     *)
(* own (record_side_response); when it cannot be made all messages are sent. *)
SendRequest ==
    /\ cPhase = "ready" /\ paid < MaxRequests
    /\ \E compact \in BOOLEAN :
         LET side == IF compact /\ Compacted(run) # run THEN 1 ELSE 0
         IN  /\ request' = IF compact THEN Compacted(run) ELSE run
             /\ drive' = [drive EXCEPT !.n = @ + 1 + side]
             /\ paid' = paid + 1 + side
    /\ cPhase' = "sent"
    /\ UNCHANGED <<fact, turnNo, hist, ckpt, run, shown, told, usage, lostDrive>>

(* The model answers with text, with tool calls that run at once, or with    *)
(* calls that need an approval. A call's id is its place in the history.     *)
ModelAnswers ==
    /\ cPhase = "sent"
    /\ LET id == {Len(run) + 1}
       IN  \/ /\ run' = Append(run, Summary)
              /\ cPhase' = "ended"
           \/ /\ \E cap \in BOOLEAN : run' = run \o <<Response(id, cap), Return(id, cap)>>
              /\ cPhase' = "ready"
           \/ /\ run' = Append(run, Response(id, FALSE))
              /\ cPhase' = "ended"
    /\ UNCHANGED <<fact, turnNo, hist, ckpt, request, shown, told, usage, drive, paid, lostDrive>>

(* The calls of the newest response that no return answers yet.              *)
OpenCalls(messages) == IF Last(messages).k = "response" THEN Last(messages).calls ELSE {}

(* What the drive leaves as model_messages: a drive that began with the      *)
(* prompt attaches the snapshot, one that resumes approvals keeps its own.   *)
Outcome == IF ckpt = <<>> /\ drive.spent = NoUsage THEN RetainSnapshot(run, told) ELSE run

DriveUsage == Combine(drive.spent, Priced(drive.n))

(* _finish_turn approves low-risk calls itself (auto_low) and drives on with *)
(* the history that ends in them.                                           *)
AutoApprove ==
    /\ cPhase = "ended" /\ OpenCalls(run) # {}
    /\ run' = Append(Outcome, Return(OpenCalls(run), FALSE))
    /\ drive' = [spent |-> DriveUsage, n |-> 0]
    /\ cPhase' = "ready"
    /\ UNCHANGED <<fact, turnNo, hist, ckpt, request, shown, told, usage, paid, lostDrive>>

(* The locals of a turn that is over.                                       *)
Forget ==
    /\ run' = <<>> /\ ckpt' = <<>> /\ request' = <<>>
    /\ drive' = [spent |-> NoUsage, n |-> 0]

(* _persist_waiting and _persist_done with _bind_turn.                       *)
Pause ==
    /\ cPhase = "ended" /\ OpenCalls(run) # {}
    /\ ckpt' = Outcome
    /\ usage' = Combine(usage, DriveUsage)
    /\ cPhase' = "waiting"
    /\ UNCHANGED <<fact, turnNo, hist, run, request, shown, told, drive, paid, lostDrive>>

Done ==
    /\ cPhase = "ended" /\ OpenCalls(run) = {}
    /\ hist' = Outcome
    /\ usage' = Combine(usage, DriveUsage)
    /\ cPhase' = "idle" /\ Forget
    /\ UNCHANGED <<fact, turnNo, shown, told, paid, lostDrive>>

(* resume: the checkpoint with the decisions, and no new prompt.             *)
ResumeDrive ==
    /\ cPhase = "waiting"
    /\ run' = Append(ckpt, Return(OpenCalls(ckpt), FALSE))
    /\ drive' = [spent |-> NoUsage, n |-> 0]
    /\ cPhase' = "ready"
    /\ UNCHANGED <<fact, turnNo, hist, ckpt, request, shown, told, usage, paid, lostDrive>>

(* The drive raises or is cancelled: its cost is unknown, and none of its    *)
(* messages are kept (_fail_open_turn, _persist_cancelled).                  *)
DriveStops ==
    /\ cPhase \in {"ready", "sent"}
    /\ usage' = Combine(usage, Combine(drive.spent, InterruptedUsage))
    /\ cPhase' = "idle" /\ Forget
    /\ UNCHANGED <<fact, turnNo, hist, shown, told, paid, lostDrive>>

(* cancel_persisted_waiting.                                                *)
CancelPaused ==
    /\ cPhase = "waiting"
    /\ cPhase' = "idle" /\ Forget
    /\ UNCHANGED <<fact, turnNo, hist, shown, told, usage, paid, lostDrive>>

(* A restart: recover fails a first attempt and resumes a checkpoint again.  *)
HostRestarts ==
    /\ cPhase # "idle"
    /\ shown' = {}
    /\ IF ckpt = <<>>
       THEN cPhase' = "idle" /\ Forget /\ UNCHANGED lostDrive
       ELSE /\ cPhase' = "waiting"
            /\ lostDrive' = (lostDrive \/ cPhase # "waiting")
            /\ UNCHANGED <<ckpt, run, request, drive>>
    /\ UNCHANGED <<fact, turnNo, hist, told, usage, paid>>

ConvNext ==
    \/ FactChanges \/ BeginTurn \/ Steer \/ SendRequest \/ ModelAnswers \/ AutoApprove
    \/ Pause \/ Done \/ ResumeDrive \/ DriveStops \/ CancelPaused \/ HostRestarts

ConvSpec == ConvInit /\ [][ConvNext]_cVars

-----------------------------------------------------------------------------
(* What a model that reads the messages in order takes to hold.              *)
ReadBlock(view, m) ==
    IF m.k # "prompt" THEN view
    ELSE IF m.full THEN m.lines
    ELSE (view \ m.removed) \cup m.lines

(* A newer text of the same memory is in the messages.                       *)
Superseded(messages, p) ==
    \E i \in DOMAIN messages :
        messages[i].k = "prompt" /\ \E q \in messages[i].lines : q[1] = p[1] /\ q[2] > p[2]

Shows(messages, memories) ==
    LET view == FoldLeft(ReadBlock, {}, messages)
    IN  memories \subseteq view /\ \A p \in view \ memories : Superseded(messages, p)

(* Every request, compacted or not, shows the model all memories that were   *)
(* stored when its turn began, and of the others nothing but old texts that   *)
(* a newer one of the same memory follows; and it holds the call of each      *)
(* tool return in it: after turns that failed, were cancelled or resumed,    *)
(* after a restart, edits and deletes, and on a history of an older version. *)
RequestIsComplete ==
    request # <<>> =>
        /\ Shows(request, told)
        /\ \A i \in DOMAIN request : request[i].k = "return" =>
              request[i].calls \subseteq
                  UNION {request[j].calls : j \in {l \in 1 .. i : request[l].k = "response"}}

(* A turn whose cost is known is charged for every request it made: summary  *)
(* requests, drives before and after an approval, and auto-approved ones.    *)
(* A drive that a restart cut off is the exception.                          *)
PricedIsWhole ==
    cPhase \in {"idle", "waiting"} /\ usage.source = "priced" /\ ~lostDrive => usage.n = paid
=============================================================================
