----------------------------- MODULE ClaudeTurn -----------------------------
(***************************************************************************)
(* The turns of one agent on the Claude runtime (runtime/runtimes/          *)
(* claude.py). The SDK streams messages that are mapped to runtime events   *)
(* and folded into an outcome by the drive; beside the stream its tool      *)
(* calls ask for permission in hooks of their own, each blocked on an       *)
(* in-memory wait that pending.answer releases. A disconnect cancels the    *)
(* hooks wherever they are; a restart loses the waits.                      *)
(***************************************************************************)
EXTENDS Naturals, Sequences, FiniteSets

CONSTANTS
    Uses,        \* tool calls that ask for permission
    Answerers,   \* clients that call pending.answer
    MaxClaude,   \* bound: turns of the agent
    MaxMessages, \* bound: messages of one stream
    NoWait       \* no wait, no call

(* NoWait is told from what a wait holds.                                    *)
ASSUME ClaudeTurnAssumption == NoWait \notin {"open", "approve", "deny"}

VARIABLES
    clTurn,      \* number of the agent's turn
    clStatus,    \* of its row: queued, running, waiting, done, failed, cancelled, interrupted
    client,      \* the SDK client: closed, streaming, ended (the run is over)
    streamed,    \* messages received
    sawSession,  \* _saw_session
    sessionRef,  \* agents.runtime_session_ref is set
    seen,        \* what the drive has collected: subset of Collected
    hook,        \* _ask of each tool call: off, registered, inserted, listening, over
    wait,        \* _waits: the future (open, approve, deny), or NoWait
    hung,        \* waits that left _ask without delivered.set()
    permit,      \* pendings: none, waiting, approve, deny, expired
    approved,    \* tool calls some client has approved: history
    ran,         \* tool calls the hook allowed: history
    reply        \* each client's call: [at, use, how], or NoWait

clVars == <<clTurn, clStatus, client, streamed, sawSession, sessionRef, seen, hook, wait,
            hung, permit, approved, ran, reply>>

Collected == {"text", "fallback", "finished", "error"}
ClaudeOver == {"done", "failed", "cancelled", "interrupted"}

-----------------------------------------------------------------------------
(* The stream: an SDK message becomes native dicts (_natives), these become  *)
(* events (map_claude_event), and the drive collects the events (_drive).    *)

SdkMessages == {"init", "system", "partial", "thinking", "text_block", "tool_use",
                "tool_result", "assistant_error", "rate_limit", "reset", "result",
                "result_silent", "result_error", "result_interrupted"}

(* _content_natives with _block_native and _result_native: the native type.   *)
NativeOf(m) ==
    CASE m \in {"init", "system"} -> "system"
      [] m = "partial" -> "stream_event"
      [] m \in {"thinking", "text_block", "tool_use"} -> "assistant"
      [] m = "tool_result" -> "user"
      [] m = "assistant_error" -> "error"
      [] m \in {"result", "result_silent", "result_error", "result_interrupted"} -> "result"
      [] OTHER -> m

(* _map_block: a text block repeats what was streamed and is ignored.        *)
BlockEvent(m) ==
    CASE m = "thinking" -> "thinking_delta"
      [] m = "tool_use" -> "tool_call_started"
      [] m = "tool_result" -> "tool_call_finished"
      [] OTHER -> "ignored"

(* _map_result: an interrupted or failed run is an error.                    *)
ResultEvent(m) == IF m \in {"result_error", "result_interrupted"} THEN "error" ELSE "turn_finished"

(* map_claude_event.                                                         *)
EventOf(m) ==
    CASE NativeOf(m) = "system" -> IF m = "init" THEN "session_bound" ELSE "ignored"
      [] NativeOf(m) = "stream_event" -> "text_delta"
      [] NativeOf(m) \in {"assistant", "user"} -> BlockEvent(m)
      [] NativeOf(m) = "result" -> ResultEvent(m)
      [] NativeOf(m) = "error" -> "error"
      [] OTHER -> "ignored"

(* _session_id: the messages that carry the session.                        *)
CarriesSession(m) == m \notin {"system", "tool_result", "reset"}

(* run_turn and _drive: the text of the result stands in when none was       *)
(* streamed.                                                                *)
Collects(m, had) ==
    CASE EventOf(m) = "text_delta" -> {"text"}
      [] EventOf(m) = "error" -> {"error"}
      [] EventOf(m) = "turn_finished" ->
            {"finished"} \cup (IF m = "result" /\ "text" \notin had THEN {"fallback"} ELSE {})
      [] OTHER -> {}

-----------------------------------------------------------------------------
ClaudeInit ==
    /\ clTurn = 1 /\ clStatus = "queued" /\ client = "closed" /\ streamed = 0
    /\ sawSession = FALSE /\ sessionRef = FALSE /\ seen = {}
    /\ hook = [u \in Uses |-> "off"] /\ wait = [u \in Uses |-> NoWait] /\ hung = {}
    /\ permit = [u \in Uses |-> "none"] /\ approved = {} /\ ran = {}
    /\ reply = [k \in Answerers |-> NoWait]

Stream == <<clTurn, client, streamed, sawSession, sessionRef, seen>>
Asking == <<hook, wait, hung, permit, approved, ran, reply>>

(* resolve_open_pendings when the turn ends.                                 *)
ExpirePermits == permit' = [u \in Uses |-> IF permit[u] = "waiting" THEN "expired" ELSE permit[u]]

(* Cancelling a hook. One that listens sets delivered and drops its wait;    *)
(* one that is still storing its row leaves the wait behind.                 *)
CancelHooks ==
    /\ hook' = [u \in Uses |-> IF hook[u] = "off" THEN "off" ELSE "over"]
    /\ wait' = [u \in Uses |-> IF hook[u] = "listening" THEN NoWait ELSE wait[u]]
    /\ hung' = hung \cup {u \in Uses : hook[u] \in {"registered", "inserted"}}

(* open: refused unless the bot has full access and the network, and         *)
(* otherwise a connect that resumes the stored session.                      *)
OpenClient ==
    /\ clStatus = "queued" /\ client = "closed"
    /\ \/ /\ client' = "streaming" /\ clStatus' = "running" /\ UNCHANGED permit
       \/ /\ clStatus' = "failed" /\ UNCHANGED client /\ ExpirePermits
    /\ streamed' = 0 /\ sawSession' = FALSE /\ seen' = {}
    /\ UNCHANGED <<clTurn, sessionRef, hook, wait, hung, approved, ran, reply>>

(* One message of receive_response. The first that names the session binds   *)
(* it (_session_prefix, _save_session_ref).                                  *)
Receive(m) ==
    /\ client = "streaming" /\ streamed < MaxMessages
    /\ streamed' = streamed + 1
    /\ sawSession' = (sawSession \/ CarriesSession(m))
    /\ sessionRef' = (sessionRef \/ (CarriesSession(m) /\ (~sawSession \/ m = "init")))
    /\ seen' = seen \cup Collects(m, seen)
    /\ client' = IF EventOf(m) \in {"turn_finished"} \/ m \in {"result_error", "result_interrupted"}
                 THEN "ended" ELSE client
    /\ UNCHANGED <<clTurn, clStatus, Asking>>

(* The stream breaks off or raises.                                          *)
StreamBreaks ==
    /\ client = "streaming" /\ client' = "ended"
    /\ UNCHANGED <<clTurn, clStatus, streamed, sawSession, sessionRef, seen, Asking>>

HasOpenPermit == \E u \in Uses : permit[u] = "waiting"

(* _drive's outcome stored by _persist_waiting, _persist_done or the failure *)
(* record.                                                                  *)
StoreOutcome ==
    /\ client = "ended" /\ clStatus = "running"
    /\ IF "finished" \notin seen THEN clStatus' = "failed" /\ ExpirePermits
       ELSE IF HasOpenPermit THEN clStatus' = "waiting" /\ UNCHANGED permit
       ELSE clStatus' = "done" /\ UNCHANGED permit
    /\ UNCHANGED <<Stream, hook, wait, hung, approved, ran, reply>>

(* A cancel: interrupt, then the stored cancel.                              *)
CancelTurn ==
    /\ clStatus \in {"running", "waiting"}
    /\ clStatus' = "cancelled" /\ ExpirePermits
    /\ client' = IF client = "streaming" THEN "ended" ELSE client
    /\ UNCHANGED <<clTurn, streamed, sawSession, sessionRef, seen, hook, wait, hung,
                   approved, ran, reply>>

(* close, in the finally of the turn: disconnect and forget the turn.        *)
Close ==
    /\ client = "ended" /\ clStatus # "running"
    /\ client' = "closed" /\ CancelHooks
    /\ UNCHANGED <<clTurn, clStatus, streamed, sawSession, sessionRef, seen, permit,
                   approved, ran, reply>>

(* A turn that finished over an open permission was stored as waiting; the   *)
(* answer finds no wait in memory and resumes it as a new run (start_resume). *)
ResumeRun ==
    /\ clStatus = "waiting" /\ client = "closed" /\ ~HasOpenPermit
    /\ client' = "streaming" /\ clStatus' = "running"
    /\ streamed' = 0 /\ sawSession' = FALSE /\ seen' = {}
    /\ UNCHANGED <<clTurn, sessionRef, Asking>>

(* The agent's next message.                                                *)
NextTurn ==
    /\ client = "closed" /\ clStatus \in ClaudeOver /\ clTurn < MaxClaude
    /\ clTurn' = clTurn + 1 /\ clStatus' = "queued"
    /\ UNCHANGED <<client, streamed, sawSession, sessionRef, seen, Asking>>

-----------------------------------------------------------------------------
(* Permission hooks.                                                        *)

(* Faulty variant of AskBegins: a late call with no turn is let through.     *)
AskBeginsOpen(u) ==
    /\ client # "closed" /\ hook[u] = "off"
    /\ IF client = "streaming"
       THEN /\ hook' = [hook EXCEPT ![u] = "registered"]
            /\ wait' = [wait EXCEPT ![u] = "open"] /\ UNCHANGED ran
       ELSE /\ hook' = [hook EXCEPT ![u] = "over"]
            /\ ran' = ran \cup {u} /\ UNCHANGED wait
    /\ UNCHANGED <<Stream, clStatus, hung, permit, approved, reply>>

(* _ask: denied when the run of the turn is over, else a wait is registered. *)
AskBegins(u) ==
    /\ client # "closed" /\ hook[u] = "off"
    /\ IF client = "streaming"
       THEN /\ hook' = [hook EXCEPT ![u] = "registered"]
            /\ wait' = [wait EXCEPT ![u] = "open"]
       ELSE /\ hook' = [hook EXCEPT ![u] = "over"]
            /\ UNCHANGED wait
    /\ UNCHANGED <<Stream, clStatus, hung, permit, approved, ran, reply>>

(* _insert_pending.                                                         *)
AskStores(u) ==
    /\ hook[u] = "registered"
    /\ hook' = [hook EXCEPT ![u] = "inserted"]
    /\ permit' = [permit EXCEPT ![u] = "waiting"]
    /\ UNCHANGED <<Stream, clStatus, wait, hung, approved, ran, reply>>

(* pending.created is out: the hook awaits its future.                       *)
AskListens(u) ==
    /\ hook[u] = "inserted"
    /\ hook' = [hook EXCEPT ![u] = "listening"]
    /\ UNCHANGED <<Stream, clStatus, wait, hung, permit, approved, ran, reply>>

(* The future is set: _ask returns it, and _sdk_hook allows or denies.       *)
AskReturns(u) ==
    /\ hook[u] = "listening" /\ wait[u] \in {"approve", "deny"}
    /\ hook' = [hook EXCEPT ![u] = "over"]
    /\ wait' = [wait EXCEPT ![u] = NoWait]
    /\ ran' = IF wait[u] = "approve" THEN ran \cup {u} ELSE ran
    /\ UNCHANGED <<Stream, clStatus, hung, permit, approved, reply>>

(* pending.answer: PendingService.resolve reads the row ...                  *)
AnswerReads(k) ==
    /\ reply[k] = NoWait
    /\ \E u \in Uses, how \in {"approve", "deny"} :
         /\ permit[u] = "waiting"
         /\ reply' = [reply EXCEPT ![k] = [at |-> "read", use |-> u, how |-> how]]
    /\ UNCHANGED <<Stream, clStatus, hook, wait, hung, permit, approved, ran>>

(* ... and writes the answer.                                               *)
AnswerWrites(k) ==
    /\ reply[k] # NoWait /\ reply[k].at = "read"
    /\ permit' = [permit EXCEPT ![reply[k].use] = reply[k].how]
    /\ approved' = IF reply[k].how = "approve" THEN approved \cup {reply[k].use} ELSE approved
    /\ reply' = [reply EXCEPT ![k].at = "written"]
    /\ UNCHANGED <<Stream, clStatus, hook, wait, hung, ran>>

(* release_permission: the first answer decides; a wait that is not in this  *)
(* process leaves the turn to the rows.                                      *)
AnswerReleases(k) ==
    /\ reply[k] # NoWait /\ reply[k].at = "written"
    /\ LET u == reply[k].use
       IN  IF wait[u] = NoWait
           THEN reply' = [reply EXCEPT ![k] = NoWait] /\ UNCHANGED wait
           ELSE /\ wait' = [wait EXCEPT ![u] = IF @ = "open" THEN reply[k].how ELSE @]
                /\ reply' = [reply EXCEPT ![k].at = "awaiting"]
    /\ UNCHANGED <<Stream, clStatus, hook, hung, permit, approved, ran>>

(* delivered is set when the hook leaves its try.                            *)
AnswerEnds(k) ==
    /\ reply[k] # NoWait /\ reply[k].at = "awaiting"
    /\ hook[reply[k].use] = "over" /\ reply[k].use \notin hung
    /\ reply' = [reply EXCEPT ![k] = NoWait]
    /\ UNCHANGED <<Stream, clStatus, hook, wait, hung, permit, approved, ran>>

(* The host restarts: _interrupt_claude closes a turn that was blocked.      *)
RestartClaude ==
    /\ clStatus' = IF clStatus \in {"running", "waiting"} THEN "interrupted" ELSE clStatus
    /\ ExpirePermits
    /\ client' = "closed"
    /\ hook' = [u \in Uses |-> IF hook[u] = "off" THEN "off" ELSE "over"]
    /\ wait' = [u \in Uses |-> NoWait] /\ hung' = {}
    /\ reply' = [k \in Answerers |-> NoWait]
    /\ UNCHANGED <<clTurn, streamed, sawSession, sessionRef, seen, approved, ran>>

ClaudeNext ==
    \/ OpenClient \/ StreamBreaks \/ StoreOutcome \/ CancelTurn \/ Close \/ ResumeRun
    \/ NextTurn \/ RestartClaude
    \/ \E m \in SdkMessages : Receive(m)
    \/ \E u \in Uses : AskBegins(u) \/ AskStores(u) \/ AskListens(u) \/ AskReturns(u)
    \/ \E k \in Answerers :
         AnswerReads(k) \/ AnswerWrites(k) \/ AnswerReleases(k) \/ AnswerEnds(k)

ClaudeSpec == ClaudeInit /\ [][ClaudeNext]_clVars

-----------------------------------------------------------------------------
(* A tool call that asked runs only if a client approved this very call:     *)
(* not because its turn was over when it asked, was cancelled or closed      *)
(* while it waited, or because the host restarted under it.                  *)
ApprovedToolsOnly == ran \subseteq approved
=============================================================================
