---------------------------- MODULE EventStream ----------------------------
(***************************************************************************)
(* The event stream from the host's outbox to one web client: events are    *)
(* stored under increasing sequence numbers, fanned out live to the attached*)
(* session, and replayed page by page on sync.since; the session's send     *)
(* queue is bounded; the outbox is pruned; the connection drops and the     *)
(* host restarts. The client hands events to its handlers in order, buffers *)
(* what is ahead, and asks for what is missing.                             *)
(*                                                                         *)
(* The outbox survives a restart; the session does not. The send queue and  *)
(* the wire are one sequence, of which a lost connection loses all. Which   *)
(* tasks emit, and what the events say, is left out.                        *)
(***************************************************************************)
EXTENDS Naturals, Sequences, FiniteSets, FiniteSetsExt

CONSTANTS
    MaxSeq,      \* bound: events stored
    PageLimit,   \* SYNC_LIMIT of the client
    QueueLimit,  \* protocol.session_queue_limit
    BufferCap,   \* EVENT_BUFFER_CAP of the client
    MaxCalls,    \* bound: other requests of the client
    MaxDrops,    \* bound: lost connections and restarts
    None

ASSUME EventStreamAssumption ==
    /\ MaxSeq \in Nat \ {0} /\ BufferCap \in Nat \ {0}
    /\ PageLimit \in Nat \ {0} /\ QueueLimit \in Nat /\ 2 * PageLimit < QueueLimit
    /\ MaxCalls \in Nat /\ MaxDrops \in Nat
    /\ None \notin Nat

Seqs == 1..MaxSeq

VARIABLES
    head,        \* highest sequence number allocated
    low,         \* lowest one still stored, head + 1 when none is
    unfanned,    \* events stored whose _fanout has not run
    phase,       \* the session: "off", "read" (host_seq read), "ready" (attached)
    hostSeq,     \* host_seq for the welcome
    serving,     \* request in service: "none", "call", or the steps of sync_since
    syncHead,    \* head as sync_since read it
    fetched,     \* what Outbox.since returned to it: rows, more, or the lowest stored
    held,        \* Session._held
    deferred,    \* Session._deferred
    queue,       \* Session._pending and the wire
    closing,     \* Session._closing
    last,        \* the client's lastSeq (nextSeq is last + 1)
    buffered, welcomed,
    flight,      \* sequence number of the sync.since under way, or None
    again,       \* catchUpAgain
    asked, calling,   \* requests on their way to the host
    handed,      \* events the handlers got
    calls, drops

outbox == <<head, low, unfanned>>
session == <<phase, hostSeq, serving, syncHead, fetched, held, deferred, queue, closing>>
client == <<last, buffered, welcomed, flight, again, asked, calling, handed>>
bounds == <<calls, drops>>
vars == <<outbox, session, client, bounds>>

OnlyMin(n) == [rows |-> <<>>, more |-> FALSE, min |-> n]
Nothing == OnlyMin(0)

Evt(n) == [t |-> "evt", s |-> n, more |-> FALSE]
Evts(ns) == [i \in DOMAIN ns |-> Evt(ns[i])]
Page(n, more) == [t |-> "page", s |-> n, more |-> more]
Frame(t, n) == [t |-> t, s |-> n, more |-> FALSE]
Frames == [t : {"evt", "page", "resync", "res", "welcome"}, s : 0..MaxSeq + 1,
           more : BOOLEAN]

(* Types; the send queue and the client's buffer stay within their limits.   *)
TypeOK ==
    /\ head \in 0..MaxSeq /\ low \in 1..head + 1 /\ unfanned \subseteq Seqs
    /\ phase \in {"off", "read", "ready"} /\ hostSeq \in 0..MaxSeq
    /\ serving \in {"none", "call", "head", "rows", "send"} /\ syncHead \in 0..MaxSeq
    /\ fetched \in [rows : Seq(Seqs), more : BOOLEAN, min : 0..MaxSeq]
    /\ held \in Seq(Seqs) /\ deferred \in Seq(Seqs)
    /\ queue \in Seq(Frames) /\ Len(queue) <= QueueLimit /\ closing \in BOOLEAN
    /\ last \in 0..MaxSeq
    /\ buffered \subseteq Seqs /\ Cardinality(buffered) <= BufferCap
    /\ welcomed \in BOOLEAN /\ again \in BOOLEAN
    /\ flight \in 0..MaxSeq \cup {None}
    /\ asked \in BOOLEAN /\ calling \in BOOLEAN
    /\ handed \subseteq Seqs
    /\ calls \in Nat /\ drops \in Nat

Init ==
    /\ head = 0 /\ low = 1 /\ unfanned = {}
    /\ phase = "off" /\ hostSeq = 0 /\ serving = "none" /\ syncHead = 0
    /\ fetched = Nothing
    /\ held = <<>> /\ deferred = <<>> /\ queue = <<>> /\ closing = FALSE
    /\ last = 0 /\ buffered = {} /\ welcomed = FALSE
    /\ flight = None /\ again = FALSE /\ asked = FALSE /\ calling = FALSE
    /\ handed = {}
    /\ calls = 0 /\ drops = 0

-----------------------------------------------------------------------------
(* The outbox.                                                              *)

Append1 ==
    /\ head < MaxSeq
    /\ head' = head + 1
    /\ unfanned' = unfanned \cup {head + 1}
    /\ UNCHANGED <<low, session, client, bounds>>

(* prune, by age or by number of rows: a prefix of the events goes.           *)
Prune(p) ==
    /\ p \in low + 1..head + 1
    /\ low' = p
    /\ UNCHANGED <<head, unfanned, session, client, bounds>>

-----------------------------------------------------------------------------
(* The session.                                                             *)

(* enqueue, once per frame: past the limit the session starts to close, and  *)
(* what comes then is dropped.                                              *)
Enqueue(fs) ==
    LET room == QueueLimit - Len(queue)
    IN IF closing
       THEN UNCHANGED <<queue, closing>>
       ELSE /\ queue' = queue \o SubSeq(fs, 1, IF Len(fs) < room THEN Len(fs) ELSE room)
            /\ closing' = (Len(fs) > room)

(* deliver for a live event: held during a sync.since, kept behind the       *)
(* answer during any other request, sent otherwise.                          *)
Fan(n) ==
    /\ n \in unfanned
    /\ unfanned' = unfanned \ {n}
    /\ CASE phase # "ready" \/ closing -> UNCHANGED <<held, deferred, queue, closing>>
         [] phase = "ready" /\ ~closing /\ serving \in {"head", "rows", "send"} ->
              held' = Append(held, n) /\ UNCHANGED <<deferred, queue, closing>>
         [] phase = "ready" /\ ~closing /\ serving = "call" ->
              deferred' = Append(deferred, n) /\ UNCHANGED <<held, queue, closing>>
         [] OTHER -> Enqueue(<<Evt(n)>>) /\ UNCHANGED <<held, deferred>>
    /\ UNCHANGED <<head, low, phase, hostSeq, serving, syncHead, fetched, client, bounds>>

(* A connection is authenticated; _enter_ready reads host_seq...             *)
Connect ==
    /\ phase = "off"
    /\ phase' = "read" /\ hostSeq' = head
    /\ UNCHANGED <<outbox, serving, syncHead, fetched, held, deferred, queue, closing, client,
                   bounds>>

(* ...attaches the session and sends the welcome.                            *)
Attach ==
    /\ phase = "read"
    /\ phase' = "ready" /\ hostSeq' = 0
    /\ Enqueue(<<Frame("welcome", hostSeq)>>)
    /\ UNCHANGED <<outbox, serving, syncHead, fetched, held, deferred, client, bounds>>

(* _on_req for a method other than sync.since.                               *)
TakeCall ==
    /\ phase = "ready" /\ serving = "none" /\ calling
    /\ serving' = "call" /\ calling' = FALSE
    /\ UNCHANGED <<outbox, phase, hostSeq, syncHead, fetched, held, deferred, queue, closing, last,
                   buffered, welcomed, flight, again, asked, handed, bounds>>

AnswerCall ==
    /\ serving = "call"
    /\ serving' = "none" /\ deferred' = <<>>
    /\ Enqueue(<<Frame("res", 0)>> \o Evts(deferred))
    /\ UNCHANGED <<outbox, phase, hostSeq, syncHead, fetched, held, client, bounds>>

(* sync_since holds live frames back and reads the head...                   *)
TakeSync ==
    /\ phase = "ready" /\ serving = "none" /\ asked
    /\ serving' = "head" /\ asked' = FALSE
    /\ UNCHANGED <<outbox, phase, hostSeq, syncHead, fetched, held, deferred, queue, closing, last,
                   buffered, welcomed, flight, again, calling, handed, bounds>>

ReadHead ==
    /\ serving = "head"
    /\ serving' = "rows" /\ syncHead' = head
    /\ UNCHANGED <<outbox, phase, hostSeq, fetched, held, deferred, queue, closing, client,
                   bounds>>

(* Faulty variant: every frame held during the replay is dropped.            *)
ReleasedNone(high) == <<>>

(* The members of s above high, in their order.                              *)
Above(s, high) ==
    LET kept[i \in 0..Len(s)] ==
            IF i = 0 THEN <<>>
            ELSE IF s[i] > high THEN Append(kept[i - 1], s[i]) ELSE kept[i - 1]
    IN kept[Len(s)]

(* release_live: of the frames held, those above the page go on.             *)
Released(high) == Above(held, high)

(* Outbox.since: a cursor below the stored events is refused.                *)
Pruned(seq) == low <= head /\ seq + 1 < low

(* ...then the rows of one page, or is told where the stored events begin... *)
ReadRows ==
    LET from == flight + 1
        to == IF head < flight + PageLimit THEN head ELSE flight + PageLimit
    IN /\ serving = "rows"
       /\ serving' = "send"
       /\ fetched' = IF Pruned(flight) THEN OnlyMin(low)
                     ELSE IF low > head THEN Nothing
                     ELSE [rows |-> [i \in 1..to - flight |-> flight + i],
                           more |-> to < head, min |-> 0]
       /\ UNCHANGED <<outbox, phase, hostSeq, syncHead, held, deferred, queue, closing,
                      client, bounds>>

(* ...and answers: the answer goes out before the rows, and these before the  *)
(* live frames above them.                                                  *)
SendPage ==
    LET rows == fetched.rows
        high == IF rows = <<>> THEN syncHead ELSE rows[Len(rows)]
        answer == IF fetched.min > 0 THEN Frame("resync", fetched.min)
                  ELSE Page(IF fetched.more THEN high ELSE syncHead, fetched.more)
    IN /\ serving = "send"
       /\ serving' = "none" /\ syncHead' = 0 /\ fetched' = Nothing /\ held' = <<>>
       /\ Enqueue(<<answer>> \o Evts(rows \o Released(high)))
       /\ UNCHANGED <<outbox, phase, hostSeq, deferred, client, bounds>>

-----------------------------------------------------------------------------
(* The client.                                                              *)

Gets(t) == queue # <<>> /\ Head(queue).t = t /\ queue' = Tail(queue)
SessionButQueue ==
    UNCHANGED <<phase, hostSeq, serving, syncHead, fetched, held, deferred, closing>>

(* A step of replay: the next request, with catchUpAgain cleared.            *)
Ask(seq) == flight' = seq /\ asked' = TRUE /\ again' = FALSE

(* catchUp: one replay at a time; a second wish is remembered.                *)
CatchUp(seq) ==
    IF flight # None
    THEN again' = TRUE /\ UNCHANGED <<flight, asked>>
    ELSE Ask(seq)

(* Faulty variant: a welcome always moves the client to the host's head.      *)
GetWelcomeJumps ==
    /\ Gets("welcome")
    /\ last' = Head(queue).s /\ buffered' = {} /\ welcomed' = TRUE
    /\ CatchUp(Head(queue).s)
    /\ SessionButQueue
    /\ UNCHANGED <<outbox, calling, handed, bounds>>

(* The first welcome starts the client at the host's head; a later one does  *)
(* not, unless the host's numbers went back.                                *)
GetWelcome ==
    LET h == Head(queue).s
        now == CASE h < last -> 0
                 [] h >= last /\ ~welcomed /\ last = 0 -> h
                 [] OTHER -> last
    IN /\ Gets("welcome")
       /\ last' = now /\ welcomed' = TRUE
       /\ buffered' = IF h < last THEN {} ELSE buffered
       /\ CatchUp(now)
       /\ SessionButQueue
       /\ UNCHANGED <<outbox, calling, handed, bounds>>

(* acceptEvent: an old event is dropped, a gap asks for the missing ones, a   *)
(* full buffer is emptied and asked for again, and what has become           *)
(* contiguous is handed on.                                                 *)
GetEvent ==
    LET n == Head(queue).s
        full == buffered \cup {n}
        over == Cardinality(full) > BufferCap
        upto == Max({m \in last..MaxSeq : last + 1..m \subseteq full})
    IN /\ Gets("evt")
       /\ \/ n <= last /\ UNCHANGED client
          \/ /\ n > last /\ over
             /\ buffered' = {}
             /\ IF n > last + 1 /\ flight = None   \* catchUp is called twice
                THEN flight' = last /\ asked' = TRUE /\ again' = TRUE
                ELSE CatchUp(last)
             /\ UNCHANGED <<last, welcomed, calling, handed>>
          \/ /\ n > last /\ ~over
             /\ last' = upto
             /\ buffered' = full \ (last + 1..upto)
             /\ handed' = handed \cup (last + 1..upto)
             /\ IF n > last + 1 THEN CatchUp(last) ELSE UNCHANGED <<flight, asked, again>>
             /\ UNCHANGED <<welcomed, calling>>
       /\ SessionButQueue
       /\ UNCHANGED <<outbox, bounds>>

(* The answer to sync.since: the next page, another round, or the end.       *)
GetPage ==
    /\ Gets("page")
    /\ CASE Head(queue).more /\ Head(queue).s > flight -> Ask(Head(queue).s)
         [] ~(Head(queue).more /\ Head(queue).s > flight) /\ again -> Ask(last)
         [] OTHER -> flight' = None /\ UNCHANGED <<asked, again>>
    /\ SessionButQueue
    /\ UNCHANGED <<outbox, last, buffered, welcomed, calling, handed, bounds>>

(* resync_required: the client goes on from the lowest stored event.          *)
GetResync ==
    LET to == Head(queue).s - 1
    IN /\ Gets("resync")
       /\ last' = to /\ buffered' = {}
       /\ Ask(to)
       /\ SessionButQueue
       /\ UNCHANGED <<outbox, welcomed, calling, handed, bounds>>

GetAnswer ==
    /\ Gets("res")
    /\ SessionButQueue
    /\ UNCHANGED <<outbox, client, bounds>>

Call ==
    /\ phase = "ready" /\ welcomed /\ ~calling /\ calls < MaxCalls
    /\ calling' = TRUE /\ calls' = calls + 1
    /\ UNCHANGED <<outbox, session, last, buffered, welcomed, flight, again, asked,
                   handed, drops>>

-----------------------------------------------------------------------------
(* The connection is gone: the session is detached, the client's requests     *)
(* are rejected.                                                            *)
Gone ==
    /\ phase' = "off" /\ serving' = "none" /\ closing' = FALSE
    /\ hostSeq' = 0 /\ syncHead' = 0 /\ fetched' = Nothing
    /\ held' = <<>> /\ deferred' = <<>> /\ queue' = <<>>
    /\ flight' = None /\ again' = FALSE /\ asked' = FALSE /\ calling' = FALSE
    /\ UNCHANGED <<head, low, last, buffered, welcomed, handed>>

SlowClose == closing /\ Gone /\ UNCHANGED <<unfanned, bounds>>

Drop ==
    /\ phase # "off" /\ drops < MaxDrops /\ drops' = drops + 1
    /\ Gone /\ UNCHANGED <<unfanned, calls>>

(* The host restarts: events stored and not yet fanned out never are.        *)
Restart ==
    /\ drops < MaxDrops /\ drops' = drops + 1
    /\ Gone /\ unfanned' = {} /\ UNCHANGED calls

Quiet ==
    /\ phase = "ready" /\ ~closing /\ queue = <<>> /\ unfanned = {}
    /\ serving = "none" /\ ~asked /\ ~calling /\ flight = None

Rest == Quiet /\ UNCHANGED vars

-----------------------------------------------------------------------------
Next ==
    \/ Append1
    \/ \E p \in Seqs \cup {MaxSeq + 1} : Prune(p)
    \/ \E n \in Seqs : Fan(n)
    \/ Connect \/ Attach
    \/ TakeCall \/ AnswerCall \/ TakeSync \/ ReadHead \/ ReadRows \/ SendPage
    \/ GetWelcome \/ GetEvent \/ GetPage \/ GetResync \/ GetAnswer
    \/ Call \/ SlowClose \/ Drop \/ Restart \/ Rest

Spec == Init /\ [][Next]_vars

-----------------------------------------------------------------------------
(* Properties.                                                              *)

(* The stream implements EventFeed: whatever is lost, held back, deferred,    *)
(* pruned or asked for twice, the client's position never passes an event in *)
(* silence; it moves by handing on what follows or to below what is stored   *)
(* (welcome, acceptEvent, resync_required).                                  *)
Feed == INSTANCE EventFeed WITH joined <- welcomed, at <- last
ImplementsFeed == Feed!FeedSpec

(* When the stream has come to rest the client has every stored event: hold, *)
(* replay, release and defer lose no live frame that the replay did not      *)
(* bring, and an emptied buffer is asked for again.                          *)
CaughtUp == Quiet => \A n \in low..head : n <= last
=============================================================================
