------------------------------- MODULE Ticks -------------------------------
(***************************************************************************)
(* The text of running turns on its way to one client: TurnRunner._drive    *)
(* ticks each delta, TickCoalescer merges the deltas of a turn for a window *)
(* of 50 ms, Hub._on_tick starts a task that fans the merged tick out, and  *)
(* the session holds it back during a request, queues it and sends it.      *)
(*                                                                         *)
(* Ticks are ephemeral: no sync.since brings one back, so what the client   *)
(* shows of a running turn is what came over this connection. A delta is    *)
(* its number within its turn. Tasks of the event loop start in the order   *)
(* they were made, and the hub's lock is never held across an await.        *)
(***************************************************************************)
EXTENDS Naturals, Sequences, FiniteSets, SequencesExt

CONSTANTS
    Streams,      \* turns that stream (the key of a "turn.delta" tick)
    MaxDeltas,    \* bound: deltas of a turn
    FrameLimit,   \* protocol.session_queue_limit
    MaxHolds,     \* bound: requests the client makes
    MaxLinks      \* bound: connections

ASSUME TicksAssumption == {MaxDeltas, FrameLimit, MaxHolds, MaxLinks} \subseteq Nat

VARIABLES
    streamed,     \* stream -> deltas _drive has ticked
    buckets,      \* TickCoalescer._buckets: stream -> merged text, <<>> when none
    armed,        \* TickCoalescer._armed
    timers,       \* call_later callbacks not yet run
    fanouts,      \* Hub._background: frames whose _fanout has not run, in order
    link,         \* the session: "off", "ready", or "closing" past its limit
    request,      \* request in service: "none", "sync" (hold_live), "call"
    heldTicks, laterTicks,   \* Session._held, Session._deferred
    frames,       \* Session._pending
    got,          \* stream -> deltas the client got over this connection
    start,        \* stream -> first delta that could still reach this connection
    holds, links  \* bounds

tickSide == <<streamed, buckets, armed, timers, fanouts>>
tickVars == <<tickSide, link, request, heldTicks, laterTicks, frames, got, start, holds, links>>

Deltas == 1..MaxDeltas
TickFrames == [of : Streams, text : Seq(Deltas)]

TicksTypeOK ==
    /\ streamed \in [Streams -> 0..MaxDeltas] /\ buckets \in [Streams -> Seq(Deltas)]
    /\ armed \subseteq Streams /\ timers \subseteq Streams
    /\ fanouts \in Seq(TickFrames) /\ frames \in Seq(TickFrames)
    /\ heldTicks \in Seq(TickFrames) /\ laterTicks \in Seq(TickFrames)
    /\ link \in {"off", "ready", "closing"} /\ request \in {"none", "sync", "call"}
    /\ got \in [Streams -> Seq(Deltas)] /\ start \in [Streams -> 1..MaxDeltas + 1]
    /\ holds \in 0..MaxHolds /\ links \in 0..MaxLinks

Silent == [s \in Streams |-> <<>>]

TicksInit ==
    /\ streamed = [s \in Streams |-> 0] /\ buckets = Silent
    /\ armed = {} /\ timers = {} /\ fanouts = <<>>
    /\ link = "off" /\ request = "none" /\ heldTicks = <<>> /\ laterTicks = <<>>
    /\ frames = <<>> /\ got = Silent /\ start = [s \in Streams |-> 1]
    /\ holds = 0 /\ links = 0

-----------------------------------------------------------------------------
(* TickCoalescer.                                                           *)

(* _merge: text concatenates, the other fields keep the latest value (for a   *)
(* turn they never change).                                                 *)
Merge(text, delta) == Append(text, delta)

(* _arm: one timer per bucket.                                              *)
Arm(s) ==
    IF s \in armed
    THEN UNCHANGED <<armed, timers>>
    ELSE armed' = armed \cup {s} /\ timers' = timers \cup {s}

(* _drive's tick of a delta, and TickCoalescer.add: the first delta opens a   *)
(* bucket and arms it, a later one is merged.                                *)
AddDelta(s) ==
    LET delta == streamed[s] + 1
    IN /\ delta <= MaxDeltas
       /\ streamed' = [streamed EXCEPT ![s] = delta]
       /\ buckets' = [buckets EXCEPT ![s] = Merge(@, delta)]
       /\ IF buckets[s] = <<>> THEN Arm(s) ELSE UNCHANGED <<armed, timers>>
       /\ UNCHANGED <<fanouts, link, request, heldTicks, laterTicks, frames, got, start, holds,
                      links>>

(* Faulty variant: the flush pops the bucket and leaves it marked as armed.   *)
FireStaysArmed(s) ==
    /\ s \in timers /\ timers' = timers \ {s}
    /\ UNCHANGED armed
    /\ buckets' = [buckets EXCEPT ![s] = <<>>]
    /\ fanouts' = IF buckets[s] = <<>> THEN fanouts
                  ELSE Append(fanouts, [of |-> s, text |-> buckets[s]])
    /\ UNCHANGED <<streamed, link, request, heldTicks, laterTicks, frames, got, start, holds,
                   links>>

(* _fire: the window of a bucket is over; Hub._on_tick makes the fan-out task.*)
Fire(s) ==
    /\ s \in timers /\ timers' = timers \ {s}
    /\ armed' = armed \ {s}
    /\ buckets' = [buckets EXCEPT ![s] = <<>>]
    /\ fanouts' = IF buckets[s] = <<>> THEN fanouts
                  ELSE Append(fanouts, [of |-> s, text |-> buckets[s]])
    /\ UNCHANGED <<streamed, link, request, heldTicks, laterTicks, frames, got, start, holds,
                   links>>

-----------------------------------------------------------------------------
(* The session.                                                             *)

(* enqueue: one frame too many and the session starts to close.               *)
Put(fs) ==
    LET room == FrameLimit - Len(frames)
    IN IF Len(fs) <= room
       THEN frames' = frames \o fs /\ UNCHANGED link
       ELSE frames' = <<>> /\ link' = "closing"

(* _fanout and Session.deliver.                                             *)
FanOut ==
    /\ fanouts # <<>>
    /\ fanouts' = Tail(fanouts)
    /\ CASE link # "ready" -> UNCHANGED <<heldTicks, laterTicks, frames, link>>
         [] link = "ready" /\ request = "sync" ->
              heldTicks' = Append(heldTicks, Head(fanouts)) /\ UNCHANGED <<laterTicks, frames, link>>
         [] link = "ready" /\ request = "call" ->
              laterTicks' = Append(laterTicks, Head(fanouts)) /\ UNCHANGED <<heldTicks, frames, link>>
         [] OTHER -> Put(<<Head(fanouts)>>) /\ UNCHANGED <<heldTicks, laterTicks>>
    /\ UNCHANGED <<streamed, buckets, armed, timers, request, got, start, holds, links>>

(* _on_req takes a request: sync.since holds live frames, any other defers.   *)
BeginRequest(r) ==
    /\ link = "ready" /\ request = "none" /\ holds < MaxHolds
    /\ request' = r /\ holds' = holds + 1
    /\ UNCHANGED <<tickSide, link, heldTicks, laterTicks, frames, got, start, links>>

(* release_live within sync.since: a tick has no sequence number, so all the  *)
(* held ones go on, behind the answer that is still to come.                 *)
Release ==
    /\ link = "ready" /\ request = "sync"
    /\ request' = "call"
    /\ laterTicks' = laterTicks \o heldTicks /\ heldTicks' = <<>>
    /\ UNCHANGED <<tickSide, link, frames, got, start, holds, links>>

(* The answer and the frames that waited for it are queued.                   *)
EndRequest ==
    /\ link = "ready" /\ request = "call"
    /\ request' = "none" /\ laterTicks' = <<>>
    /\ Put(laterTicks)
    /\ UNCHANGED <<tickSide, heldTicks, got, start, holds, links>>

(* _send_loop sends the oldest frame, and useTicks appends its text.          *)
SendTick ==
    /\ link = "ready" /\ frames # <<>>
    /\ frames' = Tail(frames)
    /\ got' = [got EXCEPT ![Head(frames).of] = @ \o Head(frames).text]
    /\ UNCHANGED <<tickSide, link, request, heldTicks, laterTicks, start, holds, links>>

-----------------------------------------------------------------------------
(* The first delta of a stream that the coalescer or the hub still holds, or  *)
(* the one that comes next.                                                 *)
FirstAhead(s) ==
    Min({streamed[s] + 1}
        \cup {buckets[s][i] : i \in DOMAIN buckets[s]}
        \cup {fanouts[i].text[1] : i \in {j \in DOMAIN fanouts : fanouts[j].of = s}})

(* _enter_ready attaches the session: deltas not yet fanned out will reach it.*)
EnterReady ==
    /\ link = "off" /\ links < MaxLinks
    /\ link' = "ready" /\ links' = links + 1
    /\ got' = Silent
    /\ start' = [s \in Streams |-> FirstAhead(s)]
    /\ UNCHANGED <<tickSide, request, heldTicks, laterTicks, frames, holds>>

(* The connection ends, or the session that is closing is detached.            *)
Detach ==
    /\ link # "off" /\ link' = "off"
    /\ request' = "none" /\ heldTicks' = <<>> /\ laterTicks' = <<>> /\ frames' = <<>>
    /\ UNCHANGED <<tickSide, got, start, holds, links>>

TicksNext ==
    \/ \E s \in Streams : AddDelta(s) \/ Fire(s)
    \/ FanOut \/ Release \/ EndRequest \/ SendTick \/ EnterReady \/ Detach
    \/ \E r \in {"sync", "call"} : BeginRequest(r)

TicksSpec == TicksInit /\ [][TicksNext]_tickVars

-----------------------------------------------------------------------------
(* Over one connection the client gets the text of each turn without a gap,   *)
(* a repeat or a swap, however deltas, windows, requests and fan-outs         *)
(* interleave; and when no timer, task, request or frame is left it has       *)
(* everything streamed since it was attached (TickCoalescer._arm and _fire,   *)
(* Session.deliver, release_live).                                           *)
TextIsWhole ==
    link = "ready" =>
        \A s \in Streams :
            /\ \A i \in DOMAIN got[s] : got[s][i] = start[s] + i - 1
            /\ timers = {} /\ fanouts = <<>> /\ frames = <<>> /\ request = "none"
                   => Len(got[s]) = streamed[s] + 1 - start[s]
=============================================================================
