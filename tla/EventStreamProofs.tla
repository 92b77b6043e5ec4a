-------------------------- MODULE EventStreamProofs -------------------------
(***************************************************************************)
(* The event stream implements EventFeed, for every number of events, page  *)
(* size, queue limit and buffer cap. What the client is told is never ahead *)
(* of the outbox (Base), one sync.since is under way at a time (OneSync),   *)
(* and the welcome is the first frame of a session (Hello). Once the stream *)
(* rests the client has everything: what it lacks is in its buffer or on    *)
(* its way, through a replay and behind it (Cover).                         *)
(***************************************************************************)
EXTENDS EventStream, Induction, FiniteSetTheorems

SyncSteps == {"head", "rows", "send"}

(* Frames name events that were stored, and a resync a place that is pruned  *)
(* up to now or earlier.                                                    *)
GoodFrames ==
    {f \in Frames : /\ f.t \in {"welcome", "page"} => f.s <= head
                    /\ f.t = "evt" => f.s \in 1..head
                    /\ f.t = "resync" => f.s \in 1..low}

(* The types, as narrow as the outbox makes them.                            *)
Base ==
    /\ head \in 0..MaxSeq /\ low \in 1..head + 1 /\ unfanned \subseteq 1..head
    /\ phase \in {"off", "read", "ready"} /\ hostSeq \in 0..head
    /\ serving \in {"none", "call", "head", "rows", "send"} /\ syncHead \in 0..head
    /\ fetched \in [rows : Seq(1..head), more : BOOLEAN, min : (0..low) \cap (0..head)]
    /\ held \in Seq(1..head) /\ deferred \in Seq(1..head)
    /\ queue \in Seq(GoodFrames) /\ Len(queue) <= QueueLimit /\ closing \in BOOLEAN
    /\ last \in 0..head
    /\ buffered \subseteq 1..head /\ Cardinality(buffered) <= BufferCap
    /\ welcomed \in BOOLEAN /\ again \in BOOLEAN
    /\ flight \in 0..head \cup {None}
    /\ asked \in BOOLEAN /\ calling \in BOOLEAN
    /\ handed \subseteq 1..head
    /\ calls \in Nat /\ drops \in Nat

IsAnswer(f) == f.t \in {"page", "resync"}
NoAnswer == \A i \in 1..Len(queue) : ~IsAnswer(queue[i])

(* A sync.since is asked for, in service, or answered in the queue, never two *)
(* of these and never two answers; the client knows that it waits.           *)
OneSync ==
    /\ asked \/ serving \in SyncSteps => flight # None /\ NoAnswer
    /\ ~(asked /\ serving \in SyncSteps)
    /\ \A i, j \in 1..Len(queue) : IsAnswer(queue[i]) /\ IsAnswer(queue[j]) => i = j
    /\ flight = None => NoAnswer

(* Nothing reaches the client before the session's welcome.                  *)
Hello ==
    /\ ~welcomed => last = 0
    /\ phase # "ready" => queue = <<>> /\ serving = "none" /\ ~closing
    /\ phase = "ready" /\ ~welcomed => queue # <<>> /\ queue[1].t = "welcome"

IInv == Base /\ OneSync /\ Hello

-----------------------------------------------------------------------------
(* Sequences.                                                                *)

LEMMA SeqGrows == ASSUME NEW S, NEW T, S \subseteq T, NEW s \in Seq(S) PROVE s \in Seq(T)
OBVIOUS

LEMMA LastType == ASSUME NEW S, NEW s \in Seq(S), s # <<>> PROVE s[Len(s)] \in S
OBVIOUS

(* Taking a frame off the wire.                                              *)
LEMMA Taken ==
    ASSUME NEW S, NEW s \in Seq(S), s # <<>>
    PROVE  /\ Head(s) = s[1] /\ s[1] \in S /\ Len(s) \in Nat \ {0}
           /\ Tail(s) \in Seq(S) /\ Len(Tail(s)) = Len(s) - 1
           /\ \A i \in 1..Len(s) - 1 : Tail(s)[i] = s[i + 1]
OBVIOUS

(* Session.enqueue leaves what is queued and adds a prefix of the frames.    *)
LEMMA EnqueueAdds ==
    ASSUME NEW S, queue \in Seq(S), NEW fs \in Seq(S), Len(queue) <= QueueLimit,
           closing \in BOOLEAN, Enqueue(fs)
    PROVE  /\ queue' \in Seq(S) /\ Len(queue') <= QueueLimit /\ closing' \in BOOLEAN
           /\ Len(queue) <= Len(queue')
           /\ \A i \in 1..Len(queue) : queue'[i] = queue[i]
           /\ \A i \in Len(queue) + 1..Len(queue') :
                 i - Len(queue) \in 1..Len(fs) /\ queue'[i] = fs[i - Len(queue)]
<1> USE EventStreamAssumption
<1>1. CASE closing
  BY <1>1 DEF Enqueue
<1>2. CASE ~closing
  <2> DEFINE room == QueueLimit - Len(queue)
             k == IF Len(fs) < room THEN Len(fs) ELSE room
  <2>1. room \in Nat /\ k \in 0..Len(fs) /\ k <= room
    OBVIOUS
  <2>2. queue' = queue \o SubSeq(fs, 1, k) /\ closing' = (Len(fs) > room)
    BY <1>2 DEF Enqueue
  <2>3. closing' \in BOOLEAN
    BY <2>2
  <2> HIDE DEF room, k
  <2>4. /\ SubSeq(fs, 1, k) \in Seq(S) /\ Len(SubSeq(fs, 1, k)) = k
        /\ \A i \in 1..k : SubSeq(fs, 1, k)[i] = fs[i]
    BY <2>1
  <2>5. /\ queue' \in Seq(S) /\ Len(queue') = Len(queue) + k
        /\ \A i \in 1..Len(queue) : queue'[i] = queue[i]
        /\ \A i \in Len(queue) + 1..Len(queue') : queue'[i] = SubSeq(fs, 1, k)[i - Len(queue)]
    BY <2>2, <2>4
  <2> QED
    BY <2>1, <2>3, <2>4, <2>5 DEF room
<1> QED
  BY <1>1, <1>2

(* The frames release_live lets go, one step for each that is held.          *)
LEMMA AboveSteps ==
    ASSUME NEW S, S \subseteq Nat, NEW s \in Seq(S), NEW high \in Nat
    PROVE  \E h : /\ h[0] = <<>> /\ \A k \in 0..Len(s) : h[k] \in Seq(S)
                  /\ \A k \in 1..Len(s) :
                        h[k] = IF s[k] > high THEN Append(h[k - 1], s[k]) ELSE h[k - 1]
                  /\ Above(s, high) = h[Len(s)]
<1> DEFINE n == Len(s)
           Step(v, i) == IF s[i] > high THEN Append(v, s[i]) ELSE v
           IsKept(f, k) == /\ f \in [0..k -> Seq(S)] /\ f[0] = <<>>
                           /\ \A i \in 1..k : f[i] = Step(f[i - 1], i)
           T == {k \in 0..n : \E f : IsKept(f, k)}
<1>0. n \in Nat /\ \A v \in Seq(S), i \in 1..n : Step(v, i) \in Seq(S)
  OBVIOUS
<1>1. 0..n \subseteq T
  <2>1. 0 \in T
    <3>1. IsKept([i \in 0..0 |-> <<>>], 0)
      OBVIOUS
    <3>2. 0 \in 0..n
      BY <1>0
    <3> HIDE DEF IsKept
    <3> QED
      BY <3>1, <3>2
  <2>2. ASSUME NEW k \in T, k \in 0..n - 1 PROVE k + 1 \in T
    <3>1. PICK f : IsKept(f, k)
      BY <2>2
    <3> DEFINE g == [i \in 0..k + 1 |-> IF i = k + 1 THEN Step(f[k], k + 1) ELSE f[i]]
    <3>2. k + 1 \in 0..n
      BY <2>2
    <3>3. IsKept(g, k + 1)
      <4> HIDE DEF Step
      <4>1. g \in [0..k + 1 -> Seq(S)]
        BY <1>0, <2>2, <3>1
      <4>2. g[0] = <<>>
        BY <2>2, <3>1
      <4>3. ASSUME NEW i \in 1..k + 1 PROVE g[i] = Step(g[i - 1], i)
        <5>1. CASE i = k + 1
          BY <2>2, <5>1
        <5>2. CASE i \in 1..k
          <6>1. i \in 0..k + 1 /\ i - 1 \in 0..k + 1 /\ i # k + 1 /\ i - 1 # k + 1
            BY <5>2, <2>2
          <6>2. g[i] = f[i] /\ g[i - 1] = f[i - 1]
            BY <6>1
          <6> QED
            BY <3>1, <5>2, <6>2
        <5> QED
          BY <5>1, <5>2, <2>2
      <4> QED
        BY <4>1, <4>2, <4>3
    <3> QED
      BY <3>2, <3>3
  <2> HIDE DEF T
  <2> QED
    BY <1>0, <2>1, <2>2, UpTo
<1>2. PICK f : IsKept(f, n)
  <2>1. n \in T
    <3>1. n \in 0..n
      BY <1>0
    <3> HIDE DEF T
    <3> QED
      BY <1>1, <3>1
  <2> HIDE DEF IsKept
  <2> QED
    BY <2>1
<1> DEFINE G(g) == g = [i \in 0..n |-> IF i = 0 THEN <<>>
                                ELSE IF s[i] > high THEN Append(g[i - 1], s[i]) ELSE g[i - 1]]
<1>3. G(f)
  <2>1. ASSUME NEW i \in 0..n PROVE f[i] = IF i = 0 THEN <<>> ELSE Step(f[i - 1], i)
    <3>1. CASE i = 0
      BY <1>2, <3>1
    <3>2. CASE i # 0
      <4>1. i \in 1..n
        BY <1>0, <3>2
      <4> HIDE DEF Step
      <4> QED
        BY <1>2, <3>2, <4>1
    <3> QED
      BY <3>1, <3>2
  <2> QED
    BY <1>2, <2>1
<1> DEFINE h == CHOOSE g : G(g)
<1>4. G(h)
  BY <1>3
<1>6. Above(s, high) = h[n]
  BY DEF Above
<1> HIDE DEF h
<1>7. /\ h[0] = <<>>
      /\ \A i \in 1..n : h[i] = Step(h[i - 1], i)
  <2>1. h[0] = <<>>
    <3>1. 0 \in 0..n
      BY <1>0
    <3> QED
      BY <1>4, <3>1
  <2>2. ASSUME NEW i \in 1..n PROVE h[i] = Step(h[i - 1], i)
    <3>1. i \in 0..n /\ i # 0
      BY <1>0
    <3> QED
      BY <1>4, <3>1
  <2> QED
    BY <2>1, <2>2
<1> DEFINE V == {k \in 0..n : h[k] \in Seq(S)}
<1>5. 0..n \subseteq V
  <2>1. 0 \in V
    <3>1. 0 \in 0..n /\ h[0] \in Seq(S)
      BY <1>0, <1>7
    <3> QED
      BY <3>1
  <2>2. ASSUME NEW k \in V, k \in 0..n - 1 PROVE k + 1 \in V
    <3> HIDE DEF Step
    <3>1. k + 1 \in 1..n /\ k + 1 - 1 = k
      BY <2>2
    <3> QED
      BY <1>0, <1>7, <3>1
  <2> HIDE DEF V
  <2> QED
    BY <1>0, <2>1, <2>2, UpTo
<1>8. \A k \in 0..n : h[k] \in Seq(S)
  BY <1>5
<1> HIDE DEF V
<1>9. /\ h[0] = <<>> /\ \A k \in 0..Len(s) : h[k] \in Seq(S)
      /\ \A k \in 1..Len(s) :
            h[k] = IF s[k] > high THEN Append(h[k - 1], s[k]) ELSE h[k - 1]
      /\ Above(s, high) = h[Len(s)]
  BY <1>6, <1>7, <1>8
<1> QED
  BY Zenon, <1>9

(* What is let go was held...                                                *)
LEMMA AboveType ==
    ASSUME NEW S, S \subseteq Nat, NEW s \in Seq(S), NEW high \in Nat
    PROVE  Above(s, high) \in Seq(S)
<1>1. Len(s) \in 0..Len(s)
  OBVIOUS
<1>2. PICK h : /\ h[0] = <<>> /\ \A k \in 0..Len(s) : h[k] \in Seq(S)
               /\ \A k \in 1..Len(s) :
                     h[k] = IF s[k] > high THEN Append(h[k - 1], s[k]) ELSE h[k - 1]
               /\ Above(s, high) = h[Len(s)]
  BY Zenon, AboveSteps
<1> QED
  BY <1>1, <1>2

(* ...and of what was held, everything above the page is let go.             *)
LEMMA AboveKeeps ==
    ASSUME NEW S, S \subseteq Nat, NEW s \in Seq(S), NEW high \in Nat,
           NEW i \in 1..Len(s), s[i] > high
    PROVE  \E j \in 1..Len(Above(s, high)) : Above(s, high)[j] = s[i]
<1>0. Len(s) \in Nat
  OBVIOUS
<1>1. PICK h : /\ h[0] = <<>> /\ \A k \in 0..Len(s) : h[k] \in Seq(S)
               /\ \A k \in 1..Len(s) :
                     h[k] = IF s[k] > high THEN Append(h[k - 1], s[k]) ELSE h[k - 1]
               /\ Above(s, high) = h[Len(s)]
  BY Zenon, AboveSteps
<1> DEFINE Has(k) == \E j \in 1..Len(h[k]) : h[k][j] = s[i]
           T == {k \in 0..Len(s) : k >= i => Has(k)}
<1>2. 0 \in T
  BY <1>0
<1>3. ASSUME NEW k \in T, k \in 0..Len(s) - 1 PROVE k + 1 \in T
  <2>1. /\ k + 1 \in 1..Len(s) /\ k + 1 - 1 = k /\ s[k + 1] \in S
        /\ h[k] \in Seq(S) /\ Len(h[k]) \in Nat
    BY <1>1, <1>3
  <2>2. h[k + 1] = IF s[k + 1] > high THEN Append(h[k], s[k + 1]) ELSE h[k]
    BY <1>1, <2>1
  <2>3. CASE k + 1 = i
    <3>1. h[k + 1] = Append(h[k], s[i])
      BY <2>2, <2>3
    <3>2. h[k + 1][Len(h[k]) + 1] = s[i] /\ Len(h[k]) + 1 \in 1..Len(h[k + 1])
      BY <2>1, <2>3, <3>1
    <3>3. Has(k + 1)
      BY <3>2
    <3> HIDE DEF Has
    <3> QED
      BY <2>1, <3>3
  <2>4. CASE k >= i
    <3>1. PICK j \in 1..Len(h[k]) : h[k][j] = s[i]
      BY <2>4
    <3>2. j \in 1..Len(h[k + 1]) /\ h[k + 1][j] = s[i]
      BY <2>1, <2>2, <3>1
    <3>3. Has(k + 1)
      BY <3>2
    <3> HIDE DEF Has
    <3> QED
      BY <2>1, <3>3
  <2>5. CASE k + 1 < i
    BY <2>1, <2>5
  <2> QED
    BY <1>3, <2>3, <2>4, <2>5
<1>4. 0..Len(s) \subseteq T
  <2> HIDE DEF T
  <2> QED
    BY <1>0, <1>2, <1>3, UpTo
<1>5. Len(s) \in 0..Len(s) /\ Len(s) >= i
  BY <1>0
<1> QED
  BY <1>1, <1>4, <1>5

(* The frames of stored events are good.                                     *)
LEMMA EvtsGood ==
    ASSUME head \in 0..MaxSeq, NEW ns \in Seq(1..head)
    PROVE  /\ Evts(ns) \in Seq(GoodFrames) /\ Len(Evts(ns)) = Len(ns)
           /\ \A i \in 1..Len(ns) : Evts(ns)[i].t = "evt"
<1> USE EventStreamAssumption
<1>1. ASSUME NEW n \in 1..head PROVE Evt(n) \in GoodFrames /\ Evt(n).t = "evt"
  BY DEF Evt, GoodFrames, Frames
<1>2. Evts(ns) = [i \in 1..Len(ns) |-> Evt(ns[i])]
  BY DEF Evts
<1> QED
  BY <1>1, <1>2

(* acceptEvent hands on the longest contiguous run of what it has.           *)
Run(from, full) == Max({m \in from..MaxSeq : from + 1..m \subseteq full})

LEMMA LongestRun ==
    ASSUME NEW from \in 0..MaxSeq, NEW full, full \subseteq 1..head, head \in 0..MaxSeq,
           from <= head
    PROVE  /\ Run(from, full) \in from..head
           /\ from + 1..Run(from, full) \subseteq full
           /\ Run(from, full) + 1 \notin full
<1> USE EventStreamAssumption
<1> DEFINE T == {m \in from..MaxSeq : from + 1..m \subseteq full}
<1>1. T \subseteq 0..MaxSeq /\ from \in T
  OBVIOUS
<1>2. Max(T) \in T /\ \A y \in T : Max(T) >= y
  <2> HIDE DEF T
  <2>1. \E x \in T : \A y \in T : x >= y
    <3>1. PICK x \in T : \A y \in T : y <= x
      BY <1>1, GreatestElement
    <3>2. \A y \in T : x >= y
      BY <1>1, <3>1
    <3> QED
      BY <3>2
  <2> QED
    BY <2>1 DEF Max
<1> HIDE DEF T
<1> DEFINE u == Max(T)
<1>3. u \in from..MaxSeq /\ from + 1..u \subseteq full
  BY <1>2 DEF T
<1>4. u <= head
  <2> HIDE DEF u
  <2>1. CASE u = from
    BY <2>1
  <2>2. CASE u # from
    <3>1. u \in from + 1..u
      BY <1>3, <2>2
    <3>2. u \in full
      BY <3>1, <1>3
    <3> QED
      BY <3>2
  <2> QED
    BY <2>1, <2>2
<1>5. u + 1 \notin full
  <2>1. \A y \in T : u >= y
    BY <1>2
  <2> HIDE DEF u
  <2> SUFFICES ASSUME u + 1 \in full PROVE FALSE
    OBVIOUS
  <2>2. u + 1 \in from..MaxSeq
    BY <1>3, <1>4
  <2>3. from + 1..u + 1 \subseteq full
    <3>1. \A m \in from + 1..u + 1 : m \in from + 1..u \/ m = u + 1
      BY <1>3
    <3> QED
      BY <1>3, <3>1
  <2>4. u + 1 \in T
    BY <2>2, <2>3 DEF T
  <2> QED
    BY <1>3, <2>1, <2>4
<1> QED
  BY <1>3, <1>4, <1>5 DEF T, Run

(* The live frame of an event.                                               *)
LEMMA EvtGood ==
    ASSUME head \in 0..MaxSeq, NEW n \in 1..head
    PROVE  /\ <<Evt(n)>> \in Seq(GoodFrames)
           /\ \A i \in 1..Len(<<Evt(n)>>) : ~IsAnswer(<<Evt(n)>>[i])
BY EventStreamAssumption DEF Evt, GoodFrames, Frames, IsAnswer

(* The last row of the page, or the head that sync_since read.               *)
High == IF fetched.rows = <<>> THEN syncHead ELSE fetched.rows[Len(fetched.rows)]

Answer == IF fetched.min > 0 THEN Frame("resync", fetched.min)
          ELSE Page(IF fetched.more THEN High ELSE syncHead, fetched.more)

(* What sync_since sends of what it has read and what is held.               *)
Sends(n) ==
    \/ \E i \in 1..Len(fetched.rows) : fetched.rows[i] = n
    \/ n > High /\ \E i \in 1..Len(held) : held[i] = n

(* It is a stored event or none.                                             *)
LEMMA HighType == Base => High \in 0..head
<1> SUFFICES ASSUME Base PROVE High \in 0..head
  OBVIOUS
<1>1. fetched.rows \in Seq(1..head) /\ syncHead \in 0..head
  BY DEF Base
<1>2. CASE fetched.rows = <<>>
  BY <1>1, <1>2 DEF High
<1>3. CASE fetched.rows # <<>>
  <2>1. fetched.rows[Len(fetched.rows)] \in 1..head
    BY <1>1, <1>3, LastType
  <2>2. High \in 1..head
    BY <1>3, <2>1 DEF High
  <2> QED
    BY <2>2
<1> QED
  BY <1>2, <1>3

(* sync_since sends one answer and, behind it, these events.                 *)
LEMMA SentPage ==
    ASSUME Base, SendPage
    PROVE  \E fs \in Seq(GoodFrames) :
              /\ Enqueue(fs)
              /\ Len(fs) > 0 /\ fs[1] = Answer
              /\ \A i \in 1..Len(fs) : IsAnswer(fs[i]) => i = 1
              /\ \A n : Sends(n) => \E i \in 2..Len(fs) : fs[i] = Evt(n)
<1> USE EventStreamAssumption
<1> DEFINE rows == fetched.rows
           ns == rows \o Released(High)
           evts == Evts(ns)
           fs == <<Answer>> \o evts
<1>1. rows \in Seq(1..head) /\ Len(rows) \in Nat /\ High \in 0..head
  <2>1. rows \in Seq(1..head)
    BY DEF Base
  <2> QED
    BY <2>1, HighType
<1>2. Answer \in GoodFrames
  BY <1>1 DEF Answer, Base, Frame, Page, GoodFrames, Frames
<1>3. 1..head \subseteq Nat /\ High \in Nat /\ held \in Seq(1..head)
  BY <1>1 DEF Base
<1>4. Released(High) \in Seq(1..head)
  BY <1>3, AboveType DEF Released
<1>5. /\ ns \in Seq(1..head) /\ Len(ns) \in Nat
      /\ \A i \in 1..Len(rows) : i \in 1..Len(ns) /\ ns[i] = rows[i]
      /\ \A i \in 1..Len(Released(High)) :
            Len(rows) + i \in 1..Len(ns) /\ ns[Len(rows) + i] = Released(High)[i]
  BY <1>1, <1>4
<1>6. ASSUME NEW n, Sends(n) PROVE \E i \in 1..Len(ns) : ns[i] = n
  <2>1. CASE \E i \in 1..Len(rows) : rows[i] = n
    BY <1>5, <2>1
  <2>2. CASE n > High /\ \E i \in 1..Len(held) : held[i] = n
    <3>1. PICK i \in 1..Len(held) : held[i] = n
      BY <2>2
    <3>2. held[i] > High
      BY <2>2, <3>1
    <3>3. \E j \in 1..Len(Above(held, High)) : Above(held, High)[j] = held[i]
      BY <1>3, <3>2, AboveKeeps
    <3>4. PICK j \in 1..Len(Released(High)) : Released(High)[j] = n
      BY <3>1, <3>3 DEF Released
    <3> QED
      BY <1>5, <3>4
  <2> QED
    BY <1>6, <2>1, <2>2 DEF Sends
<1> HIDE DEF ns
<1>7. /\ evts \in Seq(GoodFrames) /\ Len(evts) = Len(ns)
      /\ \A i \in 1..Len(ns) : evts[i] = Evt(ns[i]) /\ ~IsAnswer(evts[i])
  <2>1. evts \in Seq(GoodFrames) /\ Len(evts) = Len(ns)
    BY <1>5, EvtsGood DEF Base
  <2>2. \A i \in 1..Len(ns) : evts[i] = Evt(ns[i])
    BY <1>5 DEF Evts
  <2>3. \A k : ~IsAnswer(Evt(k))
    BY DEF Evt, IsAnswer
  <2> QED
    BY <2>1, <2>2, <2>3
<1>8. Enqueue(fs)
  BY DEF SendPage, High, Answer, ns
<1> HIDE DEF evts
<1>9. /\ fs \in Seq(GoodFrames) /\ Len(fs) = Len(ns) + 1 /\ fs[1] = Answer
      /\ \A i \in 2..Len(fs) : i - 1 \in 1..Len(ns) /\ fs[i] = evts[i - 1]
  BY <1>2, <1>5, <1>7
<1> HIDE DEF fs
<1>10. \A i \in 1..Len(fs) : IsAnswer(fs[i]) => i = 1
  BY <1>5, <1>7, <1>9
<1>11. ASSUME NEW n, Sends(n) PROVE \E i \in 2..Len(fs) : fs[i] = Evt(n)
  <2>1. PICK i \in 1..Len(ns) : ns[i] = n
    BY <1>6, <1>11
  <2>2. i + 1 \in 2..Len(fs) /\ i + 1 - 1 = i
    BY <1>5, <1>9
  <2>3. fs[i + 1] = Evt(n)
    BY <1>7, <1>9, <2>1, <2>2
  <2> QED
    BY <2>2, <2>3
<1> QED
  BY <1>5, <1>8, <1>9, <1>10, <1>11

(* A frame taken by the client.                                              *)
LEMMA Popped ==
    ASSUME Base, NEW t, Gets(t)
    PROVE  /\ Len(queue) \in Nat \ {0} /\ Len(queue') = Len(queue) - 1
           /\ Head(queue) = queue[1] /\ queue[1].t = t /\ queue[1] \in GoodFrames
           /\ \A i \in 1..Len(queue') : queue'[i] = queue[i + 1]
BY Taken DEF Base, Gets

(* The numbers of a state.                                                   *)
LEMMA Numbers ==
    Base => /\ head \in Nat /\ low \in Nat \ {0} /\ last \in Nat /\ Len(queue) \in Nat
            /\ buffered \subseteq 1..head /\ last # None
BY EventStreamAssumption DEF Base

(* What the client does with an event: it has it, or it empties its buffer    *)
(* and asks again, or it hands on all that has become contiguous.            *)
Empties(n) ==
    /\ n > last /\ buffered' = {} /\ UNCHANGED <<last, welcomed, calling, handed>>
    /\ CatchUp(last) \/ (flight' = last /\ asked' = TRUE /\ again' = TRUE)

HandsOn(n, upto) ==
    /\ n > last /\ Cardinality(buffered \cup {n}) <= BufferCap
    /\ last' = upto /\ buffered' = (buffered \cup {n}) \ (last + 1..upto)
    /\ handed' = handed \cup (last + 1..upto)
    /\ IF n > last + 1 THEN CatchUp(last) ELSE UNCHANGED <<flight, asked, again>>
    /\ UNCHANGED <<welcomed, calling>>

LEMMA EventTaken ==
    ASSUME Base, GetEvent
    PROVE  /\ Gets("evt") /\ SessionButQueue /\ UNCHANGED <<outbox, bounds>>
           /\ \E n \in 1..head, upto \in last..head :
                 /\ queue[1].t = "evt" /\ queue[1].s = n
                 /\ last + 1..upto \subseteq buffered \cup {n} /\ upto + 1 \notin buffered \cup {n}
                 /\ (n <= last /\ UNCHANGED client) \/ Empties(n) \/ HandsOn(n, upto)
<1> DEFINE n == Head(queue).s
           full == buffered \cup {n}
           upto == Run(last, full)
<1>1. Gets("evt") /\ SessionButQueue /\ UNCHANGED <<outbox, bounds>>
  BY DEF GetEvent
<1>2. Head(queue) = queue[1] /\ queue[1].t = "evt" /\ queue[1] \in GoodFrames
  BY <1>1, Popped
<1>3. n \in 1..head /\ queue[1].s = n
  BY <1>2 DEF GoodFrames
<1>4. n \in Nat /\ last \in Nat
  BY <1>3, Numbers
<1>5. (n <= last /\ UNCHANGED client) \/ Empties(n) \/ HandsOn(n, upto)
  <2>1. \/ n <= last /\ UNCHANGED client
        \/ n > last /\ Cardinality(full) > BufferCap /\ Empties(n)
        \/ /\ n > last /\ ~(Cardinality(full) > BufferCap)
           /\ Cardinality(full) <= BufferCap => HandsOn(n, upto)
    BY DEF GetEvent, Run, Empties, HandsOn
  <2>2. Cardinality(full) \in Nat
    <3>1. buffered \subseteq 1..head /\ IsFiniteSet(1..head)
      BY FS_Interval DEF Base
    <3>2. full \subseteq 1..head
      BY <1>3, <3>1
    <3> HIDE DEF full
    <3>3. IsFiniteSet(full)
      BY <3>1, <3>2, FS_Subset
    <3> QED
      BY <3>3, FS_CardinalityType
  <2> HIDE DEF n, full, upto
  <2>3. ~(Cardinality(full) > BufferCap) => Cardinality(full) <= BufferCap
    BY <2>2, EventStreamAssumption
  <2> QED
    BY <2>1, <2>3
<1>6. full \subseteq 1..head /\ last \in 0..MaxSeq /\ head \in 0..MaxSeq /\ last <= head
  <2>1. last \in 0..MaxSeq /\ head \in 0..MaxSeq /\ last <= head
    BY EventStreamAssumption DEF Base
  <2>2. buffered \subseteq 1..head
    BY Numbers
  <2> HIDE DEF n
  <2> QED
    BY <1>3, <2>1, <2>2
<1> HIDE DEF full
<1>7. upto \in last..head /\ last + 1..upto \subseteq full /\ upto + 1 \notin full
  BY <1>6, LongestRun
<1> HIDE DEF upto, n
<1> QED
  BY Zenon, <1>1, <1>2, <1>3, <1>5, <1>7 DEF full

-----------------------------------------------------------------------------
(* The types of every step.                                                  *)

LEMMA BaseInit == Init => Base
<1> SUFFICES ASSUME Init PROVE Base
  OBVIOUS
<1> USE EventStreamAssumption DEF Init
<1>1. /\ closing \in BOOLEAN /\ welcomed \in BOOLEAN /\ again \in BOOLEAN
      /\ asked \in BOOLEAN /\ calling \in BOOLEAN
  BY Zenon
<1>2. Cardinality(buffered) <= BufferCap
  BY FS_EmptySet
<1>3. fetched \in [rows : Seq(1..head), more : BOOLEAN, min : (0..low) \cap (0..head)]
  BY DEF Nothing, OnlyMin
<1>4. queue \in Seq(GoodFrames) /\ Len(queue) <= QueueLimit
  OBVIOUS
<1> QED
  BY <1>1, <1>2, <1>3, <1>4 DEF Base

LEMMA OutboxBase ==
    ASSUME Base, \/ Append1
                 \/ \E p \in Seqs \cup {MaxSeq + 1} : Prune(p)
    PROVE  Base'
<1> USE EventStreamAssumption DEF Base
<1>1. /\ head' \in 0..MaxSeq /\ low' \in 1..head' + 1 /\ head <= head' /\ low <= low'
      /\ unfanned' \subseteq 1..head'
  <2>1. CASE Append1
    BY <2>1 DEF Append1
  <2>2. ASSUME NEW p \in Seqs \cup {MaxSeq + 1}, Prune(p)
        PROVE  /\ head' \in 0..MaxSeq /\ low' \in 1..head' + 1 /\ head <= head'
               /\ low <= low' /\ unfanned' \subseteq 1..head'
    BY <2>2 DEF Prune
  <2> QED
    BY <2>1, <2>2
<1>2. UNCHANGED <<session, client, bounds>>
  BY DEF Append1, Prune
<1>3. 1..head \subseteq 1..head' /\ 0..head \subseteq 0..head' /\ 0..low \subseteq 0..low'
  BY <1>1
<1>4. GoodFrames \subseteq GoodFrames'
  BY SMTT(30), <1>1, <1>3 DEF GoodFrames, Frames
<1>5. queue' \in Seq(GoodFrames)'
  BY <1>2, <1>4, SeqGrows DEF session
<1>6. held' \in Seq(1..head)' /\ deferred' \in Seq(1..head)'
  BY <1>2, <1>3, SeqGrows DEF session
<1>7. fetched' \in [rows : Seq(1..head), more : BOOLEAN, min : (0..low) \cap (0..head)]'
  <2>1. fetched.rows \in Seq(1..head')
    BY <1>3, SeqGrows
  <2>2. fetched.min \in (0..low') \cap (0..head') /\ fetched.more \in BOOLEAN
    BY <1>3
  <2>3. fetched = [rows |-> fetched.rows, more |-> fetched.more, min |-> fetched.min]
    OBVIOUS
  <2> QED
    BY <1>2, <2>1, <2>2, <2>3 DEF session
<1> QED
  BY ZenonT(60), <1>1, <1>2, <1>3, <1>5, <1>6, <1>7 DEF session, client, bounds

(* The frames and numbers of the other steps are about an outbox that stays.  *)
LEMMA SessionBase ==
    ASSUME Base, OneSync,
           \/ \E n \in Seqs : Fan(n)
           \/ Connect \/ Attach \/ TakeCall \/ AnswerCall \/ TakeSync \/ ReadHead \/ ReadRows
           \/ SendPage
    PROVE  Base'
<1> USE EventStreamAssumption DEF Base
<1>1. ASSUME NEW fs \in Seq(GoodFrames), Enqueue(fs), UNCHANGED <<head, low>>
      PROVE  /\ queue' \in Seq(GoodFrames)' /\ (Len(queue) <= QueueLimit)'
             /\ (closing \in BOOLEAN)'
  <2>1. GoodFrames' = GoodFrames
    BY <1>1 DEF GoodFrames
  <2> QED
    BY <1>1, <2>1, EnqueueAdds
<1>2. ASSUME NEW n \in Seqs, Fan(n) PROVE Base'
  <2>1. n \in 1..head /\ unfanned' \subseteq 1..head
    BY <1>2 DEF Fan
  <2>2. UNCHANGED <<head, low, phase, hostSeq, serving, syncHead, fetched, client, bounds>>
    BY <1>2 DEF Fan
  <2>3. GoodFrames' = GoodFrames
    BY <2>2 DEF GoodFrames
  <2>4. CASE Enqueue(<<Evt(n)>>) /\ UNCHANGED <<held, deferred>>
    <3>1. <<Evt(n)>> \in Seq(GoodFrames)
      BY <2>1, EvtGood
    <3>2. (queue \in Seq(GoodFrames) /\ Len(queue) <= QueueLimit /\ closing \in BOOLEAN)'
      BY <1>1, <2>2, <2>4, <3>1
    <3>3. UNCHANGED <<held, deferred>>
      BY <2>4
    <3> QED
      BY SMTT(30), <2>1, <2>2, <3>2, <3>3 DEF client, bounds
  <2>5. CASE UNCHANGED <<queue, closing>> /\ held' \in {held, Append(held, n)}
                /\ deferred' \in {deferred, Append(deferred, n)}
    <3>1. Append(held, n) \in Seq(1..head) /\ Append(deferred, n) \in Seq(1..head)
      BY <2>1
    <3>2. held' \in Seq(1..head) /\ deferred' \in Seq(1..head) /\ UNCHANGED <<queue, closing>>
      BY <2>5, <3>1
    <3> QED
      BY SMTT(30), <2>1, <2>2, <2>3, <3>2 DEF client, bounds
  <2> QED
    BY <1>2, <2>4, <2>5 DEF Fan
<1>3. CASE Connect
  BY <1>3 DEF Connect, GoodFrames, outbox, client, bounds
<1>4. CASE Attach
  <2>1. <<Frame("welcome", hostSeq)>> \in Seq(GoodFrames)
    BY DEF Frame, GoodFrames, Frames
  <2>2. UNCHANGED <<outbox, serving, syncHead, fetched, held, deferred, client, bounds>>
        /\ phase' = "ready" /\ hostSeq' = 0 /\ Enqueue(<<Frame("welcome", hostSeq)>>)
    BY <1>4 DEF Attach
  <2>3. (queue \in Seq(GoodFrames) /\ Len(queue) <= QueueLimit /\ closing \in BOOLEAN)'
    BY <1>1, <2>1, <2>2 DEF outbox
  <2> QED
    BY <2>2, <2>3 DEF outbox, client, bounds
<1>5. CASE TakeCall
  BY <1>5 DEF TakeCall, GoodFrames, outbox, bounds
<1>6. CASE AnswerCall
  <2>1. <<Frame("res", 0)>> \in Seq(GoodFrames)
    BY DEF Frame, GoodFrames, Frames
  <2>2. <<Frame("res", 0)>> \o Evts(deferred) \in Seq(GoodFrames)
    BY <2>1, EvtsGood
  <2>3. UNCHANGED <<outbox, phase, hostSeq, syncHead, fetched, held, client, bounds>>
        /\ serving' = "none" /\ deferred' = <<>>
        /\ Enqueue(<<Frame("res", 0)>> \o Evts(deferred))
    BY <1>6 DEF AnswerCall
  <2>4. (queue \in Seq(GoodFrames) /\ Len(queue) <= QueueLimit /\ closing \in BOOLEAN)'
    BY <1>1, <2>2, <2>3 DEF outbox
  <2> QED
    BY SMTT(30), <2>3, <2>4 DEF outbox, client, bounds
<1>7. CASE TakeSync
  BY <1>7 DEF TakeSync, GoodFrames, outbox, bounds
<1>8. CASE ReadHead
  BY <1>8 DEF ReadHead, GoodFrames, outbox, client, bounds
<1>9. CASE ReadRows
  <2>1. flight \in 0..head /\ PageLimit \in Nat
    BY <1>9 DEF ReadRows, OneSync, SyncSteps
  <2> DEFINE to == IF head < flight + PageLimit THEN head ELSE flight + PageLimit
  <2>2. to \in 0..head
    BY <2>1
  <2>3. [i \in 1..to - flight |-> flight + i] \in Seq(1..head)
    BY <2>1, <2>2
  <2> HIDE DEF to
  <2>4. (to < head) \in BOOLEAN
    OBVIOUS
  <2>5. fetched' \in [rows : Seq(1..head), more : BOOLEAN, min : (0..low) \cap (0..head)]
    <3>1. CASE fetched' = OnlyMin(low) /\ low <= head
      BY <3>1 DEF OnlyMin
    <3>2. CASE fetched' = Nothing
      BY <3>2 DEF OnlyMin, Nothing
    <3>3. CASE fetched' = [rows |-> [i \in 1..to - flight |-> flight + i],
                           more |-> to < head, min |-> 0]
      BY <2>3, <2>4, <3>3
    <3> QED
      BY <1>9, <3>1, <3>2, <3>3 DEF ReadRows, Pruned, to
  <2> QED
    BY <1>9, <2>5 DEF ReadRows, GoodFrames, outbox, client, bounds
<1>10. CASE SendPage
  <2>1. PICK fs \in Seq(GoodFrames) : Enqueue(fs)
    BY <1>10, SentPage
  <2>2. /\ UNCHANGED <<outbox, phase, hostSeq, deferred, client, bounds>>
        /\ serving' = "none" /\ syncHead' = 0 /\ fetched' = Nothing /\ held' = <<>>
    BY <1>10 DEF SendPage
  <2>3. fetched' \in [rows : Seq(1..head), more : BOOLEAN, min : (0..low) \cap (0..head)]
    BY <2>2 DEF Nothing, OnlyMin
  <2>4. (queue \in Seq(GoodFrames) /\ Len(queue) <= QueueLimit /\ closing \in BOOLEAN)'
    BY <1>1, <2>1, <2>2 DEF outbox
  <2>5. (hostSeq \in 0..head /\ syncHead \in 0..head /\ held \in Seq(1..head))'
    BY <2>2 DEF outbox
  <2>6. UNCHANGED <<outbox, phase, deferred, client, bounds>> /\ serving' = "none"
    BY <2>2
  <2> QED
    BY <2>3, <2>4, <2>5, <2>6 DEF outbox, client, bounds
<1> QED
  BY <1>2, <1>3, <1>4, <1>5, <1>6, <1>7, <1>8, <1>9, <1>10

LEMMA ClientBase ==
    ASSUME Base,
           \/ GetWelcome \/ GetEvent \/ GetPage \/ GetResync \/ GetAnswer
           \/ Call \/ SlowClose \/ Drop \/ Restart \/ Rest
    PROVE  Base'
<1> USE EventStreamAssumption DEF Base
<1>1. ASSUME UNCHANGED <<head, low>> PROVE GoodFrames' = GoodFrames
  BY <1>1 DEF GoodFrames
<1>2. ASSUME NEW t, Gets(t)
      PROVE  /\ queue' \in Seq(GoodFrames) /\ Len(queue') <= QueueLimit
             /\ Head(queue) \in GoodFrames /\ Head(queue).t = t
  BY <1>2, Taken DEF Gets
<1>3. ASSUME NEW t, Gets(t), SessionButQueue, UNCHANGED <<outbox, calling, bounds>>,
             (last \in 0..head)', (buffered \subseteq 1..head)',
             (Cardinality(buffered) <= BufferCap)', (welcomed \in BOOLEAN)',
             (again \in BOOLEAN)', (asked \in BOOLEAN)', (flight \in 0..head \cup {None})',
             (handed \subseteq 1..head)'
      PROVE  Base'
  BY <1>1, <1>2, <1>3 DEF SessionButQueue, outbox, bounds
<1>4. ASSUME NEW q \in 0..head, CatchUp(q), UNCHANGED head
      PROVE  (flight \in 0..head \cup {None})' /\ (again \in BOOLEAN)' /\ (asked \in BOOLEAN)'
  BY <1>4 DEF CatchUp, Ask
<1>5. Cardinality({}) <= BufferCap
  BY FS_EmptySet
<1>6. CASE GetWelcome
  <2> DEFINE h == Head(queue).s
             now == CASE h < last -> 0
                      [] h >= last /\ ~welcomed /\ last = 0 -> h
                      [] OTHER -> last
  <2>1. Gets("welcome") /\ SessionButQueue /\ UNCHANGED <<outbox, calling, handed, bounds>>
    BY <1>6 DEF GetWelcome
  <2>2. h \in 0..head
    BY <1>2, <2>1 DEF GoodFrames, Frames
  <2>3. now \in 0..head
    BY <2>2
  <2>4. /\ last' = now /\ welcomed' = TRUE /\ CatchUp(now)
        /\ buffered' \in {{}, buffered}
    BY <1>6 DEF GetWelcome
  <2> HIDE DEF now, h
  <2>5. (flight \in 0..head \cup {None})' /\ (again \in BOOLEAN)' /\ (asked \in BOOLEAN)'
    BY <1>4, <2>1, <2>3, <2>4 DEF outbox
  <2>6. /\ (last \in 0..head)' /\ (buffered \subseteq 1..head)'
        /\ (Cardinality(buffered) <= BufferCap)' /\ (handed \subseteq 1..head)'
    BY <1>5, <2>1, <2>3, <2>4 DEF outbox
  <2>7. (welcomed \in BOOLEAN)'
    BY <2>4
  <2> QED
    BY <1>3, <2>1, <2>5, <2>6, <2>7
<1>7. CASE GetEvent
  <2>1. Gets("evt") /\ SessionButQueue /\ UNCHANGED <<outbox, bounds>>
    BY <1>7, EventTaken
  <2>2. PICK n \in 1..head, upto \in last..head :
            /\ last + 1..upto \subseteq buffered \cup {n}
            /\ (n <= last /\ UNCHANGED client) \/ Empties(n) \/ HandsOn(n, upto)
    BY <1>7, EventTaken
  <2>3. CASE UNCHANGED client
    <3>1. UNCHANGED <<last, buffered, welcomed, again, asked, flight, handed, calling, head>>
      BY <2>1, <2>3 DEF client, outbox
    <3> QED
      BY <1>3, <2>1, <3>1
  <2>4. CASE Empties(n)
    <3>1. (flight \in 0..head \cup {None})' /\ (again \in BOOLEAN)' /\ (asked \in BOOLEAN)'
      BY <1>4, <2>1, <2>4 DEF outbox, Empties
    <3>2. /\ (last \in 0..head)' /\ (buffered \subseteq 1..head)'
          /\ (Cardinality(buffered) <= BufferCap)' /\ (handed \subseteq 1..head)'
      BY <1>5, <2>1, <2>4 DEF outbox, Empties
    <3>3. (welcomed \in BOOLEAN)' /\ UNCHANGED calling
      BY <2>4 DEF Empties
    <3> QED
      BY <1>3, <2>1, <3>1, <3>2, <3>3
  <2>5. CASE HandsOn(n, upto)
    <3> DEFINE full == buffered \cup {n}
    <3>1. (flight \in 0..head \cup {None})' /\ (again \in BOOLEAN)' /\ (asked \in BOOLEAN)'
      BY <1>4, <2>1, <2>5 DEF outbox, HandsOn
    <3>2. full \subseteq 1..head /\ last + 1..upto \subseteq full
      BY <2>2
    <3>3. /\ last' = upto /\ buffered' = full \ (last + 1..upto)
          /\ handed' = handed \cup (last + 1..upto) /\ Cardinality(full) <= BufferCap
          /\ (welcomed \in BOOLEAN)' /\ UNCHANGED calling /\ head' = head
      BY <2>1, <2>5 DEF outbox, HandsOn
    <3> HIDE DEF full
    <3>4. Cardinality(buffered') <= BufferCap
      <4>1. buffered' \subseteq full /\ IsFiniteSet(1..head)
        BY <3>3, FS_Interval
      <4>2. IsFiniteSet(full)
        BY <3>2, <4>1, FS_Subset
      <4>3. Cardinality(buffered') <= Cardinality(full) /\ Cardinality(buffered') \in Nat
            /\ Cardinality(full) \in Nat
        BY <4>1, <4>2, FS_Subset, FS_CardinalityType
      <4> QED
        BY <3>3, <4>3
    <3>5. (last \in 0..head)' /\ (buffered \subseteq 1..head)' /\ (handed \subseteq 1..head)'
      BY <3>2, <3>3
    <3> QED
      BY <1>3, <2>1, <3>1, <3>3, <3>4, <3>5
  <2> HIDE DEF Base
  <2> QED
    BY <2>2, <2>3, <2>4, <2>5
<1>8. CASE GetPage
  <2>1. /\ Gets("page") /\ SessionButQueue
        /\ UNCHANGED <<outbox, last, buffered, welcomed, calling, handed, bounds>>
    BY <1>8 DEF GetPage
  <2>2. Head(queue).s \in 0..head
    BY <1>2, <2>1 DEF GoodFrames, Frames
  <2>3. \/ Ask(Head(queue).s) \/ Ask(last)
        \/ flight' = None /\ UNCHANGED <<asked, again>>
    BY <1>8 DEF GetPage
  <2>4. (flight \in 0..head \cup {None})' /\ (again \in BOOLEAN)' /\ (asked \in BOOLEAN)'
    BY <2>1, <2>2, <2>3 DEF Ask, outbox
  <2>5. UNCHANGED <<head, last, buffered, welcomed, handed>>
    BY <2>1 DEF outbox
  <2> QED
    BY <1>3, <2>1, <2>4, <2>5
<1>9. CASE GetResync
  <2> DEFINE to == Head(queue).s - 1
  <2>1. /\ Gets("resync") /\ SessionButQueue
        /\ UNCHANGED <<outbox, welcomed, calling, handed, bounds>>
        /\ last' = to /\ buffered' = {} /\ Ask(to)
    BY <1>9 DEF GetResync
  <2>2. to \in 0..head
    <3>1. Head(queue) \in GoodFrames /\ Head(queue).t = "resync"
      BY <1>2, <2>1
    <3>2. Head(queue).s \in 1..low
      BY <3>1 DEF GoodFrames
    <3>3. low \in 1..head + 1 /\ head \in Nat
      OBVIOUS
    <3> HIDE DEF Base
    <3> QED
      BY <3>2, <3>3
  <2> HIDE DEF to
  <2>3. (flight \in 0..head \cup {None})' /\ (again \in BOOLEAN)' /\ (asked \in BOOLEAN)'
    BY <2>1, <2>2 DEF Ask, outbox
  <2>4. /\ (last \in 0..head)' /\ (buffered \subseteq 1..head)' /\ (handed \subseteq 1..head)'
        /\ (Cardinality(buffered) <= BufferCap)' /\ (welcomed \in BOOLEAN)'
    BY <1>5, <2>1, <2>2 DEF outbox
  <2> QED
    BY <1>3, <2>1, <2>3, <2>4
<1>10. CASE GetAnswer
  <2>1. /\ Gets("res") /\ SessionButQueue /\ UNCHANGED <<outbox, client, bounds>>
    BY <1>10 DEF GetAnswer
  <2>2. UNCHANGED <<head, last, buffered, welcomed, again, asked, flight, handed, calling>>
    BY <2>1 DEF client, outbox
  <2> QED
    BY <1>3, <2>1, <2>2
<1>11. CASE Call
  BY <1>1, <1>11 DEF Call, outbox, session
<1>12. ASSUME Gone, calls' \in Nat, drops' \in Nat, unfanned' \subseteq unfanned PROVE Base'
  <2>1. fetched' \in [rows : Seq(1..head), more : BOOLEAN, min : (0..low) \cap (0..head)]
    BY <1>12 DEF Gone, Nothing, OnlyMin
  <2>2. /\ (closing \in BOOLEAN)' /\ (welcomed \in BOOLEAN)' /\ (again \in BOOLEAN)'
        /\ (asked \in BOOLEAN)' /\ (calling \in BOOLEAN)'
    BY <1>12, Zenon DEF Gone
  <2>3. /\ UNCHANGED <<head, low, last, buffered, handed>> /\ hostSeq' = 0 /\ syncHead' = 0
        /\ held' = <<>> /\ deferred' = <<>> /\ queue' = <<>> /\ flight' = None
        /\ phase' = "off" /\ serving' = "none"
    BY <1>12 DEF Gone
  <2>4. queue' \in Seq(GoodFrames)' /\ Len(queue') <= QueueLimit
    BY <2>3
  <2>5. /\ (head \in 0..MaxSeq)' /\ (low \in 1..head + 1)' /\ (unfanned \subseteq 1..head)'
        /\ (hostSeq \in 0..head)' /\ (syncHead \in 0..head)' /\ (last \in 0..head)'
    BY <1>12, <2>3
  <2>6. /\ (buffered \subseteq 1..head)' /\ (Cardinality(buffered) <= BufferCap)'
        /\ (handed \subseteq 1..head)' /\ (flight \in 0..head \cup {None})'
    BY <2>3
  <2>7. (held \in Seq(1..head))' /\ (deferred \in Seq(1..head))'
    BY <2>3
  <2>8. /\ (phase \in {"off", "read", "ready"})'
        /\ (serving \in {"none", "call", "head", "rows", "send"})'
    BY <2>3
  <2>9. (fetched \in [rows : Seq(1..head), more : BOOLEAN, min : (0..low) \cap (0..head)])'
    BY <2>1, <2>3
  <2> QED
    BY Zenon, <1>12, <2>2, <2>4, <2>5, <2>6, <2>7, <2>8, <2>9
<1>13. CASE SlowClose \/ Drop \/ Restart
  <2>1. Gone /\ calls' \in Nat /\ drops' \in Nat /\ unfanned' \subseteq unfanned
    BY SMTT(30), <1>13 DEF SlowClose, Drop, Restart, bounds
  <2> QED
    BY <1>12, <2>1
<1>14. CASE Rest
  BY <1>1, <1>14 DEF Rest, vars, outbox, session, client, bounds
<1> QED
  BY <1>6, <1>7, <1>8, <1>9, <1>10, <1>11, <1>13, <1>14

(* Every step keeps the types.                                               *)
LEMMA BaseStep == Base /\ OneSync /\ [Next]_vars => Base'
<1> SUFFICES ASSUME Base, OneSync, [Next]_vars PROVE Base'
  OBVIOUS
<1>1. CASE UNCHANGED vars
  BY <1>1 DEF Base, GoodFrames, vars, outbox, session, client, bounds
<1> QED
  BY <1>1, OutboxBase, SessionBase, ClientBase DEF Next

-----------------------------------------------------------------------------
(* One sync.since at a time.                                                 *)

Unique == \A i, j \in 1..Len(queue) : IsAnswer(queue[i]) /\ IsAnswer(queue[j]) => i = j

(* Frames that are no answers may be queued behind an answer.                *)
LEMMA QueueOthers ==
    ASSUME Base, NEW fs \in Seq(GoodFrames), \A i \in 1..Len(fs) : ~IsAnswer(fs[i]),
           Enqueue(fs)
    PROVE  (NoAnswer => NoAnswer') /\ (Unique => Unique')
<1>1. /\ queue \in Seq(GoodFrames) /\ queue' \in Seq(GoodFrames) /\ Len(queue) <= Len(queue')
      /\ \A i \in 1..Len(queue) : queue'[i] = queue[i]
      /\ \A i \in Len(queue) + 1..Len(queue') :
            i - Len(queue) \in 1..Len(fs) /\ queue'[i] = fs[i - Len(queue)]
  BY EnqueueAdds DEF Base
<1>2. \A i \in 1..Len(queue') : IsAnswer(queue'[i]) => i \in 1..Len(queue)
  <2> SUFFICES ASSUME NEW i \in 1..Len(queue'), i \notin 1..Len(queue)
               PROVE  ~IsAnswer(queue'[i])
    OBVIOUS
  <2>1. i \in Len(queue) + 1..Len(queue')
    BY <1>1
  <2> QED
    BY <1>1, <2>1
<1> QED
  BY <1>1, <1>2 DEF NoAnswer, Unique

(* What is left once a frame is taken.                                       *)
LEMMA QueueRest ==
    ASSUME Base, Unique, NEW t, Gets(t)
    PROVE  /\ NoAnswer \/ t \in {"page", "resync"} => NoAnswer'
           /\ Unique'
<1>1. /\ queue[1].t = t /\ Len(queue) \in Nat \ {0} /\ Len(queue') = Len(queue) - 1
      /\ \A i \in 1..Len(queue) - 1 : queue'[i] = queue[i + 1]
  BY Taken DEF Base, Gets
<1>2. \A i \in 1..Len(queue') : i + 1 \in 1..Len(queue) /\ queue'[i] = queue[i + 1]
  BY <1>1
<1>3. Unique'
  BY <1>1, <1>2 DEF Unique
<1>4. ASSUME NoAnswer PROVE NoAnswer'
  BY <1>1, <1>2, <1>4 DEF NoAnswer
<1>5. ASSUME t \in {"page", "resync"} PROVE NoAnswer'
  <2>1. IsAnswer(queue[1]) /\ 1 \in 1..Len(queue)
    BY <1>1, <1>5 DEF IsAnswer
  <2> QED
    BY <1>1, <1>2, <2>1 DEF NoAnswer, Unique
<1> QED
  BY <1>3, <1>4, <1>5

(* Fan, Attach and AnswerCall queue no answers to a sync.since.              *)
LEMMA Enqueues ==
    ASSUME Base, (\E n \in Seqs : Fan(n)) \/ Attach \/ AnswerCall
    PROVE  \/ UNCHANGED <<queue, closing>>
           \/ \E fs \in Seq(GoodFrames) : Enqueue(fs) /\ \A i \in 1..Len(fs) : ~IsAnswer(fs[i])
<1> USE EventStreamAssumption
<1>1. ASSUME NEW n \in Seqs, Fan(n)
      PROVE  \/ UNCHANGED <<queue, closing>>
             \/ \E fs \in Seq(GoodFrames) :
                   Enqueue(fs) /\ \A i \in 1..Len(fs) : ~IsAnswer(fs[i])
  <2>1. n \in 1..head
    BY <1>1 DEF Fan, Base
  <2>2. /\ <<Evt(n)>> \in Seq(GoodFrames)
        /\ \A i \in 1..Len(<<Evt(n)>>) : ~IsAnswer(<<Evt(n)>>[i])
    BY <2>1, EvtGood DEF Base
  <2>3. UNCHANGED <<queue, closing>> \/ Enqueue(<<Evt(n)>>)
    BY <1>1 DEF Fan
  <2> QED
    BY <2>2, <2>3
<1>2. CASE Attach
  <2> DEFINE fs == <<Frame("welcome", hostSeq)>>
  <2>1. fs \in Seq(GoodFrames) /\ \A i \in 1..Len(fs) : ~IsAnswer(fs[i])
    BY DEF Base, Frame, GoodFrames, Frames, IsAnswer
  <2>2. Enqueue(fs)
    BY <1>2 DEF Attach
  <2> HIDE DEF fs
  <2> QED
    BY <2>1, <2>2
<1>3. CASE AnswerCall
  <2> DEFINE fs == <<Frame("res", 0)>> \o Evts(deferred)
  <2>1. /\ Evts(deferred) \in Seq(GoodFrames)
        /\ \A i \in 1..Len(Evts(deferred)) : ~IsAnswer(Evts(deferred)[i])
    BY EvtsGood DEF Base, IsAnswer
  <2>2. Frame("res", 0) \in GoodFrames /\ ~IsAnswer(Frame("res", 0))
    BY DEF Base, Frame, GoodFrames, Frames, IsAnswer
  <2>3. fs \in Seq(GoodFrames) /\ \A i \in 1..Len(fs) : ~IsAnswer(fs[i])
    BY <2>1, <2>2
  <2>4. Enqueue(fs)
    BY <1>3 DEF AnswerCall
  <2> HIDE DEF fs
  <2> QED
    BY <2>3, <2>4
<1> QED
  BY <1>1, <1>2, <1>3

LEMMA OneSyncStep == IInv /\ [Next]_vars => OneSync'
<1> SUFFICES ASSUME IInv, [Next]_vars PROVE OneSync'
  OBVIOUS
<1>0. Base /\ OneSync /\ Hello /\ Unique
  BY DEF IInv, OneSync, Unique
<1> USE <1>0, EventStreamAssumption DEF OneSync, SyncSteps, Unique
<1>a. last # None /\ \A k \in 0..head : k # None
  BY DEF Base
<1>1. ASSUME UNCHANGED <<queue, asked, flight>>, serving' \in SyncSteps => serving \in SyncSteps
      PROVE  OneSync'
  BY <1>1 DEF NoAnswer
<1>2. ASSUME NEW fs \in Seq(GoodFrames), \A i \in 1..Len(fs) : ~IsAnswer(fs[i]),
             Enqueue(fs), UNCHANGED <<asked, flight>>,
             serving' \in SyncSteps => serving \in SyncSteps
      PROVE  OneSync'
  BY <1>2, QueueOthers
<1>3. ASSUME NEW t, Gets(t), t \notin {"page", "resync"}, UNCHANGED serving,
             UNCHANGED <<asked, flight>> \/ (flight = None /\ flight' # None)
      PROVE  OneSync'
  BY <1>3, QueueRest
<1>4. ASSUME NEW t, Gets(t), t \in {"page", "resync"}, UNCHANGED serving,
             flight' # None \/ UNCHANGED asked
      PROVE  OneSync'
  <2>1. ~NoAnswer
    <3>1. 1 \in 1..Len(queue) /\ queue[1].t = t
      BY <1>4, Taken DEF Base, Gets
    <3> QED
      BY <1>4, <3>1 DEF NoAnswer, IsAnswer
  <2>2. ~asked /\ serving \notin SyncSteps
    BY <2>1
  <2>3. NoAnswer' /\ Unique'
    BY <1>4, QueueRest
  <2> QED
    BY <1>4, <2>2, <2>3
<1>5. CASE Append1 \/ (\E p \in Seqs \cup {MaxSeq + 1} : Prune(p)) \/ Connect \/ TakeCall
           \/ Call \/ Rest \/ UNCHANGED vars
  <2>1. UNCHANGED <<queue, asked, flight>> /\ (serving' = serving \/ serving' = "call")
    BY <1>5 DEF Append1, Prune, Connect, TakeCall, Call, Rest, vars, session, client
  <2> QED
    BY <2>1 DEF NoAnswer
<1>6. CASE (\E n \in Seqs : Fan(n)) \/ Attach \/ AnswerCall
  <2>1. UNCHANGED <<asked, flight>> /\ (serving' = serving \/ serving' = "none")
    BY <1>6 DEF Fan, Attach, AnswerCall, client
  <2>2. CASE UNCHANGED queue
    BY <1>1, <2>1, <2>2
  <2>3. CASE \E fs \in Seq(GoodFrames) : Enqueue(fs) /\ \A i \in 1..Len(fs) : ~IsAnswer(fs[i])
    BY <1>2, <2>1, <2>3
  <2> QED
    BY <1>6, <2>2, <2>3, Enqueues
<1>7. CASE TakeSync
  BY <1>7 DEF TakeSync, NoAnswer
<1>8. CASE ReadHead \/ ReadRows
  BY <1>8 DEF ReadHead, ReadRows, NoAnswer, client
<1>9. CASE SendPage
  <2>1. serving = "send" /\ serving' = "none" /\ UNCHANGED <<asked, flight>>
    BY <1>9 DEF SendPage, client
  <2>2. PICK fs \in Seq(GoodFrames) :
           Enqueue(fs) /\ \A i \in 1..Len(fs) : IsAnswer(fs[i]) => i = 1
    BY <1>9, SentPage
  <2>3. /\ queue' \in Seq(GoodFrames) /\ Len(queue) <= Len(queue')
        /\ \A i \in 1..Len(queue) : queue'[i] = queue[i]
        /\ \A i \in Len(queue) + 1..Len(queue') :
              i - Len(queue) \in 1..Len(fs) /\ queue'[i] = fs[i - Len(queue)]
    BY <2>2, EnqueueAdds DEF Base
  <2>4. \A i \in 1..Len(queue') : IsAnswer(queue'[i]) => i = Len(queue) + 1
    <3> SUFFICES ASSUME NEW i \in 1..Len(queue'), IsAnswer(queue'[i])
                 PROVE  i = Len(queue) + 1
      OBVIOUS
    <3>0. Len(queue) \in Nat /\ Len(queue') \in Nat
      BY <2>3 DEF Base
    <3>1. i \notin 1..Len(queue)
      BY <2>1, <2>3 DEF NoAnswer
    <3>2. i \in Len(queue) + 1..Len(queue')
      BY <3>0, <3>1
    <3>3. i - Len(queue) = 1
      BY <2>2, <2>3, <3>2
    <3> QED
      BY <3>0, <3>3
  <2>5. flight # None /\ ~asked
    BY <2>1
  <2> QED
    BY <2>1, <2>4, <2>5
<1>10. CASE GetWelcome
  <2>1. Gets("welcome") /\ UNCHANGED serving
    BY <1>10 DEF GetWelcome, SessionButQueue
  <2>2. PICK q \in 0..head : CatchUp(q)
    <3>1. Head(queue) \in GoodFrames /\ Head(queue).t = "welcome"
      BY <2>1, Taken DEF Base, Gets
    <3>2. Head(queue).s \in 0..head
      BY <3>1 DEF GoodFrames, Frames
    <3> DEFINE h == Head(queue).s
               now == CASE h < last -> 0
                        [] h >= last /\ ~welcomed /\ last = 0 -> h
                        [] OTHER -> last
    <3>3. now \in 0..head
      BY <3>2 DEF Base
    <3>4. CatchUp(now)
      BY <1>10 DEF GetWelcome
    <3> HIDE DEF now
    <3> QED
      BY <3>3, <3>4
  <2>3. UNCHANGED <<asked, flight>> \/ (flight = None /\ flight' # None)
    BY <1>a, <2>2 DEF CatchUp, Ask
  <2> QED
    BY <1>3, <2>1, <2>3
<1>11. CASE GetEvent
  <2>1. Gets("evt") /\ UNCHANGED serving
    BY <1>11 DEF GetEvent, SessionButQueue
  <2>2. \/ UNCHANGED <<asked, flight>> \/ CatchUp(last)
        \/ flight = None /\ flight' = last
    BY <1>11 DEF GetEvent, client
  <2>3. UNCHANGED <<asked, flight>> \/ (flight = None /\ flight' # None)
    BY <1>a, <2>2 DEF CatchUp, Ask
  <2> QED
    BY <1>3, <2>1, <2>3
<1>12. CASE GetPage
  <2>1. Gets("page") /\ UNCHANGED serving
    BY <1>12 DEF GetPage, SessionButQueue
  <2>2. Head(queue).s \in 0..head
    <3>1. Head(queue) \in GoodFrames /\ Head(queue).t = "page"
      BY <2>1, Taken DEF Base, Gets
    <3> QED
      BY <3>1 DEF GoodFrames, Frames
  <2>3. flight' # None \/ UNCHANGED asked
    BY <1>a, <1>12, <2>2 DEF GetPage, Ask
  <2> QED
    BY <1>4, <2>1, <2>3
<1>13. CASE GetResync
  <2>1. Gets("resync") /\ UNCHANGED serving
    BY <1>13 DEF GetResync, SessionButQueue
  <2>2. Head(queue).s - 1 \in Nat
    <3>1. Head(queue) \in GoodFrames /\ Head(queue).t = "resync"
      BY <2>1, Taken DEF Base, Gets
    <3>2. Head(queue).s \in 1..low
      BY <3>1 DEF GoodFrames
    <3> QED
      BY SMTT(30), <3>2 DEF Base
  <2>3. flight' # None
    BY <1>13, <2>2 DEF GetResync, Ask
  <2> QED
    BY <1>4, <2>1, <2>3
<1>14. CASE GetAnswer
  <2>1. Gets("res") /\ UNCHANGED serving /\ UNCHANGED <<asked, flight>>
    BY <1>14 DEF GetAnswer, SessionButQueue, client
  <2> QED
    BY <1>3, <2>1
<1>15. CASE SlowClose \/ Drop \/ Restart
  <2>1. queue' = <<>> /\ ~asked' /\ serving' = "none" /\ flight' = None
    BY <1>15 DEF SlowClose, Drop, Restart, Gone
  <2>2. 1..Len(queue') = {}
    BY <2>1
  <2>3. NoAnswer' /\ Unique'
    BY <2>2 DEF NoAnswer
  <2> QED
    BY <2>1, <2>3
<1> HIDE DEF OneSync
<1> QED
  BY <1>5, <1>6, <1>7, <1>8, <1>9, <1>10, <1>11, <1>12, <1>13, <1>14, <1>15
  DEF Next

-----------------------------------------------------------------------------
(* The welcome comes first.                                                  *)

(* A frame other than the welcome finds the client welcomed.                 *)
LEMMA WelcomedBefore ==
    ASSUME Base, Hello, NEW t, Gets(t), t # "welcome"
    PROVE  welcomed
BY Taken DEF Base, Hello, Gets

LEMMA HelloStep == IInv /\ [Next]_vars => Hello'
<1> SUFFICES ASSUME IInv, [Next]_vars PROVE Hello'
  OBVIOUS
<1>0. Base /\ Hello
  BY DEF IInv
<1> USE <1>0, EventStreamAssumption DEF Hello
<1>1. ASSUME NEW fs \in Seq(GoodFrames), Enqueue(fs), phase = "ready",
             UNCHANGED <<phase, last, welcomed>>
      PROVE  Hello'
  <2>1. /\ queue \in Seq(GoodFrames) /\ queue' \in Seq(GoodFrames)
        /\ Len(queue) <= Len(queue') /\ \A i \in 1..Len(queue) : queue'[i] = queue[i]
    BY <1>1, EnqueueAdds DEF Base
  <2>2. ASSUME ~welcomed PROVE queue' # <<>> /\ queue'[1].t = "welcome"
    <3>1. 1 \in 1..Len(queue)
      BY <1>1, <2>1, <2>2
    <3> QED
      BY <1>1, <2>1, <2>2, <3>1
  <2> QED
    BY <1>1, <2>2
<1>2. CASE \/ Append1 \/ (\E p \in Seqs \cup {MaxSeq + 1} : Prune(p))
           \/ Connect \/ TakeCall \/ TakeSync \/ Call \/ Rest \/ UNCHANGED vars
  <2>1. /\ UNCHANGED <<queue, closing, last, welcomed>>
        /\ phase' = phase \/ (phase = "off" /\ phase' = "read")
        /\ phase # "ready" => serving' = serving
    BY <1>2 DEF Append1, Prune, Connect, TakeCall, TakeSync, Call, Rest, vars, session, client
  <2> QED
    BY <2>1
<1>3. ASSUME NEW n \in Seqs, Fan(n) PROVE Hello'
  <2>1. n \in 1..head /\ UNCHANGED <<phase, last, welcomed, serving>>
    BY <1>3 DEF Fan, Base, client
  <2>2. CASE UNCHANGED <<queue, closing>>
    BY <2>1, <2>2
  <2>3. CASE Enqueue(<<Evt(n)>>) /\ phase = "ready"
    <3>1. <<Evt(n)>> \in Seq(GoodFrames)
      BY <2>1, EvtGood DEF Base
    <3> QED
      BY <1>1, <2>1, <2>3, <3>1
  <2> QED
    BY <1>3, <2>2, <2>3 DEF Fan
<1>4. CASE Attach
  <2>1. /\ phase' = "ready" /\ UNCHANGED <<last, welcomed>> /\ queue = <<>> /\ ~closing
        /\ Enqueue(<<Frame("welcome", hostSeq)>>)
    BY <1>4 DEF Attach, client
  <2>2. QueueLimit - Len(queue) = QueueLimit /\ QueueLimit > 1
    BY <2>1
  <2> DEFINE f == Frame("welcome", hostSeq)
  <2>3. f.t = "welcome"
    BY DEF Frame
  <2>4. queue' = <<>> \o SubSeq(<<f>>, 1, 1)
    BY <2>1, <2>2 DEF Enqueue
  <2> HIDE DEF f
  <2> DEFINE g == SubSeq(<<f>>, 1, 1)
  <2>5. g \in Seq({f}) /\ Len(g) = 1 /\ g[1] = f
    OBVIOUS
  <2> HIDE DEF g
  <2>6. queue' # <<>> /\ queue'[1] = f
    BY <2>4, <2>5 DEF g
  <2> QED
    BY <2>1, <2>3, <2>6
<1>5. CASE AnswerCall
  <2>1. <<Frame("res", 0)>> \o Evts(deferred) \in Seq(GoodFrames)
    <3>1. <<Frame("res", 0)>> \in Seq(GoodFrames)
      BY DEF Frame, GoodFrames, Frames
    <3> QED
      BY <3>1, EvtsGood DEF Base
  <2>2. /\ Enqueue(<<Frame("res", 0)>> \o Evts(deferred)) /\ serving = "call"
        /\ UNCHANGED <<phase, last, welcomed>>
    BY <1>5 DEF AnswerCall, client
  <2>3. phase = "ready"
    BY <2>2
  <2> QED
    BY <1>1, <2>1, <2>2, <2>3
<1>6. CASE ReadHead \/ ReadRows
  <2>1. UNCHANGED <<queue, closing, last, welcomed, phase>> /\ serving # "none"
    BY <1>6 DEF ReadHead, ReadRows, client
  <2> QED
    BY <2>1
<1>7. CASE SendPage
  <2>1. serving = "send" /\ phase = "ready" /\ UNCHANGED <<phase, last, welcomed>>
    BY <1>7 DEF SendPage, client
  <2>2. PICK fs \in Seq(GoodFrames) : Enqueue(fs)
    BY <1>7, SentPage
  <2> QED
    BY <1>1, <2>1, <2>2
<1>8. CASE GetWelcome
  <2>1. Gets("welcome") /\ welcomed' /\ UNCHANGED <<phase, serving, closing>>
    BY <1>8 DEF GetWelcome, SessionButQueue
  <2>2. phase = "ready"
    BY <2>1 DEF Gets
  <2> QED
    BY <2>1, <2>2
<1>9. CASE GetEvent \/ GetPage \/ GetResync \/ GetAnswer
  <2>1. PICK t : Gets(t) /\ t # "welcome"
    <3>1. "evt" # "welcome" /\ "page" # "welcome" /\ "resync" # "welcome" /\ "res" # "welcome"
      OBVIOUS
    <3> QED
      BY <1>9, <3>1 DEF GetEvent, GetPage, GetResync, GetAnswer
  <2>2. UNCHANGED <<phase, serving, closing, welcomed>>
    BY <1>9 DEF GetEvent, GetPage, GetResync, GetAnswer, SessionButQueue, client
  <2>3. welcomed /\ phase = "ready"
    BY <2>1, WelcomedBefore DEF Gets
  <2> QED
    BY <2>2, <2>3
<1>10. CASE SlowClose \/ Drop \/ Restart
  <2>1. /\ queue' = <<>> /\ serving' = "none" /\ ~closing' /\ phase' = "off"
        /\ UNCHANGED <<last, welcomed>>
    BY <1>10 DEF SlowClose, Drop, Restart, Gone
  <2> QED
    BY <2>1
<1> HIDE DEF Hello
<1> QED
  BY <1>2, <1>3, <1>4, <1>5, <1>6, <1>7, <1>8, <1>9, <1>10 DEF Next

-----------------------------------------------------------------------------
(* A new host has stored, sent and asked for nothing.                        *)
LEMMA InitIInv == Init => IInv
<1> SUFFICES ASSUME Init PROVE IInv
  OBVIOUS
<1>1. Base
  BY BaseInit
<1>2. queue = <<>> /\ 1..Len(queue) = {} /\ ~asked /\ serving = "none"
  BY DEF Init
<1>3. OneSync
  BY <1>2 DEF OneSync, NoAnswer, SyncSteps
<1>4. Hello
  BY DEF Init, Hello
<1> QED
  BY <1>1, <1>3, <1>4 DEF IInv

(* The invariant holds in every reachable state.                             *)
THEOREM StreamInductive == Spec => []IInv
<1>1. IInv /\ [Next]_vars => IInv'
  BY BaseStep, OneSyncStep, HelloStep DEF IInv
<1> QED
  BY <1>1, InitIInv, PTL DEF Spec

(* Types; Session.enqueue never queues more than session_queue_limit frames   *)
(* and the client never buffers more than EVENT_BUFFER_CAP events.           *)
THEOREM StreamTypes == Spec => []TypeOK
<1>1. IInv => TypeOK
  <2> SUFFICES ASSUME IInv PROVE TypeOK
    OBVIOUS
  <2> USE EventStreamAssumption DEF IInv, Base
  <2>1. 1..head \subseteq Seqs /\ 0..head \subseteq 0..MaxSeq
    BY DEF Seqs
  <2>2. held \in Seq(Seqs) /\ deferred \in Seq(Seqs) /\ fetched.rows \in Seq(Seqs)
    BY <2>1, SeqGrows
  <2>3. queue \in Seq(Frames)
    BY SeqGrows DEF GoodFrames
  <2>4. fetched \in [rows : Seq(Seqs), more : BOOLEAN, min : 0..MaxSeq]
    <3>1. fetched = [rows |-> fetched.rows, more |-> fetched.more, min |-> fetched.min]
      OBVIOUS
    <3> QED
      BY <2>1, <2>2, <3>1
  <2> QED
    BY <2>1, <2>2, <2>3, <2>4 DEF TypeOK
<1> QED
  BY <1>1, StreamInductive, PTL

-----------------------------------------------------------------------------
(* Every step of the stream is a step of the feed or leaves it alone.        *)
LEMMA FeedStep == IInv /\ [Next]_vars => [Feed!FeedNext]_Feed!feedVars
<1> SUFFICES ASSUME IInv, [Next]_vars PROVE [Feed!FeedNext]_Feed!feedVars
  OBVIOUS
<1>0. Base /\ OneSync /\ Hello
  BY DEF IInv
<1> USE <1>0, EventStreamAssumption
<1>1. ASSUME UNCHANGED <<head, low, welcomed, last, handed>> PROVE UNCHANGED Feed!feedVars
  BY <1>1 DEF Feed!feedVars
<1>2. CASE Append1
  BY <1>2 DEF Append1, client, Feed!FeedNext, Feed!Publish
<1>3. ASSUME NEW p \in Seqs \cup {MaxSeq + 1}, Prune(p) PROVE Feed!Lapse
  BY <1>3 DEF Prune, client, Feed!Lapse
<1>4. CASE \/ (\E n \in Seqs : Fan(n))
           \/ Connect \/ Attach \/ TakeCall \/ AnswerCall \/ TakeSync \/ ReadHead \/ ReadRows
           \/ SendPage \/ GetPage \/ GetAnswer \/ Call \/ SlowClose \/ Drop \/ Restart \/ Rest
           \/ UNCHANGED vars
  <2>1. UNCHANGED <<head, low, welcomed, last, handed>>
    BY <1>4 DEF Fan, Connect, Attach, TakeCall, AnswerCall, TakeSync, ReadHead, ReadRows,
       SendPage, GetPage, GetAnswer, Call, SlowClose, Drop, Restart, Gone, Rest, vars,
       outbox, client
  <2> QED
    BY <1>1, <2>1
<1>5. CASE GetWelcome
  <2> DEFINE h == Head(queue).s
             now == CASE h < last -> 0
                      [] h >= last /\ ~welcomed /\ last = 0 -> h
                      [] OTHER -> last
  <2>1. /\ Gets("welcome") /\ UNCHANGED <<head, low, handed>> /\ welcomed' = TRUE
        /\ last' = now
    BY <1>5 DEF GetWelcome, outbox
  <2>2. h \in 0..head /\ last \in 0..head /\ head \in Nat /\ low \in Nat \ {0}
    <3>1. Head(queue) \in GoodFrames /\ Head(queue).t = "welcome"
      BY <2>1, Taken DEF Base, Gets
    <3> QED
      BY <3>1 DEF GoodFrames, Frames, Base
  <2>3. CASE ~welcomed
    <3>1. last = 0
      BY <2>3 DEF Hello
    <3>2. now = h
      BY <2>2, <2>3, <3>1
    <3> QED
      BY <2>1, <2>2, <2>3, <3>2 DEF Feed!FeedNext, Feed!Join
  <2>4. CASE welcomed /\ h < last
    <3>1. now = 0
      BY <2>2, <2>4
    <3>2. 0 \in 0..low - 1
      BY <2>2
    <3>3. welcomed' = welcomed
      BY <2>1, <2>4 DEF Base
    <3> HIDE DEF now
    <3> QED
      BY <2>1, <2>4, <3>1, <3>2, <3>3 DEF Feed!FeedNext, Feed!Resync
  <2>5. CASE welcomed /\ ~(h < last)
    <3>1. now = last
      BY <2>2, <2>5
    <3>2. welcomed' = welcomed
      BY <2>1, <2>5 DEF Base
    <3> QED
      BY <1>1, <2>1, <3>1, <3>2
  <2> QED
    BY <2>3, <2>4, <2>5
<1>6. CASE GetEvent
  <2>1. Gets("evt") /\ UNCHANGED <<head, low>>
    BY <1>6, EventTaken DEF outbox
  <2>2. welcomed
    BY <2>1, WelcomedBefore
  <2>3. PICK upto \in last..head :
            \/ UNCHANGED <<last, handed, welcomed>>
            \/ /\ last' = upto /\ handed' = handed \cup (last + 1..upto) /\ UNCHANGED welcomed
    <3>1. PICK n \in 1..head, upto \in last..head :
              (n <= last /\ UNCHANGED client) \/ Empties(n) \/ HandsOn(n, upto)
      BY <1>6, EventTaken
    <3> QED
      BY <3>1 DEF client, Empties, HandsOn
  <2>4. CASE last' = upto /\ handed' = handed \cup (last + 1..upto) /\ UNCHANGED welcomed
    <3>1. CASE upto = last
      <4>1. last + 1..last = {}
        BY DEF Base
      <4> QED
        BY <1>1, <2>1, <2>4, <3>1, <4>1
    <3>2. CASE upto # last
      <4>1. last' \in last + 1..head /\ handed' = handed \cup (last + 1..last')
        BY <2>4, <3>2 DEF Base
      <4> QED
        BY <2>1, <2>2, <2>4, <4>1 DEF Feed!FeedNext, Feed!Hand
    <3> QED
      BY <3>1, <3>2
  <2> QED
    BY <1>1, <2>1, <2>3, <2>4
<1>7. CASE GetResync
  <2>1. /\ Gets("resync") /\ UNCHANGED <<head, low, welcomed, handed>>
        /\ last' = Head(queue).s - 1
    BY <1>7 DEF GetResync, outbox
  <2>2. welcomed
    BY <2>1, WelcomedBefore
  <2>3. Head(queue).s \in 1..low
    <3>1. Head(queue) \in GoodFrames /\ Head(queue).t = "resync"
      BY <2>1, Taken DEF Base, Gets
    <3> QED
      BY <3>1 DEF GoodFrames
  <2>4. last' \in 0..low - 1
    BY SMTT(30), <2>1, <2>3 DEF Base
  <2> QED
    BY <2>1, <2>2, <2>4 DEF Feed!FeedNext, Feed!Resync
<1> QED
  BY <1>2, <1>3, <1>4, <1>5, <1>6, <1>7 DEF Next, Feed!FeedNext

(* Whatever is lost, held back, pruned or asked for twice, the client passes  *)
(* no event in silence: the stream implements EventFeed.                     *)
THEOREM StreamImplementsFeed == Spec => ImplementsFeed
<1>1. Init => Feed!FeedInit
  BY DEF Init, Feed!FeedInit
<1> QED
  BY <1>1, StreamInductive, FeedStep, PTL DEF Spec, ImplementsFeed, Feed!FeedSpec

-----------------------------------------------------------------------------
(* What the client lacks is on its way.                                      *)

(* An event frame behind position p of the queue, one that comes there by and *)
(* by, and what sync_since is about to send of the rows it has read.         *)
Queued(n, p) == \E i \in 1..Len(queue) : i > p /\ queue[i].t = "evt" /\ queue[i].s = n

Comes(n, p) == Queued(n, p) \/ n \in unfanned \/ \E i \in 1..Len(deferred) : deferred[i] = n

WillSend(n) == Sends(n) \/ (n > High /\ n \in unfanned)

(* The buffer begins behind the next event; frames are deferred during a      *)
(* call only.                                                               *)
Gap ==
    /\ last + 1 \notin buffered
    /\ ~welcomed => buffered = {}
    /\ serving # "call" => deferred = <<>>

(* A replay from a place ahead of the client: the event at that place is on   *)
(* its way, before the answer, or the client has noted that it must ask again. *)
NoJump ==
    ~closing /\ flight # None /\ flight > last /\ ~again =>
        \E i \in 1..Len(queue) :
            /\ queue[i].t = "evt" /\ queue[i].s = flight
            /\ \A j \in 1..Len(queue) : IsAnswer(queue[j]) => i < j

(* The rows read, and the page sent, when there are more: the place where the *)
(* next page begins is ahead, and its event is sent behind the page.         *)
MoreRead ==
    ~closing /\ serving = "send" /\ fetched.more => fetched.rows # <<>> /\ High > flight

MorePages ==
    ~closing => \A p \in 1..Len(queue) :
        queue[p].t = "page" /\ queue[p].more => queue[p].s > flight /\ Queued(queue[p].s, p)

(* The rows read, and the page sent, when there are no more: every stored     *)
(* event above the replay's start comes behind the page, and so does what is *)
(* missing below an event that the client gets before the page.              *)
LastRead ==
    ~closing /\ serving = "send" /\ ~fetched.more /\ fetched.min = 0 =>
        \A b \in low..head : \A m \in flight + 1..b :
            m = b \/ b \in buffered \/ Queued(b, 0) => WillSend(m)

SentBefore(b, p) == \E i \in 1..Len(queue) : i < p /\ queue[i].t = "evt" /\ queue[i].s = b

LastPage ==
    ~closing => \A p \in 1..Len(queue) :
        queue[p].t = "page" /\ ~queue[p].more =>
            \A b \in low..head : \A m \in flight + 1..b :
                m = b \/ b \in buffered \/ SentBefore(b, p) => Comes(m, p)

(* Without a replay: what the client lacks is in its buffer or on its way.    *)
Unwelcomed == \E i \in 1..Len(queue) : queue[i].t = "welcome"

Settled ==
    phase = "ready" /\ ~closing /\ flight = None /\ ~Unwelcomed =>
        \A b \in low..head : \A m \in last + 1..b :
            m = b \/ b \in buffered => m \in buffered \/ Comes(m, 0)

Cover == IInv /\ Gap /\ NoJump /\ MoreRead /\ MorePages /\ LastRead /\ LastPage /\ Settled

-----------------------------------------------------------------------------
(* A session that stays open has queued every frame.                         *)
LEMMA EnqueueAll ==
    ASSUME Base, NEW fs \in Seq(GoodFrames), Enqueue(fs), ~closing'
    PROVE  /\ ~closing /\ Len(queue) \in Nat /\ Len(fs) \in Nat
           /\ Len(queue') = Len(queue) + Len(fs)
           /\ \A i \in 1..Len(queue) : queue'[i] = queue[i]
           /\ \A i \in 1..Len(fs) : queue'[Len(queue) + i] = fs[i]
<1> USE EventStreamAssumption
<1> DEFINE room == QueueLimit - Len(queue)
           k == IF Len(fs) < room THEN Len(fs) ELSE room
<1>1. ~closing
  BY DEF Enqueue
<1>2. queue \in Seq(GoodFrames) /\ room \in Nat
  BY DEF Base
<1>3. queue' = queue \o SubSeq(fs, 1, k) /\ closing' = (Len(fs) > room)
  BY <1>1 DEF Enqueue
<1>4. k = Len(fs)
  <2>1. ~(Len(fs) > room)
    BY <1>3
  <2> QED
    BY <1>2, <2>1
<1> HIDE DEF k, room
<1>5. /\ SubSeq(fs, 1, Len(fs)) \in Seq(GoodFrames) /\ Len(SubSeq(fs, 1, Len(fs))) = Len(fs)
      /\ \A i \in 1..Len(fs) : SubSeq(fs, 1, Len(fs))[i] = fs[i]
  OBVIOUS
<1> QED
  BY <1>1, <1>2, <1>3, <1>4, <1>5

(* Comes and SentBefore live through a frame sent...                         *)
LEMMA Behind ==
    ASSUME Base, NEW fs \in Seq(GoodFrames), Enqueue(fs), ~closing', NEW n, NEW p \in Nat
    PROVE  /\ Queued(n, p) => Queued(n, p)'
           /\ p <= Len(queue) + 1 => (SentBefore(n, p)' <=> SentBefore(n, p))
           /\ Unwelcomed => Unwelcomed'
           /\ \A i \in 1..Len(fs) :
                 p < Len(queue) + i /\ fs[i].t = "evt" /\ fs[i].s = n => Queued(n, p)'
<1>1. /\ Len(queue) \in Nat /\ Len(fs) \in Nat /\ Len(queue') = Len(queue) + Len(fs)
      /\ \A i \in 1..Len(queue) : i \in 1..Len(queue') /\ queue'[i] = queue[i]
      /\ \A i \in 1..Len(fs) : Len(queue) + i \in 1..Len(queue')
                             /\ queue'[Len(queue) + i] = fs[i]
  BY EnqueueAll
<1>2. Queued(n, p) => Queued(n, p)'
  BY <1>1 DEF Queued
<1>3. p <= Len(queue) + 1 => (SentBefore(n, p)' <=> SentBefore(n, p))
  <2> SUFFICES ASSUME p <= Len(queue) + 1 PROVE SentBefore(n, p)' <=> SentBefore(n, p)
    OBVIOUS
  <2>1. \A i \in 1..Len(queue') : i < p => i \in 1..Len(queue)
    BY <1>1
  <2> QED
    BY <1>1, <2>1 DEF SentBefore
<1>4. Unwelcomed => Unwelcomed'
  BY <1>1 DEF Unwelcomed
<1>5. ASSUME NEW i \in 1..Len(fs), p < Len(queue) + i, fs[i].t = "evt", fs[i].s = n
      PROVE  Queued(n, p)'
  BY <1>1, <1>5 DEF Queued
<1> QED
  BY <1>2, <1>3, <1>4, <1>5

(* ...and a frame taken.                                                     *)
LEMMA Ahead ==
    ASSUME Base, NEW t, Gets(t), UNCHANGED <<unfanned, deferred>>, NEW n, NEW p \in Nat
    PROVE  /\ Queued(n, p)' => Queued(n, p + 1)
           /\ SentBefore(n, p)' => SentBefore(n, p + 1)
           /\ Queued(n, p + 1) => Queued(n, p)'
           /\ Comes(n, p + 1) => Comes(n, p)'
           /\ Comes(n, 0) /\ ~(t = "evt" /\ queue[1].s = n) => Comes(n, 0)'
           /\ Unwelcomed /\ t # "welcome" => Unwelcomed'
<1>1. /\ Len(queue) \in Nat \ {0} /\ Len(queue') = Len(queue) - 1 /\ queue[1].t = t
      /\ \A i \in 1..Len(queue') : queue'[i] = queue[i + 1]
  BY Popped
<1>2. \A i \in 1..Len(queue) : i # 1 => i - 1 \in 1..Len(queue') /\ queue'[i - 1] = queue[i]
  <2> TAKE i \in 1..Len(queue)
  <2> HAVE i # 1
  <2>1. i - 1 \in 1..Len(queue') /\ i - 1 + 1 = i
    BY <1>1
  <2> QED
    BY <1>1, <2>1
<1>3. Queued(n, p)' => Queued(n, p + 1)
  BY <1>1 DEF Queued
<1>4. SentBefore(n, p)' => SentBefore(n, p + 1)
  <2> SUFFICES ASSUME SentBefore(n, p)' PROVE SentBefore(n, p + 1)
    OBVIOUS
  <2>1. PICK i \in 1..Len(queue') : i < p /\ queue'[i].t = "evt" /\ queue'[i].s = n
    BY DEF SentBefore
  <2>2. i + 1 \in 1..Len(queue) /\ i + 1 < p + 1 /\ queue[i + 1] = queue'[i]
    BY <1>1, <2>1
  <2> QED
    BY <2>1, <2>2 DEF SentBefore
<1>5. Queued(n, p + 1) => Queued(n, p)'
  BY <1>1, <1>2 DEF Queued
<1>6. Queued(n, 0) /\ ~(t = "evt" /\ queue[1].s = n) => Queued(n, 0)'
  BY <1>1, <1>2 DEF Queued
<1>7. Unwelcomed /\ t # "welcome" => Unwelcomed'
  BY <1>1, <1>2 DEF Unwelcomed
<1> QED
  BY <1>3, <1>4, <1>5, <1>6, <1>7 DEF Comes

(* A frame taken by the client: the answer to a sync.since is the only one    *)
(* that can end the replay, and an event the only one that can be buffered.  *)
LEMMA Takes ==
    ASSUME IInv, GetWelcome \/ GetEvent \/ GetPage \/ GetResync \/ GetAnswer
    PROVE  /\ Gets(queue[1].t)
           /\ UNCHANGED <<head, low, unfanned, phase, hostSeq, serving, syncHead, fetched, held,
                          deferred, closing>>
           /\ flight # None /\ ~IsAnswer(queue[1]) => flight' = flight
           /\ \A n \in buffered' : n \in buffered \/ (queue[1].t = "evt" /\ queue[1].s = n)
<1>0. Base
  BY DEF IInv
<1>1. PICK t : Gets(t)
  BY DEF GetWelcome, GetEvent, GetPage, GetResync, GetAnswer
<1>2. Head(queue) = queue[1] /\ queue[1].t = t
  BY <1>0, <1>1, Popped
<1>3. Gets(queue[1].t)
  BY <1>1, <1>2
<1>4. UNCHANGED <<head, low, unfanned, phase, hostSeq, serving, syncHead, fetched, held, deferred,
                  closing>>
  BY DEF GetWelcome, GetEvent, GetPage, GetResync, GetAnswer, SessionButQueue, outbox
<1>5. ASSUME flight # None, ~IsAnswer(queue[1]) PROVE flight' = flight
  <2>1. ~Gets("page") /\ ~Gets("resync")
    BY <1>2, <1>5 DEF IsAnswer, Gets
  <2>2. GetWelcome \/ GetEvent \/ GetAnswer
    BY <2>1 DEF GetPage, GetResync
  <2> QED
    BY <1>5, <2>2 DEF GetWelcome, GetEvent, GetAnswer, CatchUp, client
<1>6. \A n \in buffered' : n \in buffered \/ (queue[1].t = "evt" /\ queue[1].s = n)
  <2>1. CASE GetEvent
    BY <1>2, <2>1 DEF GetEvent, Gets, client
  <2>2. CASE ~GetEvent
    BY <2>2 DEF GetWelcome, GetPage, GetResync, GetAnswer, client
  <2> QED
    BY <2>1, <2>2
<1> QED
  BY <1>3, <1>4, <1>5, <1>6

(* While sync_since is about to send what it has read, live events are held,  *)
(* the queue only shrinks, and the client stays in its replay.               *)
LEMMA SendStays ==
    ASSUME IInv, [Next]_vars, ~ReadRows, serving' = "send", ~closing'
    PROVE  /\ serving = "send" /\ ~closing /\ UNCHANGED <<fetched, syncHead, flight>>
           /\ low <= low' /\ (head' = head \/ (head' = head + 1 /\ WillSend(head)'))
           /\ \A n : WillSend(n) => WillSend(n)'
           /\ \A n : Queued(n, 0)' => Queued(n, 0)
           /\ \A n \in buffered' : n \in buffered \/ Queued(n, 0)
<1>0. Base /\ OneSync /\ Hello
  BY DEF IInv
<1>a. UNCHANGED queue => \A n : Queued(n, 0)' => Queued(n, 0)
  BY DEF Queued
<1>b. UNCHANGED <<fetched, syncHead, unfanned, held>> => \A n : WillSend(n) => WillSend(n)'
  BY DEF WillSend, Sends, High
<1>1. CASE Append1
  <2>1. /\ UNCHANGED <<low, session, client>>
        /\ head' = head + 1 /\ unfanned' = unfanned \cup {head + 1}
    BY <1>1 DEF Append1
  <2>2. UNCHANGED <<serving, closing, fetched, syncHead, flight, queue, held, buffered>>
    BY <2>1 DEF session, client
  <2>3. High \in 0..head /\ head \in Nat /\ low \in Nat
    BY <1>0, HighType DEF Base
  <2>4. WillSend(head)'
    <3>1. High' = High
      BY <2>2 DEF High
    <3>2. head' > High /\ head' \in unfanned'
      BY <2>1, <2>3
    <3> QED
      BY <3>1, <3>2 DEF WillSend
  <2>5. \A n : WillSend(n) => WillSend(n)'
    BY <2>1, <2>2 DEF WillSend, Sends, High
  <2> QED
    BY <1>a, <2>1, <2>2, <2>3, <2>4, <2>5
<1>2. ASSUME NEW p \in Seqs \cup {MaxSeq + 1}, Prune(p)
      PROVE  /\ low <= low' /\ UNCHANGED <<head, unfanned, session, client>>
  BY <1>0, <1>2, EventStreamAssumption DEF Prune, Base, Seqs
<1>3. CASE (\E p \in Seqs \cup {MaxSeq + 1} : Prune(p)) \/ Call \/ Rest \/ UNCHANGED vars
  <2>1. /\ low <= low'
        /\ UNCHANGED <<head, unfanned, serving, closing, fetched, syncHead, flight, queue, held,
                       buffered>>
    <3>1. CASE \E p \in Seqs \cup {MaxSeq + 1} : Prune(p)
      BY <1>2, <3>1 DEF session, client
    <3>2. CASE Call \/ Rest \/ UNCHANGED vars
      BY <1>0, <3>2 DEF Call, Rest, vars, outbox, session, client, Base
    <3> QED
      BY <1>3, <3>1, <3>2
  <2> QED
    BY <1>a, <1>b, <2>1
<1>4. ASSUME NEW n \in Seqs, Fan(n)
      PROVE  /\ ~closing
             /\ UNCHANGED <<head, low, serving, fetched, syncHead, flight, queue, buffered>>
             /\ unfanned' = unfanned \ {n} /\ held' = Append(held, n)
  <2>1. /\ UNCHANGED <<head, low, serving, fetched, syncHead, flight, buffered>>
        /\ unfanned' = unfanned \ {n}
    BY <1>4 DEF Fan, client
  <2>2. phase = "ready" /\ serving = "send"
    BY <1>0, <2>1 DEF Hello
  <2>3. ~closing
    BY <1>4, <2>2 DEF Fan
  <2>4. UNCHANGED queue /\ held' = Append(held, n)
    BY <1>4, <2>2, <2>3 DEF Fan
  <2> QED
    BY <2>1, <2>3, <2>4
<1>5. CASE \E n \in Seqs : Fan(n)
  <2>1. PICK k \in Seqs : Fan(k)
    BY <1>5
  <2>2. /\ ~closing /\ UNCHANGED <<head, low, serving, fetched, syncHead, flight, queue, buffered>>
        /\ unfanned' = unfanned \ {k} /\ held' = Append(held, k)
    BY <1>4, <2>1
  <2>3. held \in Seq(1..head) /\ Len(held) \in Nat
    BY <1>0 DEF Base
  <2>4. /\ \A i \in 1..Len(held) : i \in 1..Len(held') /\ held'[i] = held[i]
        /\ Len(held) + 1 \in 1..Len(held') /\ held'[Len(held) + 1] = k
    BY <2>2, <2>3
  <2>5. ASSUME NEW n, n \in unfanned \/ \E i \in 1..Len(held) : held[i] = n
        PROVE  n \in unfanned' \/ \E i \in 1..Len(held') : held'[i] = n
    BY <2>2, <2>4, <2>5
  <2>6. \A n : WillSend(n) => WillSend(n)'
    BY <2>2, <2>5 DEF WillSend, Sends, High
  <2>7. low \in Nat
    BY <1>0 DEF Base
  <2> QED
    BY <1>a, <2>2, <2>6, <2>7
<1>6. CASE GetWelcome \/ GetEvent \/ GetPage \/ GetResync \/ GetAnswer
  <2>1. /\ Gets(queue[1].t)
        /\ UNCHANGED <<head, low, unfanned, serving, syncHead, fetched, held, deferred, closing>>
        /\ flight # None /\ ~IsAnswer(queue[1]) => flight' = flight
        /\ \A n \in buffered' : n \in buffered \/ (queue[1].t = "evt" /\ queue[1].s = n)
    BY <1>6, Takes
  <2>2. 1 \in 1..Len(queue)
    BY <1>0, <2>1, Popped
  <2>3. flight # None /\ ~IsAnswer(queue[1])
    BY <1>0, <2>1, <2>2 DEF OneSync, SyncSteps, NoAnswer
  <2>4. \A n \in buffered' : n \in buffered \/ Queued(n, 0)
    BY <2>1, <2>2 DEF Queued
  <2>5. \A n : Queued(n, 0)' => Queued(n, 0)
    <3>1. /\ Len(queue) \in Nat \ {0} /\ Len(queue') = Len(queue) - 1
          /\ \A i \in 1..Len(queue') : queue'[i] = queue[i + 1] 
      BY <1>0, <2>1, Popped
    <3> QED
      BY <3>1 DEF Queued
  <2>6. low \in Nat
    BY <1>0 DEF Base
  <2> QED
    BY <1>b, <2>1, <2>3, <2>4, <2>5, <2>6
<1>7. CASE Connect \/ Attach
  BY <1>0, <1>7 DEF Connect, Attach, Hello
<1>8. CASE TakeCall \/ AnswerCall \/ TakeSync \/ ReadHead \/ SendPage
  BY <1>8 DEF TakeCall, AnswerCall, TakeSync, ReadHead, SendPage
<1>9. CASE SlowClose \/ Drop \/ Restart
  BY <1>9 DEF SlowClose, Drop, Restart, Gone
<1> QED
  BY <1>1, <1>3, <1>5, <1>6, <1>7, <1>8, <1>9 DEF Next

(* What Outbox.since returns for a page.                                     *)
LEMMA RowsRead ==
    ASSUME IInv, ReadRows
    PROVE  /\ flight \in 0..head /\ UNCHANGED <<head, low, flight, closing>>
           /\ fetched'.more => fetched'.rows # <<>> /\ High' > flight
           /\ ~fetched'.more /\ fetched'.min = 0 /\ low <= head =>
                 \A m \in flight + 1..head : WillSend(m)'
<1>0. Base /\ OneSync
  BY DEF IInv
<1> USE <1>0, EventStreamAssumption
<1> DEFINE to == IF head < flight + PageLimit THEN head ELSE flight + PageLimit
           rows == [i \in 1..to - flight |-> flight + i]
<1>1. /\ serving = "rows" /\ UNCHANGED <<head, low, flight, closing>>
      /\ fetched' = IF Pruned(flight) THEN OnlyMin(low)
                    ELSE IF low > head THEN Nothing
                    ELSE [rows |-> rows, more |-> to < head, min |-> 0]
  BY DEF ReadRows, outbox, client
<1>2. flight \in 0..head /\ head \in Nat /\ low \in Nat \ {0}
  BY <1>1 DEF OneSync, SyncSteps, Base
<1>3. to \in flight..head /\ (to < head => to > flight) /\ to - flight \in Nat
  BY <1>2
<1> HIDE DEF to
<1>4. rows \in Seq(Nat) /\ Len(rows) = to - flight
  BY <1>2, <1>3
<1>5. ASSUME fetched'.more PROVE fetched'.rows # <<>> /\ High' > flight
  <2>1. fetched' = [rows |-> rows, more |-> to < head, min |-> 0]
    BY <1>1, <1>5 DEF OnlyMin, Nothing
  <2>2. to < head /\ fetched'.rows = rows
    BY <1>5, <2>1
  <2>3. rows # <<>> /\ rows[Len(rows)] = to
    BY <1>2, <1>3, <1>4, <2>2
  <2>4. High' = to
    BY <2>2, <2>3 DEF High
  <2> QED
    BY <1>3, <2>2, <2>3, <2>4
<1>6. ASSUME ~fetched'.more, fetched'.min = 0, low <= head, NEW m \in flight + 1..head
      PROVE  WillSend(m)'
  <2>1. fetched' = [rows |-> rows, more |-> to < head, min |-> 0]
    BY <1>1, <1>2, <1>6 DEF OnlyMin
  <2>2. to = head /\ fetched'.rows = rows
    <3>1. fetched'.more = (to < head) /\ fetched'.rows = rows
      BY <2>1
    <3>2. ~(to < head)
      BY <1>6, <3>1
    <3> QED
      BY <1>2, <1>3, <3>1, <3>2
  <2>3. m - flight \in 1..Len(rows) /\ rows[m - flight] = m
    BY <1>2, <1>4, <2>2
  <2> QED
    BY <2>2, <2>3 DEF WillSend, Sends
<1> QED
  BY <1>1, <1>2, <1>5, <1>6

(* A page that is not the last one moves the replay on, as read...            *)
LEMMA MoreReadStep == IInv /\ MoreRead /\ [Next]_vars => MoreRead'
<1> SUFFICES ASSUME IInv, MoreRead, [Next]_vars, ~closing', serving' = "send", fetched'.more
             PROVE  fetched'.rows # <<>> /\ High' > flight'
  BY DEF MoreRead
<1>1. CASE ReadRows
  BY <1>1, RowsRead
<1>2. CASE ~ReadRows
  <2>1. serving = "send" /\ ~closing /\ UNCHANGED <<fetched, syncHead, flight>>
    BY <1>2, SendStays
  <2>2. High' = High
    BY <2>1 DEF High
  <2> QED
    BY <2>1, <2>2 DEF MoreRead
<1> QED
  BY <1>1, <1>2

(* What the last page leaves out is held or still to be fanned out...         *)
LEMMA LastReadStep == IInv /\ LastRead /\ [Next]_vars => LastRead'
<1> SUFFICES ASSUME IInv, LastRead, [Next]_vars, ~closing', serving' = "send",
                    ~fetched'.more, fetched'.min = 0,
                    NEW b \in low'..head', NEW m \in flight' + 1..b,
                    m = b \/ b \in buffered' \/ Queued(b, 0)'
             PROVE  WillSend(m)'
  BY DEF LastRead
<1>0. Base /\ OneSync /\ head \in Nat /\ low \in Nat
  BY Numbers DEF IInv
<1>1. CASE ReadRows
  <2>1. /\ flight \in 0..head /\ UNCHANGED <<head, low, flight>>
        /\ low <= head => \A k \in flight + 1..head : WillSend(k)'
    BY <1>1, RowsRead
  <2> QED
    BY <1>0, <2>1
<1>2. CASE ~ReadRows
  <2>1. /\ serving = "send" /\ ~closing /\ UNCHANGED <<fetched, syncHead, flight>>
        /\ low <= low' /\ (head' = head \/ (head' = head + 1 /\ WillSend(head)'))
        /\ \A n : WillSend(n) => WillSend(n)'
        /\ \A n : Queued(n, 0)' => Queued(n, 0)
        /\ \A n \in buffered' : n \in buffered \/ Queued(n, 0)
    BY <1>2, SendStays
  <2>2. flight \in 0..head
    BY <1>0, <2>1 DEF OneSync, SyncSteps, Base
  <2>3. low' \in Nat /\ b \in Nat /\ m \in Nat
    <3>0. Base'
      BY <1>0, BaseStep
    <3>1. low' \in Nat /\ head' \in Nat
      BY <3>0 DEF Base
    <3> QED
      BY <2>1, <2>2, <3>1
  <2>4. m = b \/ b \in buffered \/ Queued(b, 0)
    BY <2>1
  <2>5. CASE b <= head
    <3>0. low <= low' /\ flight' = flight
      BY <2>1
    <3>1. b \in low..head /\ m \in flight + 1..b
      BY <1>0, <2>2, <2>3, <2>5, <3>0
    <3>2. WillSend(m)
      BY <2>1, <2>4, <3>1 DEF LastRead
    <3> QED
      BY <2>1, <3>2
  <2>6. CASE b > head
    <3>1. b = head' /\ WillSend(head)'
      BY <1>0, <2>1, <2>3, <2>6
    <3>2. b \notin buffered /\ ~Queued(b, 0)
      <4>1. buffered \subseteq 1..head /\ queue \in Seq(GoodFrames)
        BY <1>0 DEF Base
      <4> QED
        BY <1>0, <2>6, <4>1 DEF Queued, GoodFrames
    <3> QED
      BY <2>4, <3>1, <3>2
  <2> QED
    BY <1>0, <2>3, <2>5, <2>6
<1> QED
  BY <1>1, <1>2

(* acceptEvent: the next event is never left in the buffer.                  *)
LEMMA GapStep == IInv /\ Gap /\ [Next]_vars => Gap'
<1> SUFFICES ASSUME IInv, Gap, [Next]_vars PROVE Gap'
  OBVIOUS
<1>0. Base /\ Hello
  BY DEF IInv
<1> USE EventStreamAssumption DEF Gap
<1>1. CASE \/ Append1 \/ (\E p \in Seqs \cup {MaxSeq + 1} : Prune(p))
           \/ Connect \/ Attach \/ TakeSync \/ ReadHead \/ ReadRows \/ SendPage
           \/ Call \/ Rest \/ UNCHANGED vars
  <2>1. UNCHANGED <<last, buffered, welcomed, deferred>> /\ (serving = "call" => serving' = "call")
    BY <1>1 DEF Append1, Prune, Connect, Attach, TakeSync, ReadHead, ReadRows, SendPage, Call,
       Rest, vars, session, client
  <2> QED
    BY <2>1
<1>2. CASE TakeCall \/ AnswerCall
  <2>1. UNCHANGED <<last, buffered, welcomed>> /\ (serving' = "call" \/ deferred' = <<>>)
    BY <1>2 DEF TakeCall, AnswerCall, client
  <2> QED
    BY <2>1
<1>3. ASSUME NEW n \in Seqs, Fan(n) PROVE Gap'
  <2>1. UNCHANGED <<last, buffered, welcomed, serving>>
    BY <1>3 DEF Fan, client
  <2>2. serving = "call" \/ UNCHANGED deferred
    BY <1>3 DEF Fan
  <2> QED
    BY <2>1, <2>2
<1>4. CASE SlowClose \/ Drop \/ Restart
  <2>1. UNCHANGED <<last, buffered, welcomed>> /\ deferred' = <<>>
    BY <1>4 DEF SlowClose, Drop, Restart, Gone
  <2> QED
    BY <2>1
<1>5. CASE GetPage \/ GetAnswer
  <2>1. UNCHANGED <<last, buffered, welcomed, serving, deferred>>
    BY <1>5 DEF GetPage, GetAnswer, SessionButQueue, client
  <2> QED
    BY <2>1
<1>6. CASE GetWelcome
  <2>1. /\ Gets("welcome") /\ welcomed' = TRUE /\ UNCHANGED <<serving, deferred>>
        /\ \/ buffered' = {}
           \/ buffered' = buffered /\ (~welcomed \/ last' = last)
    BY <1>6 DEF GetWelcome, SessionButQueue
  <2> QED
    BY <2>1
<1>7. CASE GetResync
  <2>1. buffered' = {} /\ UNCHANGED <<serving, deferred>>
    BY <1>7 DEF GetResync, SessionButQueue
  <2> QED
    BY <2>1
<1>8. CASE GetEvent
  <2>1. Gets("evt") /\ UNCHANGED <<serving, deferred>>
    BY <1>0, <1>8, EventTaken DEF SessionButQueue
  <2>2. welcomed
    BY <1>0, <2>1, WelcomedBefore
  <2>3. PICK n \in 1..head, upto \in last..head :
            /\ upto + 1 \notin buffered \cup {n}
            /\ (n <= last /\ UNCHANGED client) \/ Empties(n) \/ HandsOn(n, upto)
    BY <1>0, <1>8, EventTaken
  <2>4. UNCHANGED welcomed /\ (buffered' = {} \/ UNCHANGED <<last, buffered>>
                               \/ (last' = upto /\ buffered' \subseteq buffered \cup {n}))
    BY <2>3 DEF client, Empties, HandsOn
  <2> QED
    BY <2>1, <2>2, <2>3, <2>4
<1> HIDE DEF Gap
<1> QED
  BY <1>1, <1>2, <1>3, <1>4, <1>5, <1>6, <1>7, <1>8 DEF Next

(* The answer to sync.since cannot end a replay that is ahead of the client. *)
LEMMA NoJumpStep == IInv /\ NoJump /\ MorePages /\ [Next]_vars => NoJump'
<1> SUFFICES ASSUME IInv, NoJump, MorePages, [Next]_vars PROVE NoJump'
  OBVIOUS
<1>0. Base /\ OneSync /\ last \in Nat /\ head \in Nat
  BY Numbers DEF IInv
<1> USE EventStreamAssumption
<1> DEFINE OnItsWay(n) == \E i \in 1..Len(queue) :
                             /\ queue[i].t = "evt" /\ queue[i].s = n
                             /\ \A j \in 1..Len(queue) : IsAnswer(queue[j]) => i < j
<1>1. ASSUME UNCHANGED <<flight, last, again, queue, closing>> PROVE NoJump'
  BY <1>1 DEF NoJump
<1>2. ASSUME NEW fs \in Seq(GoodFrames), Enqueue(fs), UNCHANGED <<flight, last, again>>
      PROVE  NoJump'
  <2> SUFFICES ASSUME ~closing', flight # None, flight > last, ~again PROVE OnItsWay(flight)'
    BY <1>2 DEF NoJump
  <2>1. /\ ~closing /\ Len(queue) \in Nat /\ Len(fs) \in Nat
        /\ Len(queue') = Len(queue) + Len(fs)
        /\ \A i \in 1..Len(queue) : queue'[i] = queue[i]
    BY <1>0, <1>2, EnqueueAll
  <2>2. PICK i \in 1..Len(queue) :
            /\ queue[i].t = "evt" /\ queue[i].s = flight
            /\ \A j \in 1..Len(queue) : IsAnswer(queue[j]) => i < j
    BY <2>1 DEF NoJump
  <2>3. i \in 1..Len(queue') /\ queue'[i] = queue[i]
    BY <2>1
  <2>4. ASSUME NEW j \in 1..Len(queue'), IsAnswer(queue'[j]) PROVE i < j
    <3>1. CASE j \in 1..Len(queue)
      BY <2>1, <2>2, <2>4, <3>1
    <3>2. CASE j > Len(queue)
      BY <2>1, <3>2
    <3> QED
      BY <2>1, <3>1, <3>2
  <2> QED
    BY <1>2, <2>2, <2>3, <2>4
<1>3. ASSUME NEW t, Gets(t), UNCHANGED <<flight, closing>>, last <= last', last' \in Nat,
             ~again' => ~again, t = "evt" => queue[1].s <= last', t \notin {"page", "resync"}
      PROVE  NoJump'
  <2> SUFFICES ASSUME ~closing', flight # None, flight > last', ~again PROVE OnItsWay(flight)'
    BY <1>3 DEF NoJump
  <2>0. flight \in Nat
    BY <1>0 DEF Base
  <2>1. /\ Len(queue) \in Nat \ {0} /\ Len(queue') = Len(queue) - 1 /\ queue[1].t = t
        /\ \A i \in 1..Len(queue') : queue'[i] = queue[i + 1]
    BY <1>0, <1>3, Popped
  <2>2. flight > last
    BY <1>0, <1>3, <2>0
  <2>3. PICK i \in 1..Len(queue) :
            /\ queue[i].t = "evt" /\ queue[i].s = flight
            /\ \A j \in 1..Len(queue) : IsAnswer(queue[j]) => i < j
    BY <1>3, <2>2 DEF NoJump
  <2>4. i # 1
    <3> SUFFICES ASSUME i = 1 PROVE FALSE
      OBVIOUS
    <3>1. t = "evt" /\ queue[1].s = flight
      BY <2>1, <2>3
    <3> QED
      BY <1>3, <2>0, <3>1
  <2>5. i - 1 \in 1..Len(queue') /\ queue'[i - 1] = queue[i]
    BY <2>1, <2>4
  <2>6. ASSUME NEW j \in 1..Len(queue'), IsAnswer(queue'[j]) PROVE i - 1 < j
    <3>1. j + 1 \in 1..Len(queue) /\ queue'[j] = queue[j + 1]
      BY <2>1
    <3>2. i < j + 1
      BY <2>3, <2>6, <3>1
    <3> QED
      BY <2>1, <3>2
  <2> QED
    BY <1>3, <2>3, <2>5, <2>6
<1> HIDE DEF OnItsWay
<1>4. CASE \/ Append1 \/ (\E p \in Seqs \cup {MaxSeq + 1} : Prune(p))
           \/ Connect \/ TakeCall \/ TakeSync \/ ReadHead \/ ReadRows \/ Call \/ Rest
           \/ UNCHANGED vars
  <2>1. UNCHANGED <<flight, last, again, queue, closing>>
    BY <1>4 DEF Append1, Prune, Connect, TakeCall, TakeSync, ReadHead, ReadRows, Call, Rest,
       vars, session, client
  <2> QED
    BY <1>1, <2>1
<1>5. CASE (\E n \in Seqs : Fan(n)) \/ Attach \/ AnswerCall \/ SendPage
  <2>1. UNCHANGED <<flight, last, again>>
    BY <1>5 DEF Fan, Attach, AnswerCall, SendPage, client
  <2>2. UNCHANGED <<queue, closing>> \/ \E fs \in Seq(GoodFrames) : Enqueue(fs)
    BY <1>0, <1>5, Enqueues, SentPage
  <2> QED
    BY <1>1, <1>2, <2>1, <2>2
<1>6. CASE SlowClose \/ Drop \/ Restart
  BY <1>6 DEF SlowClose, Drop, Restart, Gone, NoJump
<1>7. CASE GetAnswer
  <2>1. Gets("res") /\ UNCHANGED <<flight, last, again, closing>>
    BY <1>7 DEF GetAnswer, SessionButQueue, client
  <2> QED
    BY <1>0, <1>3, <2>1
<1>8. CASE GetWelcome \/ GetResync
  <2>1. again' \/ flight' = last'
    BY <1>8 DEF GetWelcome, GetResync, CatchUp, Ask
  <2>2. last' \in Nat
    <3>1. Base'
      BY <1>0, BaseStep
    <3> QED
      BY <3>1 DEF Base
  <2> QED
    BY <2>1, <2>2 DEF NoJump
<1>9. CASE GetPage
  <2>1. Gets("page") /\ UNCHANGED <<last, closing>>
    BY <1>9 DEF GetPage, SessionButQueue, client
  <2>2. /\ Len(queue) \in Nat \ {0} /\ Len(queue') = Len(queue) - 1
        /\ Head(queue) = queue[1] /\ queue[1].t = "page"
        /\ \A i \in 1..Len(queue') : queue'[i] = queue[i + 1]
    BY <1>0, <2>1, Popped
  <2>3. \/ Head(queue).more /\ flight' = Head(queue).s
        \/ flight' = last
        \/ flight' = None
    BY <1>9 DEF GetPage, Ask
  <2>4. CASE flight' \in {last, None}
    BY <1>0, <2>1, <2>4 DEF NoJump
  <2>5. CASE Head(queue).more /\ flight' = Head(queue).s
    <3> SUFFICES ASSUME ~closing PROVE OnItsWay(flight)'
      BY <2>1 DEF NoJump, OnItsWay
    <3>1. 1 \in 1..Len(queue) /\ queue[1].t = "page" /\ queue[1].more
      BY <2>2, <2>5
    <3>2. Queued(queue[1].s, 1)
      BY <3>1 DEF MorePages
    <3>3. PICK i \in 1..Len(queue) : i > 1 /\ queue[i].t = "evt" /\ queue[i].s = queue[1].s
      BY <3>2 DEF Queued
    <3>4. i - 1 \in 1..Len(queue') /\ queue'[i - 1] = queue[i]
      BY <2>2, <3>3
    <3>5. ASSUME NEW j \in 1..Len(queue') PROVE ~IsAnswer(queue'[j])
      <4>1. j + 1 \in 1..Len(queue) /\ queue'[j] = queue[j + 1] /\ j + 1 # 1
        BY <2>2
      <4> QED
        BY <1>0, <2>2, <3>1, <4>1 DEF OneSync, IsAnswer
    <3> QED
      BY <2>2, <2>5, <3>3, <3>4, <3>5 DEF OnItsWay
  <2> QED
    BY <2>3, <2>4, <2>5
<1>10. CASE GetEvent
  <2>1. Gets("evt") /\ UNCHANGED closing
    BY <1>0, <1>10, EventTaken DEF SessionButQueue
  <2>2. PICK n \in 1..head, upto \in last..head :
            /\ queue[1].s = n
            /\ upto + 1 \notin buffered \cup {n}
            /\ (n <= last /\ UNCHANGED client) \/ Empties(n) \/ HandsOn(n, upto)
    BY <1>0, <1>10, EventTaken
  <2>3. CatchUp(last) => again' \/ flight' = last
    BY DEF CatchUp, Ask
  <2>4. last <= upto /\ upto \in Nat /\ n \in Nat
    BY <1>0
  <2>5. CASE n <= last /\ UNCHANGED client
    <3>1. UNCHANGED <<flight, last, again>>
      BY <2>5 DEF client
    <3> QED
      BY <1>0, <1>3, <2>1, <2>2, <2>5, <3>1
  <2>6. CASE Empties(n) \/ (HandsOn(n, upto) /\ n > last + 1)
    <3>1. (last' = last \/ last' = upto) /\ (again' \/ flight' = last)
      BY <2>3, <2>6 DEF Empties, HandsOn
    <3> QED
      BY <1>0, <2>4, <3>1 DEF NoJump
  <2>7. CASE HandsOn(n, upto) /\ ~(n > last + 1)
    <3>1. n > last /\ last' = upto /\ UNCHANGED <<flight, again>>
      BY <2>7 DEF HandsOn
    <3>2. n = last + 1
      BY <1>0, <2>4, <2>7, <3>1
    <3>3. n <= upto
      BY <1>0, <2>2, <2>4, <3>2
    <3> QED
      BY <1>0, <1>3, <2>1, <2>2, <2>4, <3>1, <3>3
  <2> QED
    BY <2>2, <2>5, <2>6, <2>7
<1> QED
  BY <1>4, <1>5, <1>6, <1>7, <1>8, <1>9, <1>10 DEF Next

(* _fanout and the end of a call lose no live frame of an open session that   *)
(* is not in a replay.                                                       *)
LEMMA Carries ==
    ASSUME IInv, (\E k \in Seqs : Fan(k)) \/ AnswerCall, phase = "ready", ~closing',
           serving \notin SyncSteps, NEW p \in Nat, p <= Len(queue), NEW n, Comes(n, p)
    PROVE  Comes(n, p)'
<1>0. Base /\ OneSync /\ Len(queue) \in Nat
  BY Numbers DEF IInv
<1>1. ASSUME NEW k \in Seqs, Fan(k) PROVE Comes(n, p)'
  <2>0. k \in 1..head /\ unfanned' = unfanned \ {k}
    BY <1>0, <1>1 DEF Fan, Base
  <2>1. CASE deferred' = Append(deferred, k) /\ UNCHANGED queue
    <3>1. /\ Len(deferred) \in Nat /\ Len(deferred') = Len(deferred) + 1
          /\ \A i \in 1..Len(deferred) : deferred'[i] = deferred[i]
          /\ deferred'[Len(deferred) + 1] = k
      BY <1>0, <2>0, <2>1 DEF Base
    <3>2. \A i \in 1..Len(deferred) : i \in 1..Len(deferred')
      BY <3>1
    <3>3. Len(deferred) + 1 \in 1..Len(deferred')
      BY <3>1
    <3>4. CASE Queued(n, p)
      BY <2>1, <3>4 DEF Comes, Queued
    <3>5. CASE n \in unfanned
      BY <2>0, <3>1, <3>3, <3>5 DEF Comes
    <3>6. CASE \E i \in 1..Len(deferred) : deferred[i] = n
      BY <3>1, <3>2, <3>6 DEF Comes
    <3> QED
      BY <3>4, <3>5, <3>6 DEF Comes
  <2>2. CASE Enqueue(<<Evt(k)>>) /\ UNCHANGED deferred
    <3>1. <<Evt(k)>> \in Seq(GoodFrames)
      BY <1>0, <2>0, EvtGood DEF Base
    <3>2. /\ 1 \in 1..Len(<<Evt(k)>>) /\ <<Evt(k)>>[1].t = "evt" /\ <<Evt(k)>>[1].s = k
      BY DEF Evt
    <3> DEFINE fs == <<Evt(k)>>
    <3> HIDE DEF fs
    <3>3. /\ Queued(n, p) => Queued(n, p)'
          /\ \A i \in 1..Len(fs) :
                p < Len(queue) + i /\ fs[i].t = "evt" /\ fs[i].s = n => Queued(n, p)'
      BY <1>0, <2>2, <3>1, Behind DEF fs
    <3>4. n = k => Queued(n, p)'
      BY <1>0, <3>2, <3>3 DEF fs
    <3> QED
      BY <2>0, <2>2, <3>3, <3>4 DEF Comes
  <2>3. ~closing
    BY <1>1 DEF Fan, Enqueue
  <2> QED
    BY <1>1, <2>1, <2>2, <2>3 DEF Fan, SyncSteps
<1>2. CASE AnswerCall
  <2> DEFINE fs == <<Frame("res", 0)>> \o Evts(deferred)
  <2>1. /\ Evts(deferred) \in Seq(GoodFrames) /\ Len(Evts(deferred)) = Len(deferred)
        /\ Len(deferred) \in Nat
        /\ \A i \in 1..Len(deferred) : Evts(deferred)[i] = Evt(deferred[i])
    BY <1>0, EvtsGood DEF Base, Evts
  <2>2. Frame("res", 0) \in GoodFrames
    BY <1>0, EventStreamAssumption DEF Base, Frame, GoodFrames, Frames
  <2>3. /\ fs \in Seq(GoodFrames) /\ Len(fs) = Len(deferred) + 1
        /\ \A i \in 1..Len(deferred) : fs[i + 1] = Evt(deferred[i])
    BY <2>1, <2>2
  <2>4. Enqueue(fs) /\ UNCHANGED unfanned
    BY <1>2 DEF AnswerCall, outbox
  <2> HIDE DEF fs
  <2>5. /\ Queued(n, p) => Queued(n, p)'
        /\ \A i \in 1..Len(fs) :
              p < Len(queue) + i /\ fs[i].t = "evt" /\ fs[i].s = n => Queued(n, p)'
    BY <1>0, <2>3, <2>4, Behind
  <2>6. ASSUME NEW i \in 1..Len(deferred), deferred[i] = n PROVE Queued(n, p)'
    <3>1. i + 1 \in 1..Len(fs) /\ p < Len(queue) + (i + 1)
      BY <1>0, <2>1, <2>3
    <3>2. fs[i + 1].t = "evt" /\ fs[i + 1].s = n
      <4>1. fs[i + 1] = Evt(n)
        BY <2>3, <2>6
      <4> QED
        BY <4>1 DEF Evt
    <3> QED
      BY <2>5, <3>1, <3>2
  <2> QED
    BY <2>4, <2>5, <2>6 DEF Comes
<1> QED
  BY <1>1, <1>2

(* A page on its way was on its way, the client still waits for it, and what  *)
(* was to come behind it still does.                                        *)
LEMMA PageStays ==
    ASSUME IInv, [Next]_vars, ~SendPage, ~closing',
           NEW p \in 1..Len(queue'), queue'[p].t = "page"
    PROVE  /\ ~closing /\ flight \in 0..head /\ flight' = flight /\ low <= low'
           /\ head' = head \/ (head' = head + 1 /\ head' \in unfanned')
           /\ \E q \in 1..Len(queue) :
                 /\ queue[q] = queue'[p]
                 /\ \A n : Queued(n, q) => Queued(n, p)'
                 /\ \A n : Comes(n, q) => Comes(n, p)'
                 /\ \A n : n \in buffered' \/ SentBefore(n, p)' =>
                              n \in buffered \/ SentBefore(n, q)
<1>0. /\ Base /\ OneSync /\ Hello /\ Len(queue) \in Nat /\ p \in Nat
      /\ head \in Nat /\ low \in Nat
  BY Numbers DEF IInv
<1> USE EventStreamAssumption
<1>1. ASSUME NEW q \in 1..Len(queue), queue[q].t = "page"
      PROVE  flight \in 0..head /\ serving \notin SyncSteps /\ ~NoAnswer
  BY <1>0, <1>1 DEF OneSync, NoAnswer, IsAnswer, Base
<1>2. CASE \/ Append1 \/ (\E k \in Seqs \cup {MaxSeq + 1} : Prune(k))
           \/ Connect \/ TakeCall \/ TakeSync \/ ReadHead \/ ReadRows \/ Call \/ Rest
           \/ UNCHANGED vars
  <2>1. UNCHANGED <<queue, closing, flight, deferred, buffered>>
    BY <1>2 DEF Append1, Prune, Connect, TakeCall, TakeSync, ReadHead, ReadRows, Call, Rest,
       vars, session, client
  <2>2. /\ low <= low' /\ unfanned \subseteq unfanned'
        /\ head' = head \/ (head' = head + 1 /\ head' \in unfanned')
    <3>1. CASE Append1
      BY <1>0, <3>1 DEF Append1
    <3>2. ASSUME NEW k \in Seqs \cup {MaxSeq + 1}, Prune(k)
          PROVE  low <= low' /\ UNCHANGED <<head, unfanned>>
      BY <1>0, <3>2 DEF Prune, Seqs
    <3>3. CASE \/ Connect \/ TakeCall \/ TakeSync \/ ReadHead \/ ReadRows \/ Call \/ Rest
               \/ UNCHANGED vars
      BY <1>0, <3>3 DEF Connect, TakeCall, TakeSync, ReadHead, ReadRows, Call, Rest, vars, outbox
    <3> QED
      BY <1>2, <3>1, <3>2, <3>3
  <2>3. p \in 1..Len(queue) /\ queue[p] = queue'[p]
    BY <2>1
  <2>4. flight \in 0..head
    BY <1>1, <2>3
  <2>5. \A n : Queued(n, p) => Queued(n, p)'
    BY <2>1 DEF Queued
  <2>6. \A n : Comes(n, p) => Comes(n, p)'
    BY <2>1, <2>2, <2>5 DEF Comes
  <2>7. \A n : SentBefore(n, p)' => SentBefore(n, p)
    BY <2>1 DEF SentBefore
  <2> QED
    BY <2>1, <2>2, <2>3, <2>4, <2>5, <2>6, <2>7
<1>3. CASE (\E k \in Seqs : Fan(k)) \/ Attach \/ AnswerCall
  <2>1. UNCHANGED <<head, low, flight, buffered>>
    BY <1>3 DEF Fan, Attach, AnswerCall, outbox, client
  <2>2. ~closing /\ p \in 1..Len(queue) /\ queue[p] = queue'[p] /\ (Len(queue') >= Len(queue))
    <3>1. CASE UNCHANGED <<queue, closing>>
      BY <1>0, <3>1
    <3>2. ASSUME NEW fs \in Seq(GoodFrames), Enqueue(fs), \A i \in 1..Len(fs) : ~IsAnswer(fs[i])
          PROVE  /\ ~closing /\ p \in 1..Len(queue) /\ queue[p] = queue'[p]
                 /\ Len(queue') >= Len(queue)
      <4>1. /\ ~closing /\ Len(fs) \in Nat /\ Len(queue') = Len(queue) + Len(fs)
            /\ \A i \in 1..Len(queue) : queue'[i] = queue[i]
            /\ \A i \in 1..Len(fs) : queue'[Len(queue) + i] = fs[i]
        BY <1>0, <3>2, EnqueueAll
      <4>2. CASE p > Len(queue)
        <5>1. p - Len(queue) \in 1..Len(fs) /\ Len(queue) + (p - Len(queue)) = p
          BY <1>0, <4>1, <4>2
        <5>2. queue'[p] = fs[p - Len(queue)]
          BY <4>1, <5>1
        <5> QED
          BY <3>2, <5>1, <5>2 DEF IsAnswer
      <4> QED
        BY <1>0, <4>1, <4>2
    <3> QED
      BY <1>0, <1>3, <3>1, <3>2, Enqueues
  <2>3. flight \in 0..head /\ serving \notin SyncSteps
    BY <1>1, <2>2
  <2>4. phase = "ready"
    <3>1. queue # <<>>
      BY <2>2
    <3> QED
      BY <1>0, <3>1 DEF Hello
  <2>5. (\E k \in Seqs : Fan(k)) \/ AnswerCall
    BY <1>3, <2>4 DEF Attach
  <2>6. \A n : Comes(n, p) => Comes(n, p)'
    BY <1>0, <2>2, <2>3, <2>4, <2>5, Carries
  <2>7. ASSUME NEW n
        PROVE  (Queued(n, p) => Queued(n, p)') /\ (SentBefore(n, p)' => SentBefore(n, p))
    <3>1. CASE UNCHANGED <<queue, closing>>
      BY <3>1 DEF Queued, SentBefore
    <3>2. CASE \E fs \in Seq(GoodFrames) : Enqueue(fs)
      BY <1>0, <2>2, <3>2, Behind
    <3> QED
      BY <1>0, <1>3, <3>1, <3>2, Enqueues
  <2> QED
    BY <1>0, <2>1, <2>2, <2>3, <2>6, <2>7
<1>4. CASE GetWelcome \/ GetEvent \/ GetPage \/ GetResync \/ GetAnswer
  <2>1. /\ Gets(queue[1].t)
        /\ UNCHANGED <<head, low, unfanned, deferred, closing>>
        /\ flight # None /\ ~IsAnswer(queue[1]) => flight' = flight
        /\ \A n \in buffered' : n \in buffered \/ (queue[1].t = "evt" /\ queue[1].s = n)
    BY <1>4, Takes
  <2>2. /\ Len(queue) \in Nat \ {0} /\ Len(queue') = Len(queue) - 1
        /\ \A i \in 1..Len(queue') : queue'[i] = queue[i + 1]
    BY <1>0, <2>1, Popped
  <2>3. p + 1 \in 1..Len(queue) /\ queue[p + 1] = queue'[p] /\ p + 1 # 1 /\ 1 \in 1..Len(queue)
    BY <1>0, <2>2
  <2>4. flight \in 0..head /\ ~NoAnswer
    BY <1>1, <2>3
  <2>5. ~IsAnswer(queue[1])
    BY <1>0, <2>3 DEF OneSync, IsAnswer
  <2>6. flight' = flight
    BY <1>0, <2>1, <2>4, <2>5 DEF Base
  <2>7. ASSUME NEW n
        PROVE  /\ Queued(n, p + 1) => Queued(n, p)'
               /\ Comes(n, p + 1) => Comes(n, p)'
               /\ SentBefore(n, p)' => SentBefore(n, p + 1)
    BY <1>0, <2>1, Ahead
  <2>8. ASSUME NEW n, n \in buffered' PROVE n \in buffered \/ SentBefore(n, p + 1)
    BY <1>0, <2>1, <2>3, <2>8 DEF SentBefore
  <2> QED
    BY <1>0, <2>1, <2>3, <2>4, <2>6, <2>7, <2>8
<1>5. CASE SlowClose \/ Drop \/ Restart
  <2>1. queue' = <<>>
    BY <1>5 DEF SlowClose, Drop, Restart, Gone
  <2> QED
    BY <2>1
<1> QED
  BY <1>2, <1>3, <1>4, <1>5 DEF Next

(* The answer of sync_since: behind it comes what was read and held.         *)
LEMMA PageSent ==
    ASSUME IInv, SendPage, ~closing', NEW p \in 1..Len(queue'), queue'[p].t = "page"
    PROVE  /\ ~closing /\ serving = "send" /\ fetched.min = 0
           /\ UNCHANGED <<head, low, flight, buffered>>
           /\ queue'[p].more = fetched.more
           /\ fetched.more => queue'[p].s = High
           /\ fetched.rows # <<>> => \A n : n = High => Queued(n, p)'
           /\ \A n : WillSend(n) => Comes(n, p)'
           /\ \A n : SentBefore(n, p)' => Queued(n, 0)
<1>0. Base /\ OneSync /\ Len(queue) \in Nat
  BY Numbers DEF IInv
<1>1. serving = "send" /\ UNCHANGED <<head, low, unfanned, flight, buffered>>
  BY DEF SendPage, outbox, client
<1>2. PICK fs \in Seq(GoodFrames) :
         /\ Enqueue(fs)
         /\ Len(fs) > 0 /\ fs[1] = Answer
         /\ \A i \in 1..Len(fs) : IsAnswer(fs[i]) => i = 1
         /\ \A n : Sends(n) => \E i \in 2..Len(fs) : fs[i] = Evt(n)
  BY <1>0, SentPage
<1>3. /\ ~closing /\ Len(fs) \in Nat /\ Len(queue') = Len(queue) + Len(fs)
      /\ \A i \in 1..Len(queue) : queue'[i] = queue[i]
      /\ \A i \in 1..Len(fs) : queue'[Len(queue) + i] = fs[i]
  BY <1>0, <1>2, EnqueueAll
<1>4. p = Len(queue) + 1 /\ p \in Nat
  <2>1. p \notin 1..Len(queue)
    BY <1>0, <1>1, <1>3 DEF OneSync, NoAnswer, SyncSteps, IsAnswer
  <2> DEFINE k == p - Len(queue)
  <2>2. k \in 1..Len(fs) /\ p = Len(queue) + k
    BY <1>0, <1>3, <2>1
  <2> HIDE DEF k
  <2>3. queue'[p] = fs[k]
    BY <1>3, <2>2
  <2>4. k = 1
    BY <1>2, <2>2, <2>3 DEF IsAnswer
  <2> QED
    BY <1>0, <2>2, <2>4
<1>5. queue'[p] = Answer
  <2>1. 1 \in 1..Len(fs)
    BY <1>2, <1>3
  <2> QED
    BY <1>2, <1>3, <1>4, <2>1
<1>6. fetched.min = 0 /\ Answer = Page(IF fetched.more THEN High ELSE syncHead, fetched.more)
  <2>1. ~(fetched.min > 0)
    BY <1>5 DEF Answer, Frame
  <2> QED
    BY <1>0, <2>1 DEF Answer, Base
<1>7. ASSUME NEW n, Sends(n) PROVE Queued(n, p)'
  <2>1. PICK i \in 2..Len(fs) : fs[i] = Evt(n)
    BY <1>2, <1>7
  <2>2. i \in 1..Len(fs) /\ p < Len(queue) + i
    BY <1>0, <1>3, <1>4
  <2>3. fs[i].t = "evt" /\ fs[i].s = n
    BY <2>1 DEF Evt
  <2>4. \A j \in 1..Len(fs) :
            p < Len(queue) + j /\ fs[j].t = "evt" /\ fs[j].s = n => Queued(n, p)'
    BY <1>0, <1>2, <1>4, Behind
  <2> QED
    BY <2>2, <2>3, <2>4
<1>8. fetched.rows # <<>> => \A n : n = High => Queued(n, p)'
  <2> SUFFICES ASSUME fetched.rows # <<>>, NEW n, n = High PROVE Queued(n, p)'
    OBVIOUS
  <2>0. fetched.rows \in Seq(1..head)
    BY <1>0 DEF Base
  <2>1. Len(fetched.rows) \in 1..Len(fetched.rows) /\ fetched.rows[Len(fetched.rows)] = n
    BY <2>0 DEF High
  <2>2. Sends(n)
    BY <2>1 DEF Sends
  <2> QED
    BY <1>7, <2>2
<1>9. \A n : WillSend(n) => Comes(n, p)'
  BY <1>1, <1>7 DEF WillSend, Comes
<1>10. \A n : SentBefore(n, p)' => Queued(n, 0)
  <2>1. \A n : SentBefore(n, p)' => SentBefore(n, p)
    BY <1>0, <1>2, <1>4, Behind
  <2>2. \A n : SentBefore(n, p) => Queued(n, 0)
    BY <1>0 DEF SentBefore, Queued
  <2> QED
    BY <2>1, <2>2
<1> QED
  BY <1>1, <1>3, <1>5, <1>6, <1>8, <1>9, <1>10 DEF Page

(* ...and as sent.                                                          *)
LEMMA MorePagesStep == IInv /\ MoreRead /\ MorePages /\ [Next]_vars => MorePages'
<1> SUFFICES ASSUME IInv, MoreRead, MorePages, [Next]_vars, ~closing',
                    NEW p \in 1..Len(queue'), queue'[p].t = "page", queue'[p].more
             PROVE  queue'[p].s > flight' /\ \A n : n = queue'[p].s => Queued(n, p)'
  BY DEF MorePages
<1>1. CASE SendPage
  <2>1. /\ ~closing /\ serving = "send" /\ flight' = flight
        /\ queue'[p].more = fetched.more
        /\ fetched.more => queue'[p].s = High
        /\ fetched.rows # <<>> => \A n : n = High => Queued(n, p)'
    BY <1>1, PageSent
  <2>2. fetched.rows # <<>> /\ High > flight
    BY <2>1 DEF MoreRead
  <2> QED
    BY <2>1, <2>2
<1>2. CASE ~SendPage
  <2>1. /\ ~closing /\ flight' = flight
        /\ \E q \in 1..Len(queue) :
              queue[q] = queue'[p] /\ \A n : Queued(n, q) => Queued(n, p)'
    BY <1>2, PageStays
  <2>2. PICK q \in 1..Len(queue) : queue[q] = queue'[p] /\ \A n : Queued(n, q) => Queued(n, p)'
    BY <2>1
  <2>3. queue[q].s > flight /\ Queued(queue[q].s, q)
    BY <2>1, <2>2 DEF MorePages
  <2> QED
    BY <2>1, <2>2, <2>3
<1> QED
  BY <1>1, <1>2

(* ...and comes behind it.                                                   *)
LEMMA LastPageStep == IInv /\ LastRead /\ LastPage /\ [Next]_vars => LastPage'
<1> SUFFICES ASSUME IInv, LastRead, LastPage, [Next]_vars, ~closing',
                    NEW p \in 1..Len(queue'), queue'[p].t = "page", ~queue'[p].more,
                    NEW b \in low'..head', NEW m \in flight' + 1..b,
                    m = b \/ b \in buffered' \/ SentBefore(b, p)'
             PROVE  Comes(m, p)'
  BY DEF LastPage
<1>0. Base /\ head \in Nat /\ low \in Nat
  BY Numbers DEF IInv
<1>1. CASE SendPage
  <2>1. /\ ~closing /\ serving = "send" /\ fetched.min = 0
        /\ UNCHANGED <<head, low, flight, buffered>> /\ ~fetched.more
    BY <1>1, PageSent
  <2>2. m = b \/ b \in buffered \/ Queued(b, 0)
    BY <1>1, <2>1, PageSent
  <2>3. WillSend(m)
    BY <2>1, <2>2 DEF LastRead
  <2> QED
    BY <1>1, <2>3, PageSent
<1>2. CASE ~SendPage
  <2>1. /\ ~closing /\ flight \in 0..head /\ flight' = flight /\ low <= low'
        /\ head' = head \/ (head' = head + 1 /\ head' \in unfanned')
        /\ \E q \in 1..Len(queue) :
              /\ queue[q] = queue'[p]
              /\ \A n : Comes(n, q) => Comes(n, p)'
              /\ \A n : n \in buffered' \/ SentBefore(n, p)' =>
                           n \in buffered \/ SentBefore(n, q)
    BY <1>2, PageStays
  <2>2. PICK q \in 1..Len(queue) :
              /\ queue[q] = queue'[p]
              /\ \A n : Comes(n, q) => Comes(n, p)'
              /\ \A n : n \in buffered' \/ SentBefore(n, p)' =>
                           n \in buffered \/ SentBefore(n, q)
    BY <2>1
  <2>3. m = b \/ b \in buffered \/ SentBefore(b, q)
    BY <2>2
  <2>4. low' \in Nat /\ head' \in Nat
    <3>1. Base'
      BY <1>0, BaseStep DEF IInv
    <3> QED
      BY <3>1 DEF Base
  <2>5. CASE b <= head
    <3>1. low <= low' /\ flight' = flight /\ flight \in 0..head
      BY <2>1
    <3>2. b \in low..head /\ m \in flight + 1..b
      BY <1>0, <2>4, <2>5, <3>1
    <3>3. Comes(m, q)
      BY <2>1, <2>2, <2>3, <3>2 DEF LastPage
    <3> QED
      BY <2>2, <3>3
  <2>6. CASE b > head
    <3>0. b = head' /\ b \in unfanned'
      <4>1. b <= head' /\ b \in Int
        BY <2>4
      <4>2. head' = head + 1 /\ head' \in unfanned'
        BY <1>0, <2>1, <2>6, <4>1
      <4> QED
        BY <1>0, <2>6, <4>1, <4>2
    <3>1. b \notin buffered /\ ~SentBefore(b, q)
      <4>1. buffered \subseteq 1..head /\ queue \in Seq(GoodFrames)
        BY <1>0 DEF Base
      <4> QED
        BY <1>0, <2>4, <2>6, <4>1 DEF SentBefore, GoodFrames
    <3>2. m \in unfanned'
      BY <2>3, <3>0, <3>1
    <3> QED
      BY <3>2 DEF Comes
  <2> QED
    BY <1>0, <2>4, <2>5, <2>6
<1> QED
  BY <1>1, <1>2

(* A client without a replay under way needs none.                           *)
LEMMA SettledStep ==
    IInv /\ Settled /\ NoJump /\ MorePages /\ LastPage /\ [Next]_vars => Settled'
<1> SUFFICES ASSUME IInv, Settled, NoJump, MorePages, LastPage, [Next]_vars,
                    phase' = "ready", ~closing', flight' = None, ~Unwelcomed',
                    NEW b \in low'..head', NEW m \in last' + 1..b, m = b \/ b \in buffered'
             PROVE  m \in buffered' \/ Comes(m, 0)'
  BY DEF Settled
<1>0. /\ Base /\ OneSync /\ Hello /\ Len(queue) \in Nat
      /\ head \in Nat /\ low \in Nat /\ last \in Nat /\ buffered \subseteq 1..head
  BY Numbers DEF IInv
<1>z. low' \in Nat /\ head' \in Nat /\ last' \in Nat
  <2>1. Base'
    BY <1>0, BaseStep
  <2>2. low' \in 1..head' + 1 /\ head' \in 0..MaxSeq /\ last' \in 0..head'
    BY <2>1 DEF Base
  <2> QED
    BY <2>2
<1> USE EventStreamAssumption
<1>a. last # None /\ \A k \in Nat : k # None
  BY <1>0
<1>b. ASSUME phase = "ready", ~closing, flight = None, ~Unwelcomed, low <= low', last <= last',
             b <= head, m = b \/ b \in buffered
      PROVE  m \in buffered \/ Comes(m, 0)
  <2>1. b \in Nat /\ b >= low'
    BY <1>z
  <2>2. m \in Nat /\ m > last' /\ m <= b
    <3>1. PICK k \in Nat : k = last'
      BY <1>z
    <3>2. m \in k + 1..b
      BY Zenon, <3>1
    <3>3. m \in Nat /\ m > k /\ m <= b
      BY <2>1, <3>2
    <3> QED
      BY <3>1, <3>3
  <2>3. b \in low..head
    BY <1>0, <1>z, <1>b, <2>1
  <2>4. m \in last + 1..b
    BY <1>0, <1>z, <1>b, <2>1, <2>2
  <2> QED
    BY <1>b, <2>3, <2>4 DEF Settled
<1>1. CASE Append1
  <2>1. /\ UNCHANGED <<low, phase, closing, flight, queue, last, buffered, deferred>>
        /\ head' = head + 1 /\ unfanned' = unfanned \cup {head + 1}
    BY <1>1 DEF Append1, session, client
  <2>2. CASE b <= head
    <3>1. ~Unwelcomed
      BY <2>1 DEF Unwelcomed
    <3>2. m \in buffered \/ Comes(m, 0)
      BY <1>0, <1>b, <2>1, <2>2, <3>1
    <3>3. Comes(m, 0) => Comes(m, 0)'
      BY <2>1 DEF Comes, Queued
    <3> QED
      BY <2>1, <3>2, <3>3
  <2>3. CASE b > head
    <3>1. b = head + 1 /\ b \notin buffered
      BY <1>0, <2>1, <2>3
    <3>2. m \in unfanned'
      BY <2>1, <3>1
    <3> QED
      BY <3>2 DEF Comes
  <2> QED
    BY <1>0, <1>z, <2>2, <2>3
<1>2. CASE \/ \E k \in Seqs \cup {MaxSeq + 1} : Prune(k)
           \/ TakeCall \/ Call \/ Rest \/ UNCHANGED vars
  <2>1. /\ low <= low'
        /\ UNCHANGED <<head, unfanned, phase, closing, flight, queue, last, buffered, deferred>>
    <3>1. ASSUME NEW k \in Seqs \cup {MaxSeq + 1}, Prune(k)
          PROVE  /\ low <= low'
                 /\ UNCHANGED <<head, unfanned, phase, closing, flight, queue, last, buffered,
                                deferred>>
      BY <1>0, <3>1 DEF Prune, Seqs, session, client
    <3>2. CASE TakeCall \/ Call \/ Rest \/ UNCHANGED vars
      BY <1>0, <3>2 DEF TakeCall, Call, Rest, vars, outbox, session, client
    <3> QED
      BY <1>2, <3>1, <3>2
  <2>2. ~Unwelcomed
    BY <2>1 DEF Unwelcomed
  <2>3. m \in buffered \/ Comes(m, 0)
    BY <1>0, <1>z, <1>b, <2>1, <2>2
  <2>4. Comes(m, 0) => Comes(m, 0)'
    BY <2>1 DEF Comes, Queued
  <2> QED
    BY <2>1, <2>3, <2>4
<1>3. CASE TakeSync \/ ReadHead \/ ReadRows \/ SendPage
  <2>1. (asked \/ serving \in SyncSteps) /\ flight' = flight
    BY <1>3 DEF TakeSync, ReadHead, ReadRows, SendPage, SyncSteps, client
  <2> QED
    BY <1>0, <2>1 DEF OneSync
<1>4. CASE Connect \/ SlowClose \/ Drop \/ Restart
  BY <1>4 DEF Connect, SlowClose, Drop, Restart, Gone
<1>5. CASE Attach
  <2> DEFINE fs == <<Frame("welcome", hostSeq)>>
  <2>1. fs \in Seq(GoodFrames) /\ Len(fs) = 1 /\ fs[1].t = "welcome"
    BY <1>0 DEF Base, Frame, GoodFrames, Frames
  <2>2. Enqueue(fs)
    BY <1>5 DEF Attach
  <2> HIDE DEF fs
  <2>3. /\ Len(queue') = Len(queue) + Len(fs)
        /\ \A i \in 1..Len(fs) : queue'[Len(queue) + i] = fs[i]
    BY <1>0, <2>1, <2>2, EnqueueAll
  <2>4. Len(queue) + 1 \in 1..Len(queue') /\ queue'[Len(queue) + 1].t = "welcome"
    BY <1>0, <2>1, <2>3
  <2> QED
    BY <2>4 DEF Unwelcomed
<1>6. CASE (\E k \in Seqs : Fan(k)) \/ AnswerCall
  <2>1. UNCHANGED <<head, low, phase, flight, last, buffered>>
    BY <1>6 DEF Fan, AnswerCall, outbox, client
  <2>2. serving \notin SyncSteps
    BY <1>0, <2>1 DEF OneSync
  <2>3. ~closing /\ ~Unwelcomed
    <3>1. CASE UNCHANGED <<queue, closing>>
      BY <3>1 DEF Unwelcomed
    <3>2. ASSUME NEW fs \in Seq(GoodFrames), Enqueue(fs) PROVE ~closing /\ ~Unwelcomed
      BY <1>0, <3>2, EnqueueAll, Behind
    <3> QED
      BY <1>0, <1>6, <3>1, <3>2, Enqueues
  <2>4. m \in buffered \/ Comes(m, 0)
    BY <1>0, <1>z, <1>b, <2>1, <2>3
  <2>5. Comes(m, 0) => Comes(m, 0)'
    BY <1>0, <1>6, <2>1, <2>2, Carries
  <2> QED
    BY <2>1, <2>4, <2>5
<1>7. CASE GetWelcome
  <2> DEFINE h == Head(queue).s
             now == CASE h < last -> 0
                      [] h >= last /\ ~welcomed /\ last = 0 -> h
                      [] OTHER -> last
  <2>1. Gets("welcome") /\ last' = now /\ CatchUp(now)
    BY <1>7 DEF GetWelcome
  <2> HIDE DEF now
  <2>2. now # None
    BY <1>a, <1>z, <2>1
  <2> QED
    BY <2>1, <2>2 DEF CatchUp, Ask
<1>8. CASE GetResync
  <2>1. flight' = last'
    BY <1>8 DEF GetResync, Ask
  <2> QED
    BY <1>a, <1>z, <2>1
<1>9. CASE GetAnswer
  <2>1. /\ Gets("res")
        /\ UNCHANGED <<head, low, unfanned, deferred, phase, closing, flight, last, buffered>>
    BY <1>9 DEF GetAnswer, SessionButQueue, outbox, client
  <2>2. (Comes(m, 0) => Comes(m, 0)') /\ ~Unwelcomed
    BY <1>0, <2>1, Ahead
  <2>3. m \in buffered \/ Comes(m, 0)
    BY <1>0, <1>z, <1>b, <2>1, <2>2
  <2> QED
    BY <2>1, <2>2, <2>3
<1>10. CASE GetPage
  <2>1. /\ Gets("page")
        /\ UNCHANGED <<head, low, unfanned, deferred, phase, closing, last, buffered>>
    BY <1>10 DEF GetPage, SessionButQueue, outbox, client
  <2>2. /\ Head(queue) = queue[1] /\ queue[1].t = "page" /\ queue[1] \in GoodFrames
        /\ 1 \in 1..Len(queue)
    BY <1>0, <2>1, Popped
  <2>3. queue[1].s \in Nat
    BY <2>2 DEF GoodFrames, Frames
  <2>4. flight \in 0..head
    BY <1>0, <2>2 DEF OneSync, NoAnswer, IsAnswer, Base
  <2>5. ~(queue[1].more /\ queue[1].s > flight) /\ ~again
    BY <1>10, <1>a, <2>2, <2>3 DEF GetPage, Ask
  <2>6. ~queue[1].more
    BY <2>1, <2>2, <2>5 DEF MorePages
  <2>7. flight <= last
    <3> SUFFICES ASSUME flight > last PROVE FALSE
      BY <1>0, <2>4
    <3>1. flight # None
      BY <1>a, <2>4
    <3>2. PICK i \in 1..Len(queue) : \A j \in 1..Len(queue) : IsAnswer(queue[j]) => i < j
      BY <2>1, <2>5, <3>1 DEF NoJump
    <3> QED
      BY <2>2, <3>2 DEF IsAnswer
  <2>8. b \in low..head /\ m \in flight + 1..b
    BY <1>0, <2>1, <2>4, <2>7
  <2>9. m = b \/ b \in buffered
    BY <2>1
  <2>10. Comes(m, 1)
    BY <2>1, <2>2, <2>6, <2>8, <2>9 DEF LastPage
  <2>11. Comes(m, 0)'
    <3>1. Comes(m, 0 + 1) => Comes(m, 0)'
      BY <1>0, <2>1, Ahead
    <3> QED
      BY <2>10, <3>1
  <2> QED
    BY <2>11
<1>11. CASE GetEvent
  <2>1. /\ Gets("evt")
        /\ UNCHANGED <<head, low, unfanned, deferred, phase, closing>>
    BY <1>0, <1>11, EventTaken DEF SessionButQueue, outbox
  <2>2. PICK n \in 1..head, upto \in last..head :
            /\ queue[1].s = n
            /\ upto + 1 \notin buffered \cup {n}
            /\ (n <= last /\ UNCHANGED client) \/ Empties(n) \/ HandsOn(n, upto)
    BY <1>0, <1>11, EventTaken
  <2>3. last <= upto /\ upto \in Nat /\ n \in Nat
    BY <1>0
  <2>4. ~Unwelcomed /\ (Comes(m, 0) /\ m # n => Comes(m, 0)')
    <3>1. UNCHANGED <<unfanned, deferred>> /\ "evt" # "welcome"
      BY <2>1
    <3>2. /\ Comes(m, 0) /\ ~("evt" = "evt" /\ queue[1].s = m) => Comes(m, 0)'
          /\ Unwelcomed => Unwelcomed'
      BY <1>0, <2>1, <3>1, Ahead
    <3> QED
      BY <2>2, <3>2
  <2>5. CatchUp(last) => flight' # None
    BY <1>a DEF CatchUp, Ask
  <2>6. CASE n <= last /\ UNCHANGED client
    <3>1. UNCHANGED <<flight, last, buffered>>
      BY <2>6 DEF client
    <3>2. m \in buffered \/ Comes(m, 0)
      BY <1>0, <1>z, <1>b, <2>1, <2>4, <3>1
    <3>3. m # n
      BY <1>0, <2>3, <2>6, <3>1
    <3> QED
      BY <2>4, <3>1, <3>2, <3>3
  <2>7. ~Empties(n)
    BY <1>a, <2>5 DEF Empties
  <2>8. CASE HandsOn(n, upto)
    <3>0. /\ last' = upto /\ buffered' = (buffered \cup {n}) \ (last + 1..upto)
          /\ n > last /\ ~(n > last + 1) /\ flight = None
      BY <2>5, <2>8 DEF HandsOn
    <3>1. n = last + 1
      BY <1>0, <2>3, <3>0
    <3>2. n <= upto
      BY <1>0, <2>2, <2>3, <3>1
    <3>3. m > upto /\ b > upto /\ m # n /\ b # n /\ m \in Nat
      BY <1>0, <1>z, <2>3, <3>0, <3>2
    <3>4. m = b \/ b \in buffered
      BY <3>0, <3>3
    <3>5. m \in buffered \/ Comes(m, 0)
      BY <1>0, <1>z, <1>b, <2>1, <2>3, <2>4, <3>0, <3>4, <3>3
    <3>6. m \in buffered => m \in buffered'
      BY <1>0, <2>3, <3>0, <3>3
    <3> QED
      BY <2>4, <3>3, <3>5, <3>6
  <2> QED
    BY <2>2, <2>6, <2>7, <2>8
<1> QED
  BY <1>1, <1>2, <1>3, <1>4, <1>5, <1>6, <1>7, <1>8, <1>9, <1>10, <1>11 DEF Next

(* In every reachable state what the client lacks is on its way.              *)
THEOREM StreamCovered == Spec => []Cover
<1>1. Init => Cover
  <2> SUFFICES ASSUME Init PROVE Cover
    OBVIOUS
  <2>1. IInv
    BY InitIInv
  <2>2. /\ 1..Len(queue) = {} /\ flight = None /\ phase = "off" /\ serving = "none"
        /\ buffered = {} /\ deferred = <<>>
    BY DEF Init
  <2> QED
    BY <2>1, <2>2 DEF Cover, Gap, NoJump, MoreRead, MorePages, LastRead, LastPage, Settled
<1>2. Cover /\ [Next]_vars => Cover'
  <2> SUFFICES ASSUME Cover, [Next]_vars PROVE Cover'
    OBVIOUS
  <2>1. IInv /\ Gap /\ NoJump /\ MoreRead /\ MorePages /\ LastRead /\ LastPage /\ Settled
    BY DEF Cover
  <2>2. IInv'
    BY <2>1, BaseStep, OneSyncStep, HelloStep DEF IInv
  <2>3. Gap' /\ NoJump' /\ MoreRead' /\ MorePages'
    BY <2>1, GapStep, NoJumpStep, MoreReadStep, MorePagesStep
  <2>4. LastRead' /\ LastPage' /\ Settled'
    BY <2>1, LastReadStep, LastPageStep, SettledStep
  <2> QED
    BY <2>2, <2>3, <2>4 DEF Cover
<1> QED
  BY <1>1, <1>2, PTL DEF Spec

(* A stream that has come to rest has brought the client every stored event:  *)
(* hold, replay, release and defer lose no live frame that the replay did    *)
(* not bring, and an emptied buffer is asked for again.                      *)
THEOREM StreamCatchesUp == Spec => []CaughtUp
<1>1. Cover => CaughtUp
  <2> SUFFICES ASSUME Cover, Quiet, NEW n \in low..head, ~(n <= last) PROVE FALSE
    BY DEF CaughtUp
  <2>1. Settled /\ Gap /\ last \in Nat /\ low \in Nat /\ head \in Nat
    BY DEF Cover, IInv, Base
  <2>2. /\ phase = "ready" /\ ~closing /\ flight = None /\ serving = "none" /\ unfanned = {}
        /\ 1..Len(queue) = {}
    BY DEF Quiet
  <2>3. 1..Len(deferred) = {}
    BY <2>1, <2>2 DEF Gap
  <2>4. ~Unwelcomed /\ \A m : ~Comes(m, 0)
    BY <2>2, <2>3 DEF Unwelcomed, Comes, Queued
  <2>5. n \in last + 1..n /\ last + 1 \in last + 1..n
    BY <2>1
  <2>6. n \in buffered
    BY <2>1, <2>2, <2>4, <2>5 DEF Settled
  <2>7. last + 1 \in buffered
    BY <2>1, <2>2, <2>4, <2>5, <2>6 DEF Settled
  <2> QED
    BY <2>1, <2>7 DEF Gap
<1> QED
  BY <1>1, StreamCovered, PTL
=============================================================================
