------------------------------- MODULE Metrics -------------------------------
(***************************************************************************)
(* domain/metrics.py and domain/shares.py: the numbers bots report, the    *)
(* tiles the dashboard and the brief show of them, and the read-only links *)
(* that show some of them to a stranger.  A link is opened in three steps, *)
(* the SELECT of its row, the UPDATE of its counters and the snapshot, and *)
(* the owner and the bots act between them.                                *)
(***************************************************************************)
EXTENDS Naturals, Integers, Sequences, FiniteSets, FiniteSetsExt, SequencesExt

CONSTANTS
  Reporters,         \* bots
  Keys,              \* metric keys, ordered numbers
  Readings,          \* values a bot may report
  Failed,            \* the value of a read that failed
  Freshness,         \* freshness budgets a report may carry
  Everyone,          \* the scope of a link to the whole fleet
  Links, Readers,    \* share links; open page requests
  DayHours,          \* 24 hours on the clock of the model
  Skew,              \* _CLOCK_SKEW
  MaxTiles,          \* MAX_TILES
  MaxMetricClock, MaxPoints  \* bounds: the clock, reports stored

(* The clock and what is measured on it are numbers of hours.                *)
ASSUME MetricsAssumption ==
  /\ DayHours \in Nat /\ Skew \in Nat /\ MaxMetricClock \in Nat
  /\ Keys \subseteq Nat /\ Freshness \subseteq Nat

VARIABLES
  mClock,
  points,   \* metric_points in the order they were written
  link,     \* share link -> its row
  reader    \* page request -> where it is and what it holds

metricVars == <<mClock, points, link, reader>>

MetricPoints == [bot : Reporters, key : Keys, value : Readings \cup {Failed},
                 asOf : Nat, freshness : Freshness, shareable : BOOLEAN]
ShareLinks == [state : {"absent", "active", "revoked"}, scope : Reporters \cup {Everyone},
               expires : Nat, opens : Nat]
NoLink   == [state |-> "absent", scope |-> Everyone, expires |-> 0, opens |-> 0]
NoReader == [at |-> "idle"]

MetricTypeOK ==
  /\ mClock \in 0..MaxMetricClock
  /\ points \in Seq(MetricPoints)
  /\ \A l \in Links : link[l] \in ShareLinks
  /\ \A x \in Readers : reader[x].at \in {"idle", "found", "counted", "shown", "refused"}

MetricInit ==
  /\ mClock = 0
  /\ points = <<>>
  /\ link = [l \in Links |-> NoLink]
  /\ reader = [x \in Readers |-> NoReader]

-----------------------------------------------------------------------------
(* report: a value is stored unless _moment finds its time in the future.    *)
Report(p) ==
  /\ Len(points) < MaxPoints
  /\ p.asOf <= mClock + Skew
  /\ points' = Append(points, p)
  /\ UNCHANGED <<mClock, link, reader>>

\* Each bot's latest point of a key: the latest time, and of two with the same
\* time the later write.
Of(k, b)     == {i \in DOMAIN points : points[i].key = k /\ points[i].bot = b}
LatestTime(k, b) == Max({points[i].asOf : i \in Of(k, b)})
Latest(k, b) == points[Max({i \in Of(k, b) : points[i].asOf = LatestTime(k, b)})]
ReportersOf(k) == {b \in Reporters : Of(k, b) # {}}
Known        == {k \in Keys : ReportersOf(k) # {}}

\* Entries are sorted newest first; two of the same time stay in the order in
\* which that time was first written.
FirstWrite(k, b) == Min({i \in Of(k, b) : points[i].asOf = LatestTime(k, b)})
Newest(k) ==
  CHOOSE b \in ReportersOf(k) : \A c \in ReportersOf(k) :
    \/ LatestTime(k, c) < LatestTime(k, b)
    \/ LatestTime(k, c) = LatestTime(k, b) /\ FirstWrite(k, b) <= FirstWrite(k, c)

Stale(p) == mClock - p.asOf > p.freshness

Status(k) ==
  LET newest  == Latest(k, Newest(k))
      current == {p.value : p \in {q \in {Latest(k, b) : b \in ReportersOf(k)} :
                                     q.value # Failed /\ ~Stale(q)}}
  IN  IF newest.value = Failed THEN "error"
      ELSE IF Stale(newest) THEN "stale"
      ELSE IF Cardinality(current) > 1 THEN "conflict"
      ELSE "ok"

\* _delta: the change since the last value 24 to 48 hours before the newest.
Earlier(k) ==
  {i \in Of(k, Newest(k)) :
     /\ points[i].value # Failed
     /\ points[i].asOf >= LatestTime(k, Newest(k)) - 2 * DayHours
     /\ points[i].asOf <= LatestTime(k, Newest(k)) - DayHours}
Delta(k) ==
  LET newest == Latest(k, Newest(k))
      last   == {i \in Earlier(k) : \A j \in Earlier(k) : points[j].asOf <= points[i].asOf}
  IN  IF newest.value = Failed \/ Earlier(k) = {} THEN {}
      ELSE {newest.value - points[i].value : i \in last}

\* _tile: shareable only when every bot's latest point is.
Tile(k) ==
  [key |-> k, value |-> Latest(k, Newest(k)).value, status |-> Status(k), delta |-> Delta(k),
   bot |-> Newest(k),
   shareable |-> \A b \in ReportersOf(k) : Latest(k, b).shareable,
   reports |-> [b \in ReportersOf(k) |-> Latest(k, b).value]]

\* tiles: the newest keys first, the larger key of two as new, at most `limit`.
KeyTime(k)        == Max({LatestTime(k, b) : b \in ReportersOf(k)})
KeyBefore(k, l)   == KeyTime(k) > KeyTime(l) \/ (KeyTime(k) = KeyTime(l) /\ k > l)
Tiles(limit) ==
  LET ordered == SetToSortSeq(Known, KeyBefore)
      shownKeys == SubSeq(ordered, 1, IF Len(ordered) < limit THEN Len(ordered) ELSE limit)
  IN  [i \in DOMAIN shownKeys |-> Tile(shownKeys[i])]

-----------------------------------------------------------------------------
(* The owner's side of a link: create, revoke, and the status list shows.    *)
CreateShare(l, scope, hours) ==
  /\ link[l].state = "absent"
  /\ link' = [link EXCEPT ![l] = [state |-> "active", scope |-> scope,
                                  expires |-> mClock + hours, opens |-> 0]]
  /\ UNCHANGED <<mClock, points, reader>>

RevokeShare(l) ==
  /\ link[l].state # "absent"
  /\ link' = [link EXCEPT ![l].state = "revoked"]
  /\ UNCHANGED <<mClock, points, reader>>

ShareStatus(l) ==
  IF link[l].state = "revoked" THEN "revoked"
  ELSE IF link[l].expires <= mClock THEN "expired"
  ELSE "active"

(* shared_snapshot: the row is read and checked; a missing, wrong, revoked   *)
(* or expired link is the same refusal.                                      *)
OpenLink(x, l, secretMatches) ==
  /\ reader[x].at = "idle"
  /\ reader' = [reader EXCEPT ![x] =
       IF link[l].state = "active" /\ secretMatches /\ link[l].expires > mClock
       THEN [at |-> "found", link |-> l, row |-> link[l]] ELSE [at |-> "refused"]]
  /\ UNCHANGED <<mClock, points, link>>

\* The faulty write of the whole row as it was read.
CountOpenWholeRow(x) ==
  /\ reader[x].at = "found"
  /\ link' = [link EXCEPT ![reader[x].link] = [reader[x].row EXCEPT !.opens = @ + 1]]
  /\ reader' = [reader EXCEPT ![x] = [at |-> "counted", scope |-> reader[x].row.scope]]
  /\ UNCHANGED <<mClock, points>>

\* `row.opens += 1` and the commit: an UPDATE of the columns that changed, with
\* the count that was read.
CountOpen(x) ==
  /\ reader[x].at = "found"
  /\ link' = [link EXCEPT ![reader[x].link].opens = reader[x].row.opens + 1]
  /\ reader' = [reader EXCEPT ![x] = [at |-> "counted", scope |-> reader[x].row.scope]]
  /\ UNCHANGED <<mClock, points>>

\* The faulty test that the newest report is in scope.
MayShowNewest(tile, scope) == tile.shareable /\ (scope = Everyone \/ tile.bot = scope)

\* visible: a shareable tile all of whose reports the scope covers.
MayShow(tile, scope) ==
  tile.shareable /\ (scope = Everyone \/ DOMAIN tile.reports \subseteq {scope})

\* _snapshot: from the dashboard's capped tiles, after the row's session.
Snapshot(x) ==
  /\ reader[x].at = "counted"
  /\ reader' = [reader EXCEPT ![x] =
       [at |-> "shown", scope |-> reader[x].scope,
        tiles |-> {t \in {Tiles(MaxTiles)[i] : i \in DOMAIN Tiles(MaxTiles)} :
                     MayShow(t, reader[x].scope)}]]
  /\ UNCHANGED <<mClock, points, link>>

MetricTick ==
  /\ mClock < MaxMetricClock
  /\ mClock' = mClock + 1
  /\ UNCHANGED <<points, link, reader>>

MetricNext ==
  \/ \E b \in Reporters, k \in Keys, v \in Readings \cup {Failed}, at \in 0..MaxMetricClock,
        f \in Freshness, s \in BOOLEAN :
       Report([bot |-> b, key |-> k, value |-> v, asOf |-> at, freshness |-> f, shareable |-> s])
  \/ \E l \in Links, scope \in Reporters \cup {Everyone} : CreateShare(l, scope, DayHours)
  \/ \E l \in Links : RevokeShare(l) \/ \E x \in Readers, ok \in BOOLEAN : OpenLink(x, l, ok)
  \/ \E x \in Readers : CountOpen(x) \/ Snapshot(x)
  \/ MetricTick

MetricSpec == MetricInit /\ [][MetricNext]_metricVars

-----------------------------------------------------------------------------
(* A page a stranger sees holds no value of a bot outside its link's scope,  *)
(* and none that its bot did not report as shareable, whatever is reported   *)
(* between the check of the link and the snapshot (shares._snapshot).        *)
SharedInScope ==
  \A x \in Readers : reader[x].at = "shown" =>
    \A t \in reader[x].tiles : \A b \in DOMAIN t.reports :
      /\ reader[x].scope \in {Everyone, b}
      /\ \E i \in DOMAIN points : /\ points[i].bot = b /\ points[i].key = t.key
                                  /\ points[i].value = t.reports[b] /\ points[i].shareable

(* What the owner's list says of a link is final once it is not active: a    *)
(* revoked link stays revoked and an expired one never opens again, although *)
(* an open read the row before the revoke and writes it after                *)
(* (ShareService.revoke, shared_snapshot).                                   *)
RevokeSticks ==
  [][\A l \in Links : link[l].state # "absent" /\ ShareStatus(l) # "active" =>
       ShareStatus(l)' \in {ShareStatus(l), "revoked"}]_metricVars

=============================================================================
