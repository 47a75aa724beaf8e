----------------------------- MODULE Footfall ------------------------------
(***************************************************************************)
(* From detections to a published count: the tracker                       *)
(* (t1/analytics/tracking.py) joins the detections of successive frames    *)
(* into tracks, a track that has aged out is closed and added to the       *)
(* aggregation window (t1/analytics/aggregation.py), and a window that     *)
(* closes publishes each metric if its floor allows (t1/control/kanon.py). *)
(*                                                                         *)
(* One tracker serves several streams, whose clocks run with the host's    *)
(* from origins of their own and may be set at any time.  The caller is    *)
(* not in the repository: it calls update with the clock of the frame, as  *)
(* the tests do, hands what update closes to the window at once, and       *)
(* closes windows whenever it likes.  A box is its extent along one axis.  *)
(* Tracks are kept under the number in their id, which is the order of the *)
(* dict: an id is one more than the last.  Coverage, clock offset and      *)
(* window_start are carried along unread.                                  *)
(* A definition named for a fault is the wrong form of the one after it.   *)
(***************************************************************************)
EXTENDS Integers, Sequences, FiniteSets, Totals

CONSTANTS
  Stream,        \* stream_ids
  Box,           \* where somebody may stand: [x, w]
  Frame,         \* what a frame may show: sequences of boxes
  MaxGap,        \* max_gap_ms, in ticks
  Second,        \* 1000 ms, in ticks
  CanonFloor,    \* CANON_FLOORS, of the two metrics
  PolicyFloor,   \* floors a policy may set for them; 0 sets none
  Unknown,       \* the value of a suppressed metric: None
  Origins,       \* origins of a stream's clock
  MaxNow,        \* bound on the host's clock
  MaxFed         \* bound on the detections fed

Metric == {"footfall", "dwell_time"}
MIN_SAMPLES == 2

ASSUME FootfallAssumption ==
  /\ Box \subseteq [x : Int, w : Nat \ {0}] /\ Frame \subseteq Seq(Box)
  /\ MaxGap \in Nat /\ Second \in Nat \ {0}
  /\ CanonFloor \in [Metric -> Nat] /\ PolicyFloor \subseteq [Metric -> Nat]
  /\ Unknown \notin Int /\ Origins \subseteq Nat
  /\ MaxNow \in Nat /\ MaxFed \in Nat

VARIABLES
  open,         \* Tracker._open: id -> track
  started,      \* Tracker.started, and _next_id: they move together
  closed,       \* Tracker.closed
  dwells,       \* AggregationWindow._dwells_ms, by track; _visits is their number
  now, origin,  \* the host's clock, and each stream's origin
  report,       \* what the last window to close published
  \* history, read by no action but the bound
  fed,          \* detections fed to the tracker
  sampled,      \* samples of the tracks that were closed
  visits,       \* tracks closed with MIN_SAMPLES or more
  reported      \* sum of k over the windows that were closed

footfall_vars ==
  <<open, started, closed, dwells, now, origin, report, fed, sampled, visits, reported>>

NothingYet == [k |-> 0, value |-> [m \in Metric |-> Unknown]]

Nothing == [i \in {} |-> 0]

FootfallInit ==
  /\ open = Nothing /\ started = 0 /\ closed = 0
  /\ dwells = Nothing
  /\ now = 0 /\ origin \in [Stream -> Origins]
  /\ report = NothingYet
  /\ fed = 0 /\ sampled = 0 /\ visits = 0 /\ reported = 0

Clock(s) == now + origin[s]

----------------------------------------------------------------------------
(* Association *)

\* iou, as a fraction: what two boxes share of what they cover together
Nearer(m, n) == IF m <= n THEN m ELSE n
Farther(m, n) == IF m >= n THEN m ELSE n
Shared(a, b) == Farther(0, Nearer(a.x + a.w, b.x + b.w) - Farther(a.x, b.x))
Iou(a, b) == [num |-> Shared(a, b), den |-> a.w + b.w - Shared(a, b)]
AtLeast(p, q) == p.num * q.den >= q.num * p.den
IOU_MATCH == [num |-> 1, den |-> 5]

Detection(s, box) == [stream |-> s, ts |-> Clock(s), box |-> box]

\* _best_match: the candidates a detection may continue
ContinuesAnytime(track, d) == track.stream = d.stream /\ AtLeast(Iou(track.box, d.box), IOU_MATCH)
Continues(track, d) ==
  /\ track.stream = d.stream
  /\ d.ts - track.last <= MaxGap
  /\ AtLeast(Iou(track.box, d.box), IOU_MATCH)

\* ... and the best of them; of equals, the latest
IsBestMatch(i, S, tracks, d) ==
  \A j \in S : /\ AtLeast(Iou(tracks[i].box, d.box), Iou(tracks[j].box, d.box))
               /\ AtLeast(Iou(tracks[j].box, d.box), Iou(tracks[i].box, d.box)) => j <= i

NewTrack(d) == [stream |-> d.stream, first |-> d.ts, last |-> d.ts, box |-> d.box, samples |-> 1]
Continued(track, d) == [track EXCEPT !.last = d.ts, !.box = d.box, !.samples = @ + 1]

\* candidates are the tracks that were open before the frame and took nothing from it
LiveCandidates(a) == DOMAIN a.tracks
Candidates(a) == DOMAIN open \ a.taken

\* one round of the loop; _new_id is started + 1
With(tracks, i, track) ==
  [j \in DOMAIN tracks \cup {i} |-> IF j = i THEN track ELSE tracks[j]]
Associate(a, d) ==
  LET S == {i \in Candidates(a) : Continues(a.tracks[i], d)}
      best == CHOOSE i \in S : IsBestMatch(i, S, a.tracks, d)
      id == a.started + 1
  IN IF S = {}
     THEN [tracks |-> With(a.tracks, id, NewTrack(d)), taken |-> a.taken, started |-> id]
     ELSE [tracks |-> With(a.tracks, best, Continued(a.tracks[best], d)),
           taken |-> a.taken \cup {best}, started |-> a.started]

Associated(s, frame) ==
  LET after[n \in 0..Len(frame)] ==
        IF n = 0 THEN [tracks |-> open, taken |-> {}, started |-> started]
        ELSE Associate(after[n - 1], Detection(s, frame[n]))
  IN after[Len(frame)]

----------------------------------------------------------------------------
(* Closing tracks, and the window they go to *)

Counts(track) == track.samples >= MIN_SAMPLES
Dwell(track) == track.last - track.first
Samples(tracks) == Total([i \in DOMAIN tracks |-> tracks[i].samples])

\* _close, and AggregationWindow.add of what it returns
Close(tracks, gone) ==
  LET counted == {i \in gone : Counts(tracks[i])}
  IN /\ open' = Part(tracks, DOMAIN tracks \ gone)
     /\ closed' = closed + Cardinality(gone)
     /\ dwells' = [i \in DOMAIN dwells \cup counted |->
                     IF i \in counted THEN Dwell(tracks[i]) ELSE dwells[i]]
     /\ sampled' = sampled + Samples(Part(tracks, gone))
     /\ visits' = visits + Cardinality(counted)

Stale(track, at) == at - track.last > MaxGap

\* update: associate the frame's detections, then close_stale on the frame's clock,
\* whatever stream a track belongs to
Update(s, frame) ==
  LET a == Associated(s, frame)
  IN /\ fed + Len(frame) <= MaxFed
     /\ Close(a.tracks, {i \in DOMAIN a.tracks : Stale(a.tracks[i], Clock(s))})
     /\ started' = a.started
     /\ fed' = fed + Len(frame)
     /\ UNCHANGED <<now, origin, report, reported>>

CloseAll ==
  /\ Close(open, DOMAIN open)
  /\ UNCHANGED <<started, now, origin, report, fed, reported>>

----------------------------------------------------------------------------
(* Closing a window *)

\* round: to the nearest, halves to even
Rounded(n, d) ==
  LET q == n \div d
      r == 2 * (n % d)
  IN IF r > d \/ (r = d /\ q % 2 = 1) THEN q + 1 ELSE q

\* the n-th of the dwells, in order of length
Ranked(n) ==
  dwells[CHOOSE i \in DOMAIN dwells :
           /\ Cardinality({j \in DOMAIN dwells : dwells[j] < dwells[i]}) < n
           /\ n <= Cardinality({j \in DOMAIN dwells : dwells[j] <= dwells[i]})]

\* round(_median(_dwells_ms) / 1000); `or 0` of an empty window
MedianDwell ==
  LET n == Cardinality(DOMAIN dwells)
  IN IF n = 0 THEN 0
     ELSE IF n % 2 = 1 THEN Rounded(Ranked((n \div 2) + 1), Second)
     ELSE Rounded(Ranked(n \div 2) + Ranked((n \div 2) + 1), 2 * Second)

\* effective_floor: policy may raise a floor, never lower it
FloorAsPolicy(m, policy) == IF policy[m] = 0 THEN CanonFloor[m] ELSE policy[m]
EffectiveFloor(m, policy) == Farther(CanonFloor[m], policy[m])

\* _judge: below its floor a metric is unknown, not zero
Judge(m, value, k, policy) == IF k < EffectiveFloor(m, policy) THEN Unknown ELSE value

\* close; the caller starts the next window with nothing in it
CloseWindow(policy) ==
  LET k == Cardinality(DOMAIN dwells)
  IN /\ report' = [k |-> k,
                   value |-> [m \in Metric |->
                                Judge(m, IF m = "footfall" THEN k ELSE MedianDwell, k, policy)]]
     /\ reported' = reported + k
     /\ dwells' = Nothing
     /\ UNCHANGED <<open, started, closed, now, origin, fed, sampled, visits>>

----------------------------------------------------------------------------
(* The surroundings *)

Tick ==
  /\ now < MaxNow /\ now' = now + 1
  /\ UNCHANGED <<open, started, closed, dwells, origin, report, fed, sampled, visits, reported>>

SetClock(s) ==
  /\ \E o \in Origins \ {origin[s]} : origin' = [origin EXCEPT ![s] = o]
  /\ UNCHANGED <<open, started, closed, dwells, now, report, fed, sampled, visits, reported>>

FootfallNext ==
  \/ \E s \in Stream, frame \in Frame : Update(s, frame)
  \/ CloseAll
  \/ \E policy \in PolicyFloor : CloseWindow(policy)
  \/ Tick
  \/ \E s \in Stream : SetClock(s)

FootfallSpec == FootfallInit /\ [][FootfallNext]_footfall_vars

----------------------------------------------------------------------------
(***************************************************************************)
(* Properties                                                              *)
(***************************************************************************)

Track == [stream : Stream, first : Int, last : Int, box : Box, samples : Nat \ {0}]
Ids == 1..started

\* Types; a track is open or among the visits of the window, never both.
FootfallTypeOK ==
  /\ started \in Nat /\ closed \in Nat
  /\ DOMAIN open \subseteq Ids /\ open \in [DOMAIN open -> Track]
  /\ DOMAIN dwells \subseteq Ids \ DOMAIN open /\ dwells \in [DOMAIN dwells -> Int]
  /\ now \in 0..MaxNow /\ origin \in [Stream -> Origins]
  /\ report \in [k : Nat, value : [Metric -> Int \cup {Unknown}]]
  /\ fed \in Nat /\ sampled \in Nat /\ visits \in Nat /\ reported \in Nat

\* "Two overlapping shoppers ... must become two visits" (tracking.py:119): whatever
\* is open, and however the boxes overlap, the detections of a frame are the latest
\* samples of as many tracks, all of the frame's stream.
OneVisitEach ==
  [][fed' # fed =>
       LET touched == {i \in DOMAIN open' : i \notin DOMAIN open \/ open'[i] # open[i]}
       IN /\ Cardinality(touched) = fed' - fed
          /\ \A i, j \in touched : /\ open'[i].stream = open'[j].stream
                                   /\ open'[i].last = open'[j].last]_footfall_vars

\* "A two-second gap is a different visit" (tracking.py:26): nothing continues a track
\* after a longer gap on its stream's clock, however long it has stayed open for want
\* of a frame that closes it.  And no gap is one visit, unless the tracker is drained
\* or the tracks of one stream are closed by the clock of another that runs ahead.
VisitsEndAtGaps ==
  [][\A i \in DOMAIN open :
       /\ i \in DOMAIN open' => open'[i].last - open[i].last <= MaxGap
       /\ i \notin DOMAIN open' =>
            \/ CloseAll
            \/ Clock(open[i].stream) - open[i].last > MaxGap
            \/ \E s \in Stream : origin[s] > origin[open[i].stream]]_footfall_vars

\* The published counts add up: each detection is a sample of one track, each closed
\* track of two samples or more is in one window, whenever windows and tracks are
\* closed.  And no policy gets a value out of fewer visits than canon permits.
WindowsAddUp ==
  /\ started = closed + Cardinality(DOMAIN open)
  /\ fed = sampled + Samples(open)
  /\ visits = reported + Cardinality(DOMAIN dwells)
  /\ \A m \in Metric : report.value[m] # Unknown => report.k >= CanonFloor[m]
  /\ report.value["footfall"] \in {report.k, Unknown}

=============================================================================
