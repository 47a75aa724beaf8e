----------------------------- MODULE EdgeManager -----------------------------
(***************************************************************************)
(* The advice of a site-day (t1/analytics/edge_manager.py): an action of   *)
(* the signed library answers a deviation, as it comes (recommend) or as   *)
(* the best of a batch (schedule), under a cap per action and one for the  *)
(* site.  schedule is modelled as its loop, one ranked candidate a step;   *)
(* no other call runs in between, but the process may end.  What the       *)
(* manager knows of the day is memory.  Confidence is in percent; refused  *)
(* candidates are not counted by reason.  A definition named for a fault   *)
(* is the wrong form of the one after it.                                  *)
(***************************************************************************)
EXTENDS Integers, Sequences, FiniteSets, Functions

CONSTANTS
  LIBRARY,       \* the actions, in the order of the library
  Batches,       \* sequences of candidates that schedule may be called with
  MAX_RECOMMENDATIONS_PER_SITE_PER_DAY,
  MaxDay,        \* bound of the model: site-days
  MaxRestarts    \* bound of the model: restarts of the process in a day

Action == Range(LIBRARY)
ActionId == {a.action_id : a \in Action}
SITE_CAP == MAX_RECOMMENDATIONS_PER_SITE_PER_DAY

Entry ==
  [action_id : STRING, metric : STRING, threshold : Int, impact_score : Int,
   direction : {"above", "below", "either"}, confidence_floor : Int, max_per_site_per_day : Nat]
Candidate ==
  [metric : STRING, observed : Int, baseline : Int, sigma : Int, windows : Nat,
   cause : STRING, factors : SUBSET STRING, confidence : 0..100]

\* The third part is a condition on the signed library that the code does not check: no
\* action_id stands in two entries.  With two of one id and different caps, the daily count
\* that they share would be held against either.
ASSUME EdgeManagerAssumption ==
  /\ LIBRARY \in Seq(Entry)
  /\ Batches \subseteq Seq(Candidate)
  /\ \A a, b \in Action : a.action_id = b.action_id => a = b
  /\ SITE_CAP \in Nat /\ MaxDay \in Nat \ {0} /\ MaxRestarts \in Nat

VARIABLES
  library_valid,   \* whether the library's signature verifies
  day,
  issued,          \* len(_issued): recommendations of the day
  per_action,      \* _per_action: action_id -> recommendations of the day
  scored,          \* the loop of schedule: eligible candidates still to come
  \* history, read by no action
  asked,           \* the last batch: all that was scored, what has won, the counters at its start
  given,           \* recommendations made on this date
  advice,          \* action_id -> recommendations made on this date
  lives            \* processes that have run on this date

counters == <<issued, per_action>>
history == <<asked, given, advice, lives>>
vars == <<library_valid, day, counters, scored, history>>

None == [action_id \in ActionId |-> 0]
Idle == [batch |-> {}, won |-> {}, issued |-> 0, per_action |-> None]

Init ==
  /\ library_valid \in BOOLEAN /\ day = 1
  /\ issued = 0 /\ per_action = None
  /\ scored = {}
  /\ asked = Idle /\ given = 0 /\ advice = None /\ lives = 1

----------------------------------------------------------------------------
(* Which action answers a candidate *)

Cause == {"staffing_shortfall", "queue_breach", "promotion_effect", "weather",
          "festival_or_holiday", "stock_out", "camera_degraded", "unknown"}
Factor == {"rain", "school_term", "trading_hours_change", "promotion_active", "till_count_low",
           "coverage_degraded"}
UNKNOWN_CAUSE_CONFIDENCE == 30
MIN_PERSISTENCE_WINDOWS == 2

\* explain: one word that is not on the list makes the whole explanation worth 30
Confidence(c) ==
  IF c.cause \in Cause /\ c.factors \subseteq Factor THEN c.confidence
  ELSE UNKNOWN_CAUSE_CONFIDENCE

Distance(c) == IF c.observed >= c.baseline THEN c.observed - c.baseline ELSE c.baseline - c.observed
Direction(c) == IF c.observed >= c.baseline THEN "above" ELSE "below"
\* abs(sigmas) >= threshold; without a spread there are no sigmas
Reaches(c, threshold) == IF c.sigma <= 0 THEN threshold <= 0 ELSE Distance(c) >= threshold * c.sigma

\* for_metric: the first entry of the library that has the metric, if there is one
ForMetric(metric) ==
  {LIBRARY[i] : i \in {j \in DOMAIN LIBRARY :
                          /\ LIBRARY[j].metric = metric
                          /\ \A k \in 1..(j - 1) : LIBRARY[k].metric # metric}}

WithinAction(action) == per_action[action.action_id] < action.max_per_site_per_day

\* The action a candidate earns, if it earns one
Eligible(c) ==
  {action \in ForMetric(c.metric) :
     /\ c.windows >= MIN_PERSISTENCE_WINDOWS
     /\ Reaches(c, action.threshold)
     /\ action.direction \in {"either", Direction(c)}
     /\ Confidence(c) >= action.confidence_floor
     /\ WithinAction(action)}

----------------------------------------------------------------------------
(* The calls *)

Issue(action) ==
  /\ issued' = issued + 1
  /\ per_action' = [per_action EXCEPT ![action.action_id] = @ + 1]
  /\ given' = given + 1
  /\ advice' = [advice EXCEPT ![action.action_id] = @ + 1]

Room == issued < SITE_CAP

Recommend(c) ==
  /\ scored = {} /\ library_valid
  /\ Room /\ \E action \in Eligible(c) : Issue(action)
  /\ asked' = Idle
  /\ UNCHANGED <<library_valid, day, scored, lives>>

Scored(batch) ==
  UNION {{[action |-> a, score |-> Confidence(batch[i]) * a.impact_score, at |-> i] :
            a \in Eligible(batch[i])} : i \in DOMAIN batch}
Schedule(batch) ==
  /\ scored = {} /\ library_valid
  /\ scored' = Scored(batch)
  /\ asked' = [batch |-> Scored(batch), won |-> {}, issued |-> issued, per_action |-> per_action]
  /\ UNCHANGED <<library_valid, day, counters, given, advice, lives>>

\* The sort: the highest score first, equals in order of arrival
BeforeIfLower(x, y) == x.score < y.score \/ (x.score = y.score /\ x.at < y.at)
Before(x, y) == x.score > y.score \/ (x.score = y.score /\ x.at < y.at)
Foremost(x) == x \in scored /\ \A y \in scored \ {x} : Before(x, y)

\* One round of the loop: the candidate is issued, or recorded in capped
IssueRanked(x) ==
  /\ Foremost(x) /\ Room /\ WithinAction(x.action)
  /\ Issue(x.action)
  /\ scored' = scored \ {x}
  /\ asked' = [asked EXCEPT !.won = @ \cup {x}]
  /\ UNCHANGED <<library_valid, day, lives>>
CapRanked(x) ==
  /\ Foremost(x) /\ ~(Room /\ WithinAction(x.action))
  /\ scored' = scored \ {x}
  /\ UNCHANGED <<library_valid, day, counters, history>>

\* new_day goes forwards only, to any later date (the history goes by the date)
LaterOrSame(date) == date >= day
Later(date) == date > day
NewDay(date) ==
  /\ scored = {} /\ Later(date)
  /\ day' = date
  /\ issued' = 0 /\ per_action' = None
  /\ asked' = Idle
  /\ IF date = day THEN UNCHANGED <<given, advice, lives>>
     ELSE given' = 0 /\ advice' = None /\ lives' = 1
  /\ UNCHANGED <<library_valid, scored>>

\* A new process on the same date; the counters are gone.  Its library is the same, and may
\* verify now where it did not, or no longer
Restart ==
  /\ lives <= MaxRestarts
  /\ library_valid' \in BOOLEAN
  /\ issued' = 0 /\ per_action' = None /\ scored' = {}
  /\ asked' = Idle /\ lives' = lives + 1
  /\ UNCHANGED <<day, given, advice>>

Next ==
  \/ \E batch \in Batches : (\E i \in DOMAIN batch : Recommend(batch[i])) \/ Schedule(batch)
  \/ \E x \in scored : IssueRanked(x) \/ CapRanked(x)
  \/ \E date \in 1..MaxDay : NewDay(date)
  \/ Restart

Spec == Init /\ [][Next]_vars

----------------------------------------------------------------------------
(* Properties *)

\* Counters, the batch in the loop and the history have their types.
TypeOK ==
  /\ library_valid \in BOOLEAN
  /\ day \in 1..MaxDay
  /\ issued \in Nat /\ per_action \in [ActionId -> Nat]
  /\ scored \subseteq [action : Action, score : Int, at : Nat]
  /\ given \in Nat /\ advice \in [ActionId -> Nat] /\ lives \in 1..(MaxRestarts + 1)

\* On one date a site is given no more than the cap's number of recommendations, and of
\* one action no more than its own, by each process that runs on that date: neither
\* batches, single calls nor repeated new days add up to more.
CapsHold ==
  /\ given <= lives * SITE_CAP
  /\ \A a \in Action : advice[a.action_id] <= lives * a.max_per_site_per_day

\* What schedule issues of a batch is the best of all that the caps allowed when it was
\* called: no choice within them has more candidates of any score or better, so none has
\* a better n-th candidate and, scores not being negative, none adds up to more.
AtLeast(score, chosen) == {x \in chosen : x.score >= score}
Of(action, chosen) == {x \in chosen : x.action = action}
Allowed(chosen) ==
  /\ asked.issued + Cardinality(chosen) <= SITE_CAP
  /\ \A a \in Action :
       asked.per_action[a.action_id] + Cardinality(Of(a, chosen)) <= a.max_per_site_per_day
BestOfTheDay ==
  scored = {} =>
    /\ Allowed(asked.won)
    /\ \A chosen \in SUBSET asked.batch : Allowed(chosen) =>
         \A x \in chosen :
           Cardinality(AtLeast(x.score, chosen)) <= Cardinality(AtLeast(x.score, asked.won))

=============================================================================
