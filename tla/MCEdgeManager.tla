---------------------------- MODULE MCEdgeManager ----------------------------
(***************************************************************************)
(* A library of four actions, whose caps add up to more than the site's:   *)
(* one may be taken twice, and one is never found, for its metric is that  *)
(* of another.  The candidates differ in what makes one eligible, and in   *)
(* their scores, of which two are equal.                                   *)
(***************************************************************************)
EXTENDS EdgeManager

NewEntry(id, metric, impact, direction, cap) ==
  [action_id |-> id, metric |-> metric, threshold |-> 2, impact_score |-> impact,
   direction |-> direction, confidence_floor |-> 70, max_per_site_per_day |-> cap]
MCLibrary ==
  <<NewEntry("open_till", "queue", 2, "above", 2), NewEntry("move_staff", "dwell", 3, "either", 1),
    NewEntry("close_till", "queue", 9, "above", 1), NewEntry("promote", "footfall", 2, "below", 1)>>

Fine(metric, observed, confidence) ==
  [metric |-> metric, observed |-> observed, baseline |-> 10, sigma |-> 2, windows |-> 2,
   cause |-> "weather", factors |-> {"rain"}, confidence |-> confidence]
Candidates ==
  <<Fine("queue", 14, 75), Fine("queue", 14, 90), Fine("footfall", 6, 90), Fine("dwell", 4, 70)>>
NotEligible ==
  {[Fine("queue", 14, 90) EXCEPT !.windows = 1], [Fine("queue", 14, 90) EXCEPT !.sigma = 0],
   Fine("queue", 6, 90), Fine("queue", 13, 90), Fine("dwell", 4, 69), Fine("dust", 14, 90),
   [Fine("dwell", 4, 90) EXCEPT !.factors = {"man in a red coat"}]}

\* Four candidates a batch, the weakest first or the strongest
Arrivals ==
  {[i \in 1..4 |-> Candidates[pick[i]]] :
     pick \in {p \in [1..4 -> 1..4] : \/ \A i \in 1..3 : p[i] <= p[i + 1]
                                      \/ \A i \in 1..3 : p[i] >= p[i + 1]}}
MCBatches == Arrivals \cup {<<c>> : c \in Range(Candidates) \cup NotEligible}

=============================================================================
