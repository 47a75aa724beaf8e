-------------------------- MODULE EdgeManagerProofs --------------------------
(***************************************************************************)
(* Proofs about EdgeManager, for any library whose action ids are unique,  *)
(* any batches, caps, days and restarts: the caps hold (EdgeInv), and what *)
(* the loop of schedule issues is the best of its batch (Ranking).         *)
(***************************************************************************)
EXTENDS EdgeManager, FiniteSetTheorems, FunctionTheorems, TLAPS

\* The entries of the library are its actions, with a cap and an impact each.
LEMMA Entries ==
  /\ \A i \in DOMAIN LIBRARY : LIBRARY[i] \in Action
  /\ \A a \in Action :
       /\ a.action_id \in ActionId
       /\ a.max_per_site_per_day \in Nat /\ a.impact_score \in Int
  <1>1. \A i \in DOMAIN LIBRARY : LIBRARY[i] \in Entry
    BY EdgeManagerAssumption
  <1>2. Action = {LIBRARY[i] : i \in DOMAIN LIBRARY}
    BY DEF Action, Range
  <1>3. \A a \in Action : a \in Entry
    BY <1>1, <1>2
  <1> QED BY <1>2, <1>3 DEF ActionId, Entry

\* What a candidate earns is an action of the library that is within its cap.
LEMMA EligibleIsAction ==
  ASSUME NEW c, NEW a \in Eligible(c)
  PROVE  a \in Action /\ WithinAction(a)
  BY Entries DEF Eligible, ForMetric

\* A batch is scored into its actions, with whole scores.
LEMMA ScoredTyped ==
  ASSUME NEW batch \in Batches
  PROVE  Scored(batch) \subseteq [action : Action, score : Int, at : Nat]
  <1>1. batch \in Seq(Candidate)
    BY EdgeManagerAssumption
  <1> SUFFICES ASSUME NEW i \in DOMAIN batch, NEW a \in Eligible(batch[i])
               PROVE  [action |-> a, score |-> Confidence(batch[i]) * a.impact_score, at |-> i]
                        \in [action : Action, score : Int, at : Nat]
    BY DEF Scored
  <1>2. a \in Action /\ a.impact_score \in Int
    BY EligibleIsAction, Entries
  <1>3. batch[i] \in Candidate /\ i \in Nat
    BY <1>1
  <1>4. Confidence(batch[i]) \in Int
    BY <1>3 DEF Candidate, Confidence, UNKNOWN_CAUSE_CONFIDENCE
  <1>5. Confidence(batch[i]) * a.impact_score \in Int
    BY <1>2, <1>4
  <1> QED BY <1>2, <1>3, <1>5

----------------------------------------------------------------------------
(* The caps *)

\* What a process has counted is within the caps, and what the date has seen is that,
\* on top of what the caps allowed the processes before it.
WithinCaps ==
  /\ issued <= SITE_CAP /\ given <= (lives - 1) * SITE_CAP + issued
  /\ \A a \in Action :
       /\ per_action[a.action_id] <= a.max_per_site_per_day
       /\ advice[a.action_id] <= (lives - 1) * a.max_per_site_per_day + per_action[a.action_id]

EdgeInv == TypeOK /\ WithinCaps

\* One more life is one more allowance.
LEMMA OneMoreLife ==
  \A n \in Int, cap \in Int : (n + 1 - 1) * cap + 0 = (n - 1) * cap + cap
  OBVIOUS

\* The initial states have the invariant.
LEMMA EdgeInit == Init => EdgeInv
  <1> SUFFICES ASSUME Init PROVE EdgeInv
    OBVIOUS
  <1>1. TypeOK
    BY EdgeManagerAssumption DEF Init, TypeOK, None
  <1>2. \A cap \in Int : (1 - 1) * cap + 0 = 0
    OBVIOUS
  <1>3. WithinCaps
    BY <1>2, Entries, EdgeManagerAssumption DEF Init, WithinCaps, None
  <1> QED BY <1>1, <1>3 DEF EdgeInv

\* A recommendation within its caps keeps the counters and the history within theirs.
LEMMA IssueKeeps ==
  ASSUME EdgeInv, NEW action \in Action, Room, WithinAction(action), Issue(action),
         UNCHANGED <<library_valid, day, lives>>,
         scored' \subseteq [action : Action, score : Int, at : Nat]
  PROVE  EdgeInv'
  <1> DEFINE id == action.action_id
  <1> USE DEF EdgeInv, TypeOK, WithinCaps
  <1>1. /\ issued' = issued + 1 /\ given' = given + 1
        /\ per_action' = [per_action EXCEPT ![id] = @ + 1]
        /\ advice' = [advice EXCEPT ![id] = @ + 1]
    BY DEF Issue
  <1>2. id \in ActionId /\ SITE_CAP \in Nat
    BY Entries, EdgeManagerAssumption
  <1>3. TypeOK'
    BY <1>1, <1>2
  <1>4. issued' <= SITE_CAP /\ given' <= (lives' - 1) * SITE_CAP + issued'
    <2>1. (lives - 1) * SITE_CAP \in Int
      BY <1>2
    <2> QED BY <1>1, <1>2, <2>1 DEF Room
  <1>5. ASSUME NEW a \in Action
        PROVE  /\ per_action'[a.action_id] <= a.max_per_site_per_day
               /\ advice'[a.action_id]
                    <= (lives' - 1) * a.max_per_site_per_day + per_action'[a.action_id]
    <2>1. a.action_id \in ActionId /\ a.max_per_site_per_day \in Nat
      BY Entries
    <2>2. (lives - 1) * a.max_per_site_per_day \in Int
      BY <2>1
    <2>3. CASE a.action_id = id
      <3>1. a = action
        BY <2>3, EdgeManagerAssumption
      <3>2. per_action[id] < a.max_per_site_per_day
        BY <3>1 DEF WithinAction
      <3>3. per_action'[id] = per_action[id] + 1 /\ advice'[id] = advice[id] + 1
        BY <1>1, <1>2
      <3> QED BY <1>2, <2>1, <2>2, <2>3, <3>2, <3>3
    <2>4. CASE a.action_id # id
      <3>1. /\ per_action'[a.action_id] = per_action[a.action_id]
            /\ advice'[a.action_id] = advice[a.action_id]
        BY <1>1, <1>2, <2>1, <2>4
      <3> QED BY <3>1, <2>1
    <2> QED BY <2>3, <2>4
  <1> QED BY <1>3, <1>4, <1>5

\* Every step keeps the invariant.
LEMMA EdgeStep == EdgeInv /\ [Next]_vars => EdgeInv'
  <1> SUFFICES ASSUME EdgeInv, [Next]_vars PROVE EdgeInv'
    OBVIOUS
  <1> USE DEF EdgeInv
  <1>0. SITE_CAP \in Nat /\ lives \in Int
    BY EdgeManagerAssumption DEF TypeOK
  <1>1. ASSUME NEW c, Recommend(c) PROVE EdgeInv'
    <2>1. PICK action \in Eligible(c) : Issue(action)
      BY <1>1 DEF Recommend
    <2>2. action \in Action /\ WithinAction(action)
      BY <2>1, EligibleIsAction
    <2>3. /\ Room /\ UNCHANGED <<library_valid, day, lives>>
          /\ scored' \subseteq [action : Action, score : Int, at : Nat]
      BY <1>1 DEF Recommend, TypeOK
    <2> QED BY <2>1, <2>2, <2>3, IssueKeeps
  <1>2. ASSUME NEW batch \in Batches, Schedule(batch) PROVE EdgeInv'
    <2>1. scored' \subseteq [action : Action, score : Int, at : Nat]
      BY <1>2, ScoredTyped DEF Schedule
    <2> QED BY <1>2, <2>1 DEF Schedule, TypeOK, WithinCaps, counters
  <1>3. ASSUME NEW x \in scored, IssueRanked(x) PROVE EdgeInv'
    <2>1. x.action \in Action
      BY DEF TypeOK
    <2>2. /\ Room /\ WithinAction(x.action) /\ Issue(x.action)
          /\ UNCHANGED <<library_valid, day, lives>>
          /\ scored' \subseteq [action : Action, score : Int, at : Nat]
      BY <1>3 DEF IssueRanked, TypeOK
    <2> QED BY <2>1, <2>2, IssueKeeps
  <1>4. ASSUME NEW x \in scored, CapRanked(x) PROVE EdgeInv'
    BY <1>4 DEF CapRanked, TypeOK, WithinCaps, counters, history
  <1>5. ASSUME NEW date \in 1..MaxDay, NewDay(date) PROVE EdgeInv'
    <2>1. /\ day' = date /\ issued' = 0 /\ per_action' = None /\ given' = 0 /\ advice' = None
          /\ lives' = 1 /\ UNCHANGED <<library_valid, scored>>
      BY <1>5 DEF NewDay, Later, TypeOK
    <2>2. \A cap \in Int : (1 - 1) * cap + 0 = 0
      OBVIOUS
    <2>3. TypeOK'
      BY <2>1, EdgeManagerAssumption DEF TypeOK, None
    <2>4. WithinCaps'
      BY <1>0, <2>1, <2>2, Entries DEF WithinCaps, None
    <2> QED BY <2>3, <2>4
  <1>6. ASSUME Restart PROVE EdgeInv'
    <2>1. /\ issued' = 0 /\ per_action' = None /\ lives' = lives + 1 /\ scored' = {}
          /\ library_valid' \in BOOLEAN /\ lives <= MaxRestarts /\ UNCHANGED <<day, given, advice>>
      BY <1>6 DEF Restart
    <2>2. TypeOK'
      BY <2>1, EdgeManagerAssumption DEF TypeOK, None
    <2>3. given' <= (lives' - 1) * SITE_CAP + issued'
      <3>1. (lives' - 1) * SITE_CAP + issued' = (lives - 1) * SITE_CAP + SITE_CAP
        BY <1>0, <2>1, OneMoreLife
      <3>2. (lives - 1) * SITE_CAP \in Int
        BY <1>0
      <3> QED BY <1>0, <2>1, <3>1, <3>2 DEF TypeOK, WithinCaps
    <2>4. ASSUME NEW a \in Action
          PROVE  /\ per_action'[a.action_id] = 0
                 /\ advice'[a.action_id] <= (lives' - 1) * a.max_per_site_per_day + 0
      <3>1. a.action_id \in ActionId /\ a.max_per_site_per_day \in Nat
        BY Entries
      <3>2. (lives' - 1) * a.max_per_site_per_day + 0
              = (lives - 1) * a.max_per_site_per_day + a.max_per_site_per_day
        BY <1>0, <2>1, <3>1, OneMoreLife
      <3>3. (lives - 1) * a.max_per_site_per_day \in Int
        BY <1>0, <3>1
      <3>4. /\ advice[a.action_id] \in Nat /\ per_action[a.action_id] \in Nat
            /\ per_action[a.action_id] <= a.max_per_site_per_day
            /\ advice[a.action_id]
                 <= (lives - 1) * a.max_per_site_per_day + per_action[a.action_id]
        BY <3>1 DEF TypeOK, WithinCaps
      <3> QED BY <2>1, <3>1, <3>2, <3>3, <3>4 DEF None
    <2>5. WithinCaps'
      BY <1>0, <2>1, <2>3, <2>4, Entries DEF WithinCaps
    <2> QED BY <2>2, <2>5
  <1>7. CASE UNCHANGED vars
    BY <1>7 DEF TypeOK, WithinCaps, vars, counters, history
  <1> QED BY <1>1, <1>2, <1>3, <1>4, <1>5, <1>6, <1>7 DEF Next

\* Within the allowance of each life is within the allowance of all of them.
LEMMA EdgeCaps == EdgeInv => CapsHold
  <1> SUFFICES ASSUME EdgeInv PROVE CapsHold
    OBVIOUS
  <1> USE DEF EdgeInv, TypeOK, WithinCaps
  <1>1. \A n \in Int, cap \in Int : n * cap = (n - 1) * cap + cap /\ (n - 1) * cap \in Int
    OBVIOUS
  <1>2. SITE_CAP \in Int /\ lives \in Int
    BY EdgeManagerAssumption
  <1>3. given <= lives * SITE_CAP
    <2>1. lives * SITE_CAP = (lives - 1) * SITE_CAP + SITE_CAP /\ (lives - 1) * SITE_CAP \in Int
      BY <1>1, <1>2
    <2> QED BY <1>2, <2>1
  <1>4. ASSUME NEW a \in Action
        PROVE  advice[a.action_id] <= lives * a.max_per_site_per_day
    <2> DEFINE cap == a.max_per_site_per_day
    <2>1. a.action_id \in ActionId /\ cap \in Nat
      BY Entries
    <2>2. lives * cap = (lives - 1) * cap + cap /\ (lives - 1) * cap \in Int
      BY <1>1, <1>2, <2>1
    <2>3. /\ advice[a.action_id] \in Nat /\ per_action[a.action_id] \in Nat
          /\ per_action[a.action_id] <= cap
          /\ advice[a.action_id] <= (lives - 1) * cap + per_action[a.action_id]
      BY <2>1
    <2> HIDE DEF cap
    <2>4. advice[a.action_id] <= lives * cap
      BY <1>2, <2>1, <2>2, <2>3
    <2> QED BY <2>4 DEF cap
  <1> QED BY <1>3, <1>4 DEF CapsHold

----------------------------------------------------------------------------
(* The best of the day *)

\* Where one finite set has no more members than another, it maps into it one to one.
LEMMA NoLargerMapsInto ==
  ASSUME NEW S, NEW T, IsFiniteSet(S), IsFiniteSet(T), Cardinality(S) <= Cardinality(T)
  PROVE  Injection(S, T) # {}
  <1> DEFINE m == Cardinality(S)
  <1> DEFINE n == Cardinality(T)
  <1>1. /\ m \in Nat /\ ExistsBijection(1..m, S)
        /\ n \in Nat /\ ExistsBijection(1..n, T)
    BY FS_CardinalityType
  <1>2. ExistsBijection(S, 1..m)
    BY <1>1, Fun_ExistsBijSymmetric
  <1> HIDE DEF m, n
  <1>3. PICK f : f \in Bijection(S, 1..m)
    BY <1>2 DEF ExistsBijection
  <1>4. PICK g : g \in Bijection(1..n, T)
    BY <1>1 DEF ExistsBijection
  <1>5. /\ f \in [S -> 1..m] /\ \A a, b \in S : f[a] = f[b] => a = b
    BY <1>3, Fun_BijectionProperties
  <1>6. /\ g \in [1..n -> T] /\ \A a, b \in 1..n : g[a] = g[b] => a = b
    BY <1>4, Fun_BijectionProperties
  <1>7. 1..m \subseteq 1..n
    BY <1>1 DEF m, n
  <1> DEFINE h == [s \in S |-> g[f[s]]]
  <1>8. \A s \in S : f[s] \in 1..n
    BY <1>5, <1>7
  <1>9. h \in [S -> T] /\ \A a, b \in S : h[a] = h[b] => a = b
    BY <1>5, <1>6, <1>8
  <1> HIDE DEF h
  <1>10. h \in Injection(S, T)
    BY <1>9, Fun_IsInj
  <1> QED BY <1>10

\* What is no more of each action is no more of all.
LEMMA PartsAddUp ==
  ASSUME NEW S, NEW T, IsFiniteSet(S), IsFiniteSet(T),
         \A x \in S : Cardinality(Of(x.action, S)) <= Cardinality(Of(x.action, T))
  PROVE  Cardinality(S) <= Cardinality(T)
  <1> DEFINE f == [x \in S |-> CHOOSE h : h \in Injection(Of(x.action, S), Of(x.action, T))]
  <1> DEFINE g == [x \in S |-> f[x][x]]
  <1>1. ASSUME NEW x \in S
        PROVE  f[x] \in Injection(Of(x.action, S), Of(x.action, T))
    <2>1. IsFiniteSet(Of(x.action, S)) /\ IsFiniteSet(Of(x.action, T))
      <3>1. Of(x.action, S) \in SUBSET S /\ Of(x.action, T) \in SUBSET T
        BY DEF Of
      <3> QED BY <3>1, FS_Subset
    <2>2. Injection(Of(x.action, S), Of(x.action, T)) # {}
      BY <2>1, NoLargerMapsInto
    <2> QED BY <2>2
  <1>2. ASSUME NEW x \in S
        PROVE  /\ f[x] \in [Of(x.action, S) -> Of(x.action, T)]
               /\ \A a, b \in Of(x.action, S) : f[x][a] = f[x][b] => a = b
    BY <1>1, Fun_InjectionProperties
  <1>3. \A x \in S, y \in S : x.action = y.action => f[x] = f[y]
    OBVIOUS
  <1> HIDE DEF f
  <1>4. ASSUME NEW x \in S PROVE g[x] \in T /\ g[x].action = x.action
    <2>1. x \in Of(x.action, S)
      BY DEF Of
    <2>2. g[x] \in Of(x.action, T)
      BY <1>2, <2>1
    <2> QED BY <2>2 DEF Of
  <1>5. ASSUME NEW x \in S, NEW y \in S, g[x] = g[y] PROVE x = y
    <2>1. x.action = y.action
      BY <1>4, <1>5
    <2>2. f[x] = f[y] /\ f[x][x] = f[x][y]
      BY <1>3, <1>5, <2>1
    <2>3. x \in Of(x.action, S) /\ y \in Of(x.action, S)
      BY <2>1 DEF Of
    <2> QED BY <1>2, <2>2, <2>3
  <1>6. g \in [S -> T]
    BY <1>4
  <1> HIDE DEF g
  <1>7. g \in Injection(S, T)
    BY <1>5, <1>6, Fun_IsInj
  <1> QED BY <1>7, FS_Injection

Ranked == [action : Action, score : Int, at : Nat]
Asked == [batch : SUBSET Ranked, won : SUBSET Ranked, issued : Nat,
          per_action : [ActionId -> Nat]]

\* A cap is taken up by winners that score no less than x.
NoRoomFor(x) ==
  \/ SITE_CAP <= asked.issued + Cardinality(AtLeast(x.score, asked.won))
  \/ x.action.max_per_site_per_day
       <= asked.per_action[x.action.action_id]
            + Cardinality(Of(x.action, AtLeast(x.score, asked.won)))

\* The loop has gone through the batch from the top; the counters are those at its start
\* and the winners since; and who did not win found a cap taken up by who scored no less.
Ranking ==
  /\ asked \in Asked /\ IsFiniteSet(asked.batch) /\ asked.won \subseteq asked.batch
  /\ scored \subseteq asked.batch \ asked.won
  /\ \A x \in asked.batch \ scored, y \in scored : x.score >= y.score
  /\ Allowed(asked.won)
  /\ scored # {} =>
       /\ issued = asked.issued + Cardinality(asked.won)
       /\ \A a \in Action :
            per_action[a.action_id]
              = asked.per_action[a.action_id] + Cardinality(Of(a, asked.won))
  /\ \A x \in asked.batch \ (scored \cup asked.won) : NoRoomFor(x)

\* The winners are the best choice once all the batch has been through the loop: a level
\* that another choice reaches more often would have a candidate turned away for no cap.
LEMMA GreedyIsBest ==
  ASSUME Ranking
  PROVE  BestOfTheDay
  <1> DEFINE W == asked.won
  <1>0. /\ asked \in Asked /\ IsFiniteSet(asked.batch) /\ W \subseteq asked.batch /\ Allowed(W)
    BY DEF Ranking
  <1> SUFFICES ASSUME scored = {}, NEW C \in SUBSET asked.batch, Allowed(C), NEW top \in C
               PROVE  Cardinality(AtLeast(top.score, C)) <= Cardinality(AtLeast(top.score, W))
    BY <1>0 DEF BestOfTheDay
  <1> DEFINE l == top.score
  <1>1. /\ IsFiniteSet(C) /\ IsFiniteSet(W)
        /\ \A x \in asked.batch : x.action \in Action /\ x.score \in Int
        /\ l \in Int
    BY <1>0, FS_Subset DEF Asked, Ranked
  <1> HIDE DEF l, W
  <1>2. /\ IsFiniteSet(AtLeast(l, C)) /\ IsFiniteSet(AtLeast(l, W))
        /\ Cardinality(AtLeast(l, C)) \in Nat /\ Cardinality(AtLeast(l, W)) \in Nat
        /\ Cardinality(AtLeast(l, C)) <= Cardinality(C) /\ Cardinality(C) \in Nat
    <2>1. AtLeast(l, C) \in SUBSET C /\ AtLeast(l, W) \in SUBSET W
      BY DEF AtLeast
    <2> QED BY <1>1, <2>1, FS_Subset, FS_CardinalityType
  \* winners of a better score are winners of this one
  <1>3. ASSUME NEW x \in asked.batch, x.score >= l
        PROVE  /\ AtLeast(x.score, W) \in SUBSET AtLeast(l, W)
               /\ Cardinality(AtLeast(x.score, W)) <= Cardinality(AtLeast(l, W))
               /\ Cardinality(AtLeast(x.score, W)) \in Nat
    <2>1. \A w \in W : w.score \in Int
      BY <1>0, <1>1 DEF W
    <2>2. AtLeast(x.score, W) \in SUBSET AtLeast(l, W)
      BY <1>1, <1>3, <2>1 DEF AtLeast
    <2> QED BY <1>2, <2>2, FS_Subset, FS_CardinalityType
  <1>4. ASSUME NEW x \in asked.batch \ W, x.score >= l,
               SITE_CAP <= asked.issued + Cardinality(AtLeast(x.score, W))
        PROVE  Cardinality(AtLeast(l, C)) <= Cardinality(AtLeast(l, W))
    <2>1. asked.issued + Cardinality(C) <= SITE_CAP /\ asked.issued \in Nat /\ SITE_CAP \in Nat
      BY <1>0, EdgeManagerAssumption DEF Allowed, Asked
    <2> QED BY <1>2, <1>3, <1>4, <2>1
  <1>5. ASSUME \A x \in asked.batch \ W : x.score >= l =>
                 x.action.max_per_site_per_day
                   <= asked.per_action[x.action.action_id]
                        + Cardinality(Of(x.action, AtLeast(x.score, W)))
        PROVE  Cardinality(AtLeast(l, C)) <= Cardinality(AtLeast(l, W))
    <2>1. ASSUME NEW y \in AtLeast(l, C)
          PROVE  Cardinality(Of(y.action, AtLeast(l, C)))
                   <= Cardinality(Of(y.action, AtLeast(l, W)))
      <3> DEFINE a == y.action
      <3>1. a \in Action
        BY <1>1 DEF AtLeast
      <3>2. /\ a.action_id \in ActionId /\ a.max_per_site_per_day \in Nat
            /\ asked.per_action[a.action_id] \in Nat
        BY <1>0, <3>1, Entries DEF Asked
      <3> HIDE DEF a
      <3>3. IsFiniteSet(Of(a, AtLeast(l, W))) /\ Cardinality(Of(a, AtLeast(l, W))) \in Nat
        <4>1. Of(a, AtLeast(l, W)) \in SUBSET AtLeast(l, W)
          BY DEF Of
        <4> QED BY <1>2, <4>1, FS_Subset, FS_CardinalityType
      <3>4. CASE Of(a, AtLeast(l, C)) \subseteq W
        <4>1. Of(a, AtLeast(l, C)) \in SUBSET Of(a, AtLeast(l, W))
          BY <3>4 DEF Of, AtLeast
        <4> QED BY <3>3, <4>1, FS_Subset DEF a
      <3>5. ASSUME NEW x \in Of(a, AtLeast(l, C)), x \notin W
            PROVE  Cardinality(Of(a, AtLeast(l, C))) <= Cardinality(Of(a, AtLeast(l, W)))
        <4>1. x \in asked.batch \ W /\ x.score >= l /\ x.action = a
          BY <3>5 DEF Of, AtLeast
        <4>2. a.max_per_site_per_day
                <= asked.per_action[a.action_id] + Cardinality(Of(a, AtLeast(x.score, W)))
          BY <1>5, <4>1
        <4>3. /\ Cardinality(Of(a, AtLeast(x.score, W))) <= Cardinality(Of(a, AtLeast(l, W)))
              /\ Cardinality(Of(a, AtLeast(x.score, W))) \in Nat
          <5>1. AtLeast(x.score, W) \subseteq AtLeast(l, W)
            BY <1>3, <4>1
          <5>2. Of(a, AtLeast(x.score, W)) \in SUBSET Of(a, AtLeast(l, W))
            BY <5>1 DEF Of
          <5> QED BY <3>3, <5>2, FS_Subset, FS_CardinalityType
        <4>4. asked.per_action[a.action_id] + Cardinality(Of(a, C)) <= a.max_per_site_per_day
          BY <3>1 DEF Allowed
        <4>5. /\ Cardinality(Of(a, AtLeast(l, C))) <= Cardinality(Of(a, C))
              /\ Cardinality(Of(a, C)) \in Nat /\ Cardinality(Of(a, AtLeast(l, C))) \in Nat
          <5>1. Of(a, C) \in SUBSET C /\ Of(a, AtLeast(l, C)) \in SUBSET Of(a, C)
            BY DEF Of, AtLeast
          <5>2. IsFiniteSet(Of(a, C))
            BY <1>1, <5>1, FS_Subset
          <5> QED BY <5>1, <5>2, FS_Subset, FS_CardinalityType
        <4> QED BY <3>2, <3>3, <4>2, <4>3, <4>4, <4>5
      <3> QED BY <3>4, <3>5 DEF a
    <2> QED BY <1>2, <2>1, PartsAddUp
  <1>6. \A x \in asked.batch \ W : NoRoomFor(x)
    BY DEF Ranking, W
  <1>7. Cardinality(AtLeast(l, C)) <= Cardinality(AtLeast(l, W))
    BY <1>4, <1>5, <1>6 DEF NoRoomFor, W
  <1> QED BY <1>7 DEF l, W

\* A candidate earns one action at most: the first of the library for its metric.
LEMMA OneAction ==
  ASSUME NEW c, NEW a \in Eligible(c), NEW b \in Eligible(c)
  PROVE  a = b
  <1>1. PICK i \in DOMAIN LIBRARY : /\ a = LIBRARY[i] /\ LIBRARY[i].metric = c.metric
                                   /\ \A k \in 1..(i - 1) : LIBRARY[k].metric # c.metric
    BY DEF Eligible, ForMetric
  <1>2. PICK j \in DOMAIN LIBRARY : /\ b = LIBRARY[j] /\ LIBRARY[j].metric = c.metric
                                   /\ \A k \in 1..(j - 1) : LIBRARY[k].metric # c.metric
    BY DEF Eligible, ForMetric
  <1>3. DOMAIN LIBRARY = 1..Len(LIBRARY) /\ Len(LIBRARY) \in Nat
    BY EdgeManagerAssumption
  <1>4. i \in Nat /\ j \in Nat /\ i >= 1 /\ j >= 1
    BY <1>3
  <1>5. ~(i < j) /\ ~(j < i)
    BY <1>1, <1>2, <1>4
  <1> QED BY <1>1, <1>2, <1>4, <1>5

\* A batch is scored into finitely many: no more than its candidates.
LEMMA ScoredFinite ==
  ASSUME NEW batch \in Batches
  PROVE  IsFiniteSet(Scored(batch))
  <1> DEFINE f == [x \in Scored(batch) |-> x.at]
  <1>1. batch \in Seq(Candidate)
    BY EdgeManagerAssumption
  <1>2. DOMAIN batch = 1..Len(batch) /\ Len(batch) \in Int /\ 1 \in Int
    BY <1>1
  <1>3. IsFiniteSet(DOMAIN batch)
    BY <1>2, FS_Interval
  <1>4. ASSUME NEW x \in Scored(batch)
        PROVE  /\ x.at \in DOMAIN batch /\ x.action \in Eligible(batch[x.at])
               /\ x = [action |-> x.action,
                       score |-> Confidence(batch[x.at]) * x.action.impact_score, at |-> x.at]
    BY DEF Scored
  <1>5. ASSUME NEW x \in Scored(batch), NEW y \in Scored(batch), x.at = y.at
        PROVE  x = y
    <2>1. x.action = y.action
      BY <1>4, <1>5, OneAction
    <2> QED BY <1>4, <1>5, <2>1
  <1>6. f \in [Scored(batch) -> DOMAIN batch] /\ \A x, y \in Scored(batch) : f[x] = f[y] => x = y
    BY <1>4, <1>5
  <1> HIDE DEF f
  <1>7. f \in Injection(Scored(batch), DOMAIN batch)
    BY <1>6, Fun_IsInj
  <1> QED BY <1>3, <1>7, FS_Injection

\* Without a batch there is nothing to rank.
LEMMA IdleRanks == scored = {} /\ asked = Idle => Ranking
  <1> SUFFICES ASSUME scored = {}, asked = Idle PROVE Ranking
    OBVIOUS
  <1>1. IsFiniteSet({}) /\ Cardinality({}) = 0
    BY FS_EmptySet
  <1>2. asked \in Asked
    BY DEF Asked, Idle, None
  <1>3. \A a \in Action : /\ Cardinality(Of(a, {})) = 0 /\ None[a.action_id] = 0
                          /\ a.max_per_site_per_day \in Nat
    <2>1. \A a : Of(a, {}) = {}
      BY DEF Of
    <2> QED BY <1>1, <2>1, Entries DEF None
  <1>4. Allowed({})
    <2>1. asked.issued = 0 /\ asked.per_action = None
      BY DEF Idle
    <2>2. asked.issued + Cardinality({}) <= SITE_CAP
      BY <1>1, <2>1, EdgeManagerAssumption
    <2>3. \A a \in Action :
            asked.per_action[a.action_id] + Cardinality(Of(a, {})) <= a.max_per_site_per_day
      BY <1>3, <2>1
    <2> QED BY <2>2, <2>3 DEF Allowed
  <1> QED BY <1>1, <1>2, <1>4 DEF Ranking, Idle

\* The same of the state a step leads to.
LEMMA IdleRanksNext == (scored = {} /\ asked = Idle)' => Ranking'
  BY IdleRanks, PTL

\* A batch that has just been scored has all of the loop before it.
LEMMA ScheduleRanks ==
  ASSUME EdgeInv, NEW batch \in Batches, Schedule(batch)
  PROVE  Ranking'
  <1>1. /\ asked' = [batch |-> Scored(batch), won |-> {}, issued |-> issued,
                    per_action |-> per_action]
        /\ scored' = Scored(batch) /\ issued' = issued /\ per_action' = per_action
    BY DEF Schedule, counters
  <1>2. /\ IsFiniteSet({}) /\ Cardinality({}) = 0
        /\ \A a \in Action : Cardinality(Of(a, {})) = 0
    <2>1. \A a : Of(a, {}) = {}
      BY DEF Of
    <2> QED BY <2>1, FS_EmptySet
  <1>3. asked' \in Asked
    BY <1>1, ScoredTyped DEF Asked, Ranked, EdgeInv, TypeOK
  <1>4. IsFiniteSet(Scored(batch))
    BY ScoredFinite
  <1>5. \A a \in Action : per_action[a.action_id] \in Nat
    BY Entries DEF EdgeInv, TypeOK
  <1>6. Allowed(asked.won)'
    <2>1. issued + Cardinality({}) <= SITE_CAP
      BY <1>2 DEF EdgeInv, TypeOK, WithinCaps
    <2>2. \A a \in Action :
            per_action[a.action_id] + Cardinality(Of(a, {})) <= a.max_per_site_per_day
      BY <1>2, <1>5 DEF EdgeInv, WithinCaps
    <2> QED BY <1>1, <2>1, <2>2 DEF Allowed
  <1>7. /\ issued' = asked'.issued + Cardinality(asked'.won)
        /\ \A a \in Action : per_action'[a.action_id]
                              = asked'.per_action[a.action_id] + Cardinality(Of(a, asked'.won))
    <2>1. issued \in Nat
      BY DEF EdgeInv, TypeOK
    <2> QED BY <1>1, <1>2, <1>5, <2>1
  <1>8. /\ asked'.batch = scored' /\ asked'.won = {} /\ IsFiniteSet(asked'.batch)
    BY <1>1, <1>4
  <1> QED BY <1>3, <1>6, <1>7, <1>8 DEF Ranking

\* The numbers of the loop are numbers.
LEMMA RankingCounts ==
  ASSUME Ranking, NEW score
  PROVE  /\ IsFiniteSet(asked.won) /\ Cardinality(asked.won) \in Nat
         /\ IsFiniteSet(AtLeast(score, asked.won))
         /\ Cardinality(AtLeast(score, asked.won)) \in Nat
         /\ \A a : /\ IsFiniteSet(Of(a, asked.won)) /\ Cardinality(Of(a, asked.won)) \in Nat
                   /\ IsFiniteSet(Of(a, AtLeast(score, asked.won)))
                   /\ Cardinality(Of(a, AtLeast(score, asked.won))) \in Nat
  <1>1. asked.won \in SUBSET asked.batch /\ IsFiniteSet(asked.batch)
    BY DEF Ranking
  <1>2. IsFiniteSet(asked.won)
    BY <1>1, FS_Subset
  <1>3. AtLeast(score, asked.won) \in SUBSET asked.won
    BY DEF AtLeast
  <1>4. \A a : /\ Of(a, asked.won) \in SUBSET asked.won
               /\ Of(a, AtLeast(score, asked.won)) \in SUBSET asked.won
    BY DEF Of, AtLeast
  <1> QED BY <1>2, <1>3, <1>4, FS_Subset, FS_CardinalityType

\* The candidate in the loop scores no less than those to come, nor more than those before.
LEMMA ForemostScores ==
  ASSUME Ranking, NEW x \in scored, Foremost(x)
  PROVE  /\ x \in asked.batch \ asked.won /\ x.action \in Action
         /\ \A y \in scored : x.score >= y.score
         /\ \A w \in asked.won : w.score >= x.score
         /\ AtLeast(x.score, asked.won) = asked.won
  <1>1. \A y \in asked.batch : y.score \in Int /\ y.action \in Action
    BY DEF Ranking, Asked, Ranked
  <1>2. scored \subseteq asked.batch \ asked.won /\ asked.won \subseteq asked.batch
    BY DEF Ranking
  <1>3. \A y \in scored : x.score >= y.score
    BY <1>1, <1>2 DEF Foremost, Before
  <1>4. \A w \in asked.won : w.score >= x.score
    BY <1>2 DEF Ranking
  <1> QED BY <1>1, <1>2, <1>3, <1>4 DEF AtLeast

\* One more winner: room for it there was, and nobody turned away has more of it.
LEMMA IssueRanks ==
  ASSUME EdgeInv, Ranking, NEW x \in scored, IssueRanked(x)
  PROVE  Ranking'
  <1> DEFINE W == asked.won
  <1> DEFINE V == asked.won \cup {x}
  <1>1. /\ scored' = scored \ {x} /\ Foremost(x) /\ Room /\ WithinAction(x.action)
        /\ issued' = issued + 1
        /\ per_action' = [per_action EXCEPT ![x.action.action_id] = @ + 1]
    BY DEF IssueRanked, Issue
  <1>2. /\ asked \in Asked /\ asked'.batch = asked.batch /\ asked'.won = V
        /\ asked'.issued = asked.issued /\ asked'.per_action = asked.per_action
        /\ asked' \in Asked
    <2>1. asked \in Asked /\ x \in Ranked
      BY DEF Ranking, Asked
    <2> QED BY <2>1 DEF IssueRanked, Asked
  <1>3. /\ x \in asked.batch \ W /\ x.action \in Action
        /\ \A y \in scored : x.score >= y.score
    BY <1>1, ForemostScores
  <1>4. /\ issued = asked.issued + Cardinality(W)
        /\ \A a \in Action : per_action[a.action_id]
                              = asked.per_action[a.action_id] + Cardinality(Of(a, W))
    BY DEF Ranking
  <1>5. /\ IsFiniteSet(W) /\ Cardinality(W) \in Nat
        /\ \A a : IsFiniteSet(Of(a, W)) /\ Cardinality(Of(a, W)) \in Nat
    BY RankingCounts
  <1>6. Cardinality(V) = Cardinality(W) + 1 /\ IsFiniteSet(V)
    BY <1>3, <1>5, FS_AddElement
  <1>7. /\ \A a : a # x.action => Of(a, V) = Of(a, W)
        /\ Cardinality(Of(x.action, V)) = Cardinality(Of(x.action, W)) + 1
    <2>1. Of(x.action, V) = Of(x.action, W) \cup {x} /\ x \notin Of(x.action, W)
      BY <1>3 DEF Of
    <2>2. Cardinality(Of(x.action, W) \cup {x}) = Cardinality(Of(x.action, W)) + 1
      BY <1>5, <2>1, FS_AddElement
    <2> QED BY <2>1, <2>2 DEF Of
  <1> HIDE DEF V, W
  <1>8. ASSUME NEW a \in Action
        PROVE  /\ per_action'[a.action_id]
                    = asked.per_action[a.action_id] + Cardinality(Of(a, V))
               /\ asked.per_action[a.action_id] + Cardinality(Of(a, V)) <= a.max_per_site_per_day
    <2>1. /\ a.action_id \in ActionId /\ x.action.action_id \in ActionId
          /\ per_action \in [ActionId -> Nat] /\ asked.per_action[a.action_id] \in Nat
          /\ a.max_per_site_per_day \in Nat
      BY <1>2, <1>3, Entries DEF EdgeInv, TypeOK, Asked
    <2>2. CASE a = x.action
      <3>1. per_action'[a.action_id] = per_action[a.action_id] + 1
        BY <1>1, <2>1, <2>2
      <3>2. per_action[a.action_id] < a.max_per_site_per_day
        BY <1>1, <2>2 DEF WithinAction
      <3>3. per_action[a.action_id] \in Nat
        BY <2>1
      <3> QED BY <1>4, <1>5, <1>7, <2>1, <2>2, <3>1, <3>2, <3>3
    <2>3. CASE a # x.action
      <3>1. a.action_id # x.action.action_id
        BY <1>3, <2>3, EdgeManagerAssumption
      <3>2. per_action'[a.action_id] = per_action[a.action_id]
        BY <1>1, <2>1, <3>1
      <3>3. asked.per_action[a.action_id] + Cardinality(Of(a, W)) <= a.max_per_site_per_day
        BY DEF Ranking, Allowed, W
      <3> QED BY <1>4, <1>7, <2>3, <3>2, <3>3
    <2> QED BY <2>2, <2>3
  <1>9. issued' = asked.issued + Cardinality(V) /\ asked.issued + Cardinality(V) <= SITE_CAP
    BY <1>1, <1>2, <1>4, <1>5, <1>6, EdgeManagerAssumption DEF Room, Asked, EdgeInv, TypeOK
  <1>10. Allowed(asked.won)'
    BY <1>2, <1>8, <1>9 DEF Allowed
  <1>11. ASSUME NEW y \in asked'.batch \ (scored' \cup asked'.won)
         PROVE  NoRoomFor(y)'
    <2>1. y \in asked.batch \ (scored \cup W)
      BY <1>1, <1>2, <1>11 DEF V, W
    <2>2. NoRoomFor(y)
      BY <2>1 DEF Ranking, W
    <2>3. y.action \in Action
      BY <1>2, <2>1 DEF Asked, Ranked
    <2>4. /\ IsFiniteSet(AtLeast(y.score, V)) /\ Cardinality(AtLeast(y.score, V)) \in Nat
          /\ IsFiniteSet(Of(y.action, AtLeast(y.score, V)))
          /\ Cardinality(Of(y.action, AtLeast(y.score, V))) \in Nat
      <3>1. AtLeast(y.score, V) \in SUBSET V /\ Of(y.action, AtLeast(y.score, V)) \in SUBSET V
        BY DEF AtLeast, Of
      <3> QED BY <1>6, <3>1, FS_Subset, FS_CardinalityType
    <2>5. /\ Cardinality(AtLeast(y.score, W)) <= Cardinality(AtLeast(y.score, V))
          /\ Cardinality(Of(y.action, AtLeast(y.score, W)))
               <= Cardinality(Of(y.action, AtLeast(y.score, V)))
      <3>1. /\ AtLeast(y.score, W) \in SUBSET AtLeast(y.score, V)
            /\ Of(y.action, AtLeast(y.score, W)) \in SUBSET Of(y.action, AtLeast(y.score, V))
        BY DEF AtLeast, Of, V, W
      <3> QED BY <2>4, <3>1, FS_Subset
    <2>6. /\ asked.issued \in Nat /\ asked.per_action[y.action.action_id] \in Nat
          /\ SITE_CAP \in Nat /\ y.action.max_per_site_per_day \in Nat
      BY <1>2, <2>3, Entries, EdgeManagerAssumption DEF Asked
    <2>7. /\ Cardinality(AtLeast(y.score, W)) \in Nat
          /\ Cardinality(Of(y.action, AtLeast(y.score, W))) \in Nat
      BY RankingCounts DEF W
    <2> QED BY <1>2, <2>2, <2>4, <2>5, <2>6, <2>7 DEF NoRoomFor, W
  <1>12. /\ IsFiniteSet(asked'.batch) /\ asked'.won \subseteq asked'.batch
         /\ scored' \subseteq asked'.batch \ asked'.won
    BY <1>1, <1>2, <1>3 DEF Ranking, V
  <1>13. \A z \in asked'.batch \ scored', y \in scored' : z.score >= y.score
    BY <1>1, <1>2, <1>3 DEF Ranking
  <1> QED BY <1>2, <1>8, <1>9, <1>10, <1>11, <1>12, <1>13 DEF Ranking

\* One turned away: the winners so far, all of whom score no less, take up a cap.
LEMMA CapRanks ==
  ASSUME EdgeInv, Ranking, NEW x \in scored, CapRanked(x)
  PROVE  Ranking'
  <1>1. /\ scored' = scored \ {x} /\ Foremost(x) /\ ~(Room /\ WithinAction(x.action))
        /\ UNCHANGED <<issued, per_action, asked>>
    BY DEF CapRanked, counters, history
  <1>2. /\ x \in asked.batch \ asked.won /\ x.action \in Action
        /\ \A y \in scored : x.score >= y.score
        /\ AtLeast(x.score, asked.won) = asked.won
    BY <1>1, ForemostScores
  <1>3. NoRoomFor(x)
    <2>1. /\ issued = asked.issued + Cardinality(asked.won)
          /\ per_action[x.action.action_id]
               = asked.per_action[x.action.action_id] + Cardinality(Of(x.action, asked.won))
      BY <1>2 DEF Ranking
    <2>2. /\ issued \in Nat /\ SITE_CAP \in Nat /\ per_action[x.action.action_id] \in Nat
          /\ x.action.max_per_site_per_day \in Nat
      BY <1>2, Entries, EdgeManagerAssumption DEF EdgeInv, TypeOK
    <2>3. SITE_CAP <= issued \/ x.action.max_per_site_per_day <= per_action[x.action.action_id]
      BY <1>1, <2>2 DEF Room, WithinAction
    <2> QED BY <1>2, <2>1, <2>3 DEF NoRoomFor
  <1>4. \A y \in asked.batch \ (scored' \cup asked.won) : NoRoomFor(y)
    BY <1>1, <1>3 DEF Ranking
  <1>5. \A z \in asked.batch \ scored', y \in scored' : z.score >= y.score
    BY <1>1, <1>2 DEF Ranking
  <1>6. \A y : NoRoomFor(y)' = NoRoomFor(y)
    BY <1>1 DEF NoRoomFor
  <1>7. Allowed(asked.won)'
    BY <1>1 DEF Ranking, Allowed
  <1> QED BY <1>1, <1>4, <1>5, <1>6, <1>7 DEF Ranking

\* Every step keeps the ranking.
LEMMA RankingStep == EdgeInv /\ Ranking /\ [Next]_vars => Ranking'
  <1> SUFFICES ASSUME EdgeInv, Ranking, [Next]_vars PROVE Ranking'
    OBVIOUS
  <1>0. scored' = {} /\ asked' = Idle => Ranking'
    BY IdleRanksNext
  <1>1. ASSUME NEW c, Recommend(c) PROVE Ranking'
    BY <1>0, <1>1 DEF Recommend
  <1>2. ASSUME NEW batch \in Batches, Schedule(batch) PROVE Ranking'
    BY <1>2, ScheduleRanks
  <1>3. ASSUME NEW x \in scored, IssueRanked(x) PROVE Ranking'
    BY <1>3, IssueRanks
  <1>4. ASSUME NEW x \in scored, CapRanked(x) PROVE Ranking'
    BY <1>4, CapRanks
  <1>5. ASSUME NEW date \in 1..MaxDay, NewDay(date) PROVE Ranking'
    BY <1>0, <1>5 DEF NewDay
  <1>6. CASE Restart
    BY <1>0, <1>6 DEF Restart
  <1>7. CASE UNCHANGED vars
    <2>1. UNCHANGED <<issued, per_action, scored, asked>>
      BY <1>7 DEF vars, counters, history
    <2>2. (\A y : NoRoomFor(y)' = NoRoomFor(y)) /\ Allowed(asked.won)' = Allowed(asked.won)
      BY <2>1 DEF NoRoomFor, Allowed
    <2> QED BY <2>1, <2>2 DEF Ranking
  <1> QED BY <1>1, <1>2, <1>3, <1>4, <1>5, <1>6, <1>7 DEF Next

\* Whatever is asked of the manager, in calls or in batches, and however often a day is
\* announced, each process on a date keeps to the cap of the site and of every action.
THEOREM AdviceIsCapped == Spec => []CapsHold
  <1>1. Spec => []EdgeInv
    BY EdgeInit, EdgeStep, PTL DEF Spec
  <1> QED BY <1>1, EdgeCaps, PTL

\* Counters, loop and history have their types.
THEOREM EdgeTypes == Spec => []TypeOK
  <1>1. Spec => []EdgeInv
    BY EdgeInit, EdgeStep, PTL DEF Spec
  <1>2. EdgeInv => TypeOK
    BY DEF EdgeInv
  <1> QED BY <1>1, <1>2, PTL

\* What schedule issues of a batch is the best that the caps allowed when it was called,
\* whatever else was recommended that day and whichever library is in force: no other
\* choice within them reaches any score more often (edge_manager.py:400-416).
THEOREM ScheduleIsBest == Spec => []BestOfTheDay
  <1>1. Init => EdgeInv /\ Ranking
    BY EdgeInit, IdleRanks DEF Init
  <1>2. EdgeInv /\ Ranking /\ [Next]_vars => EdgeInv' /\ Ranking'
    BY EdgeStep, RankingStep
  <1>3. Ranking => BestOfTheDay
    BY GreedyIsBest
  <1> QED BY <1>1, <1>2, <1>3, PTL DEF Spec

=============================================================================
