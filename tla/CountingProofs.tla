--------------------------- MODULE CountingProofs ---------------------------
(***************************************************************************)
(* Proofs about the spool and about the tracker and its windows, whatever  *)
(* the capacity, the items, the streams, the boxes, the floors and the     *)
(* bounds are: both keep counts, and the lemmas on sums serve both.        *)
(***************************************************************************)
EXTENDS Spool, Footfall, FiniteSetTheorems, WellFoundedInduction, TLAPS

----------------------------------------------------------------------------
(* Sums *)

\* Finitely many numbers have a total.
LEMMA TotalType ==
  ASSUME NEW S, IsFiniteSet(S), NEW f \in [S -> Nat]
  PROVE  IsFiniteSet(Units(f)) /\ Total(f) \in Nat
  <1> DEFINE Of(x) == {x} \X (1..f[x])
  <1> DEFINE of == [x \in S |-> Of(x)]
  <1>1. IsFiniteSet({of[x] : x \in S})
    <2>1. of \in Surjection(S, {of[x] : x \in S})
      BY DEF Surjection
    <2> QED BY <2>1, FS_Surjection
  <1>2. \A T \in {of[x] : x \in S} : IsFiniteSet(T)
    <2> SUFFICES ASSUME NEW x \in S PROVE IsFiniteSet({x} \X (1..f[x]))
      OBVIOUS
    <2>1. f[x] \in Int
      OBVIOUS
    <2>2. IsFiniteSet({x})
      BY FS_Singleton
    <2>3. IsFiniteSet(1..f[x])
      BY <2>1, FS_Interval
    <2> QED BY <2>2, <2>3, FS_Product
  <1>3. Units(f) = UNION {of[x] : x \in S}
    <2>1. DOMAIN f = S /\ \A x \in S : of[x] = {x} \X (1..f[x])
      OBVIOUS
    <2> HIDE DEF of
    <2> QED BY <2>1, Zenon DEF Units
  <1>4. IsFiniteSet(Units(f))
    <2> HIDE DEF of
    <2> QED BY <1>1, <1>2, <1>3, FS_UNION
  <1> QED BY <1>4, FS_CardinalityType DEF Total

\* The total of two parts is the sum of their totals.
LEMMA TotalSplit ==
  ASSUME NEW A, NEW B, IsFiniteSet(A), IsFiniteSet(B), A \cap B = {},
         NEW f \in [A \cup B -> Nat]
  PROVE  Total(f) = Total(Part(f, A)) + Total(Part(f, B))
  <1> DEFINE a == Part(f, A)  b == Part(f, B)
  <1>1. /\ IsFiniteSet(Units(a)) /\ Total(a) \in Nat
        /\ IsFiniteSet(Units(b)) /\ Total(b) \in Nat
    <2>1. a \in [A -> Nat] /\ b \in [B -> Nat]
      BY DEF Part
    <2> HIDE DEF a, b
    <2> QED BY <2>1, TotalType
  <1>2. Units(f) = Units(a) \cup Units(b)
    BY DEF Units, Part
  <1>3. Units(a) \cap Units(b) = {}
    BY DEF Units, Part
  <1>4. Cardinality(Units(a) \cap Units(b)) = 0
    BY <1>3, FS_EmptySet
  <1> HIDE DEF a, b
  <1>5. Cardinality(Units(f)) = Cardinality(Units(a)) + Cardinality(Units(b)) - 0
    BY <1>1, <1>2, <1>4, FS_Union
  <1>6. /\ Total(f) = Cardinality(Units(f)) /\ Total(a) = Cardinality(Units(a))
        /\ Total(b) = Cardinality(Units(b))
    BY DEF Total
  <1>7. Total(f) = Total(a) + Total(b)
    BY <1>1, <1>5, <1>6
  <1> QED BY <1>7 DEF a, b

\* The total of one number is that number.
LEMMA TotalOne ==
  ASSUME NEW x, NEW n \in Nat
  PROVE  Total([y \in {x} |-> n]) = n
  <1> DEFINE one == [y \in {x} |-> n]
  <1>1. Units(one) = {x} \X (1..n)
    BY DEF Units
  <1>2. IsFiniteSet({x}) /\ Cardinality({x}) = 1
    BY FS_Singleton
  <1>3. IsFiniteSet(1..n) /\ Cardinality(1..n) = n
    BY FS_Interval
  <1>4. Cardinality({x} \X (1..n)) = 1 * n
    BY <1>2, <1>3, FS_Product
  <1>5. Total(one) = n
    <2> HIDE DEF one
    <2> QED BY <1>1, <1>4 DEF Total
  <1> QED BY <1>5

\* ... and any one of them can be taken out.
LEMMA TotalOf ==
  ASSUME NEW S, IsFiniteSet(S), NEW f \in [S -> Nat], NEW x \in S
  PROVE  /\ Total(Part(f, S \ {x})) \in Nat
         /\ Total(f) = f[x] + Total(Part(f, S \ {x}))
  <1> DEFINE A == {x}  B == S \ {x}
  <1>1. IsFiniteSet(A)
    BY FS_Singleton
  <1>2. IsFiniteSet(B)
    BY FS_RemoveElement
  <1>3. A \cup B = S /\ A \cap B = {} /\ f \in [A \cup B -> Nat] /\ Part(f, B) \in [B -> Nat]
    BY DEF Part
  <1>4. Total(Part(f, A)) = f[x]
    <2>1. f[x] \in Nat /\ Part(f, A) = [y \in {x} |-> f[x]]
      BY DEF Part
    <2> QED BY <2>1, TotalOne
  <1> HIDE DEF A, B
  <1>5. Total(Part(f, B)) \in Nat
    BY <1>2, <1>3, TotalType
  <1>6. Total(f) = Total(Part(f, A)) + Total(Part(f, B))
    BY <1>1, <1>2, <1>3, TotalSplit
  <1> QED BY <1>4, <1>5, <1>6 DEF B

\* The same of a function that agrees with the rest.
LEMMA TotalOfRest ==
  ASSUME NEW S, IsFiniteSet(S), NEW f \in [S -> Nat], NEW x \in S,
         NEW g \in [S \ {x} -> Nat], \A y \in S \ {x} : g[y] = f[y]
  PROVE  Total(g) \in Nat /\ Total(f) = f[x] + Total(g)
  <1>1. Part(f, S \ {x}) = g
    BY DEF Part
  <1> QED BY <1>1, TotalOf

\* A set of numbers that is not empty has a least.
LEMMA LeastNumber ==
  ASSUME NEW S \in SUBSET Nat, S # {}
  PROVE  \E n \in S : \A m \in S : n <= m
  <1> DEFINE Less == OpToRel(<, Nat)
  <1>1. PICK n \in S : \A m \in S : <<m, n>> \notin Less
    BY NatLessThanWellFounded, WFMin
  <1>2. \A m \in S : ~(m < n)
    BY <1>1 DEF OpToRel
  <1> QED BY <1>2

----------------------------------------------------------------------------
(* The spool *)

\* The rows present are finitely many, so counting them yields a number.
LEMMA RowsFinite ==
  ASSUME TypeOK, NEW S \in SUBSET Seqs
  PROVE  Cardinality(S) \in Nat
<1>1. IsFiniteSet(1..last_seq)
  BY FS_Interval DEF TypeOK
<1>2. IsFiniteSet(S)
  BY <1>1, FS_Subset DEF TypeOK
<1> QED
  BY <1>2, FS_CardinalityType

\* Deleting rows keeps what is left well typed.
LEMMA WithoutType ==
  ASSUME TypeOK, NEW S \in SUBSET Seqs, rows' = Without(S)
  PROVE  /\ Seqs' = Seqs \ S
         /\ rows' \in [Seqs' -> Row]
         /\ Covered(Seqs)' = Covered(Seqs \ S)
         /\ Covered(Seqs)' \subseteq 1..last_seq
         /\ Covered(S) \subseteq 1..last_seq
BY DEF TypeOK, Without, Seqs, Covered

\* Every row is well typed and covers issued windows only.
LEMMA RowType ==
  ASSUME TypeOK, NEW s \in Seqs
  PROVE  /\ rows[s] \in Row
         /\ rows[s].covers \subseteq 1..last_seq
BY DEF TypeOK, Covered

\* What a merge makes of its head is a row again, of the united windows.
LEMMA CoarserRow ==
  ASSUME NEW row \in Row, NEW windows \in SUBSET Nat, NEW size \in Nat
  PROVE  /\ Coarser(row, windows, size) \in Row
         /\ Coarser(row, windows, size).covers = windows
         /\ Coarser(row, windows, size).time = row.time
         /\ Coarser(row, windows, size).prio = row.prio
BY DEF Row, Coarser

\* Issued sequence numbers are numbers.
LEMMA IssuedNat == TypeOK => 1..last_seq \subseteq Nat /\ Seqs \subseteq Nat
BY DEF TypeOK

\* Counting under a named reason keeps the counters numbers.
LEMMA CountType ==
  ASSUME dropped \in [Reasons -> Nat], NEW reason \in Reasons, NEW n \in Nat, Count(reason, n)
  PROVE  dropped' \in [Reasons -> Nat]
BY DEF Count

\* Every priority has its reason.
LEMMA DropReasonType ==
  ASSUME TypeOK, NEW s \in Seqs
  PROVE  DropReason[rows[s].prio] \in Reasons
BY DEF TypeOK, Reasons, Row

LEMMA InitType == Init => TypeOK
BY SpoolAssumption DEF Init, TypeOK, Seqs, Covered, NoMerge, Row, Reasons

LEMMA StepType == TypeOK /\ [Next]_vars => TypeOK'
<1> SUFFICES ASSUME TypeOK, [Next]_vars PROVE TypeOK'
  OBVIOUS
<1> USE SpoolAssumption
<1>1. ASSUME NEW item \in Items, BeginEnqueue(item) PROVE TypeOK'
  BY <1>1 DEF BeginEnqueue, TypeOK, disk, Seqs, Covered
<1>2. CASE CoarsenDelete
  <2>1. PICK S \in SUBSET Seqs, head \in Seqs :
          /\ head \in S
          /\ rows' = Without(S \ {head})
          /\ merge' = [head |-> head, count |-> Cardinality(S), covers |-> Covered(S \ {head})]
    BY <1>2 DEF CoarsenDelete
  <2>2. /\ rows' \in [Seqs' -> Row] /\ Seqs' = Seqs \ (S \ {head})
        /\ Covered(Seqs)' \subseteq 1..last_seq
        /\ Covered(S \ {head}) \subseteq 1..last_seq
    BY <2>1, WithoutType
  <2>3. Cardinality(S) \in Nat
    BY <2>1, RowsFinite
  <2>4. merge' \in [head : Nat, count : Nat, covers : SUBSET Nat]
    <3>1. head \in Nat /\ \A w \in Covered(S \ {head}) : w \in Nat
      BY <2>2, IssuedNat
    <3>2. \A h, n \in Nat, w \in SUBSET Nat :
             [head |-> h, count |-> n, covers |-> w]
               \in [head : Nat, count : Nat, covers : SUBSET Nat]
      OBVIOUS
    <3>3. [head |-> head, count |-> Cardinality(S), covers |-> Covered(S \ {head})]
            \in [head : Nat, count : Nat, covers : SUBSET Nat]
      BY <2>3, <3>1, <3>2, Zenon
    <3> QED
      BY <2>1, <3>3
  <2>5. merge'.head \in Seqs' /\ merge'.covers \subseteq 1..last_seq
    BY <2>1, <2>2
  <2>6. /\ UNCHANGED <<last_seq, dropped, coarsened_count, incoming, gone>>
        /\ pc = "room" /\ pc' = "merge"
    BY <1>2 DEF CoarsenDelete
  <2> QED
    BY <2>2, <2>4, <2>5, <2>6 DEF TypeOK
<1>3. CASE CoarsenUpdate
  <2>1. PICK growth \in 0..CoarsenGrowth :
          rows' = [rows EXCEPT ![merge.head] =
                     Coarser(@, @.covers \cup merge.covers, @.size + growth)]
    BY <1>3 DEF CoarsenUpdate
  <2> DEFINE old == rows[merge.head]
  <2> DEFINE new == Coarser(old, old.covers \cup merge.covers, old.size + growth)
  <2>2. /\ merge.head \in Seqs
        /\ merge.covers \subseteq 1..last_seq /\ old.covers \subseteq 1..last_seq
    BY <1>3, RowType DEF CoarsenUpdate, TypeOK
  <2>3. new \in Row /\ new.covers \subseteq 1..last_seq
    <3>1. old \in Row /\ old.size \in Nat /\ growth \in Nat
      BY <2>2, RowType DEF Row
    <3>2. old.covers \cup merge.covers \in SUBSET Nat
      BY <2>2, IssuedNat
    <3>3. old.size + growth \in Nat
      BY <3>1
    <3> HIDE DEF old
    <3> QED
      BY <2>2, <3>1, <3>2, <3>3, CoarserRow
  <2>4. rows' = [rows EXCEPT ![merge.head] = new]
    BY <2>1
  <2>5. Seqs' = Seqs /\ rows' \in [Seqs -> Row]
    BY <2>2, <2>3, <2>4 DEF TypeOK, Seqs
  <2>6. Covered(Seqs)' \subseteq 1..last_seq
    <3>1. \A s \in Seqs : rows'[s].covers \subseteq 1..last_seq
      <4> HIDE DEF old, new
      <4> QED
        BY <2>2, <2>3, <2>4, RowType DEF TypeOK
    <3> QED
      BY <2>5, <3>1 DEF Covered
  <2>7. /\ UNCHANGED <<last_seq, dropped, incoming, gone>>
        /\ pc = "merge" /\ pc' = "room" /\ merge' = NoMerge
        /\ coarsened_count' \in Nat
    BY <1>3 DEF CoarsenUpdate, TypeOK
  <2> QED
    BY <2>5, <2>6, <2>7 DEF TypeOK, NoMerge
<1>4. CASE DropVictim
  <2>1. PICK s \in Seqs : /\ rows' = Without({s})
                          /\ gone' = gone \cup rows[s].covers
                          /\ Count(DropReason[rows[s].prio], 1)
    BY <1>4 DEF DropVictim
  <2>2. /\ rows' \in [Seqs' -> Row] /\ Seqs' = Seqs \ {s}
        /\ Covered(Seqs)' \subseteq 1..last_seq
        /\ Covered({s}) \subseteq 1..last_seq
    <3>1. {s} \in SUBSET Seqs /\ rows' = Without({s})
      BY <2>1
    <3> QED
      BY <3>1, WithoutType
  <2>3. dropped' \in [Reasons -> Nat]
    BY <2>1, CountType, DropReasonType DEF TypeOK
  <2>4. gone' \subseteq 1..last_seq
    BY <2>1, RowType DEF TypeOK
  <2>5. UNCHANGED <<last_seq, coarsened_count, pc, incoming, merge>> /\ pc = "room"
    BY <1>4 DEF DropVictim
  <2> QED
    BY <2>2, <2>3, <2>4, <2>5 DEF TypeOK
<1>5. CASE RefuseFull
  BY <1>5 DEF RefuseFull, TypeOK, disk, Seqs, Covered
<1>6. CASE Insert
  <2> DEFINE new == [prio |-> incoming.prio, metric |-> incoming.metric,
                     size |-> incoming.size, time |-> incoming.time,
                     covers |-> {last_seq + 1}, coarsened |-> FALSE]
  <2>1. /\ rows' = [s \in Seqs \cup {last_seq + 1} |-> IF s = last_seq + 1 THEN new ELSE rows[s]]
        /\ last_seq' = last_seq + 1
        /\ pc = "room" /\ pc' = "idle" /\ incoming' = NoItem
        /\ UNCHANGED <<dropped, coarsened_count, merge, gone>>
    BY <1>6 DEF Insert, NextSeq
  <2>2. incoming \in ItemType
    BY <2>1 DEF TypeOK
  <2>3. new \in Row
    BY <2>2 DEF Row, ItemType, TypeOK
  <2>4. Seqs' = Seqs \cup {last_seq + 1} /\ rows' \in [Seqs' -> Row]
    BY <2>1, <2>3 DEF TypeOK, Seqs
  <2>5. 1..last_seq' = (1..last_seq) \cup {last_seq + 1}
    BY <2>1 DEF TypeOK
  <2>7. Covered(Seqs)' \subseteq 1..last_seq'
    <3>1. \A s \in Seqs' : rows'[s].covers \subseteq 1..last_seq'
      BY <2>1, <2>4, <2>5, RowType
    <3> QED
      BY <3>1 DEF Covered
  <2>8. last_seq' \in Nat /\ Seqs' \subseteq 1..last_seq'
    BY <2>1, <2>4, <2>5 DEF TypeOK
  <2>9. merge = NoMerge /\ gone' \subseteq 1..last_seq'
    BY <2>1, <2>5 DEF TypeOK
  <2> QED
    BY <2>1, <2>4, <2>7, <2>8, <2>9 DEF TypeOK, NoMerge
<1>7. ASSUME NEW horizon \in Horizons, Prune(horizon) PROVE TypeOK'
  <2>1. Expired(horizon) \in SUBSET Seqs
    BY DEF Expired
  <2>2. Cardinality(Expired(horizon)) \in Nat
    BY <2>1, RowsFinite
  <2>3. /\ rows' \in [Seqs' -> Row] /\ Seqs' = Seqs \ Expired(horizon)
        /\ Covered(Seqs)' \subseteq 1..last_seq
        /\ Covered(Expired(horizon)) \subseteq 1..last_seq
    BY <1>7, <2>1, WithoutType DEF Prune
  <2>4. dropped' \in [Reasons -> Nat]
    BY <1>7, <2>2, CountType DEF Prune, TypeOK, Reasons
  <2> QED
    BY <1>7, <2>3, <2>4 DEF Prune, TypeOK
<1>8. ASSUME NEW S \in SUBSET Drained, Ack(S) PROVE TypeOK'
  <2>1. S \in SUBSET Seqs
    BY DEF Drained, Oldest
  <2>2. /\ rows' \in [Seqs' -> Row] /\ Seqs' = Seqs \ S
        /\ Covered(Seqs)' \subseteq 1..last_seq
        /\ Covered(S) \subseteq 1..last_seq
    BY <1>8, <2>1, WithoutType DEF Ack
  <2> QED
    BY <1>8, <2>2 DEF Ack, TypeOK, memory
<1>9. ASSUME NEW S \in SUBSET Drained, Discard(S, "backfill_refused") PROVE TypeOK'
  <2>1. S \in SUBSET Seqs
    BY DEF Drained, Oldest
  <2>2. Cardinality(S) \in Nat
    BY <2>1, RowsFinite
  <2>3. /\ rows' \in [Seqs' -> Row] /\ Seqs' = Seqs \ S
        /\ Covered(Seqs)' \subseteq 1..last_seq
        /\ Covered(S) \subseteq 1..last_seq
    BY <1>9, <2>1, WithoutType DEF Discard
  <2>4. dropped' \in [Reasons -> Nat]
    BY <1>9, <2>2, CountType DEF Discard, TypeOK, Reasons
  <2> QED
    BY <1>9, <2>3, <2>4 DEF Discard, TypeOK
<1>10. CASE Restart
  BY <1>10 DEF Restart, TypeOK, disk, Seqs, Covered, NoMerge
<1>11. CASE UNCHANGED vars
  BY <1>11 DEF vars, disk, memory, TypeOK, Seqs, Covered
<1> QED
  BY <1>1, <1>2, <1>3, <1>4, <1>5, <1>6, <1>7, <1>8, <1>9, <1>10, <1>11 DEF Next, MakeRoom

\* The tables, the counters and the enqueue in progress keep their types.
THEOREM SpoolTypes == Spec => []TypeOK
BY InitType, StepType, PTL DEF Spec

----------------------------------------------------------------------------
(***************************************************************************)
(* No count is in two places.  A merge keeps the rows of a pairwise        *)
(* disjoint family disjoint because the deleted rows' windows pass through *)
(* `merge.covers` into the head and nowhere else; a new row is disjoint    *)
(* from everything because its window has a number never issued before.    *)
(***************************************************************************)
LEMMA WithoutDisjoint ==
  ASSUME TypeOK, NoDoubleCount, NEW S \in SUBSET Seqs, rows' = Without(S)
  PROVE  /\ \A s \in Seqs' : s \in Seqs \ S /\ rows'[s] = rows[s]
         /\ \A s \in Seqs' : rows'[s].covers \cap Covered(S) = {}
         /\ Covered(S) \cap (gone \cup merge.covers) = {}
<1>1. \A s \in Seqs' : s \in Seqs \ S /\ rows'[s] = rows[s]
  BY DEF Without, Seqs
<1> QED
  BY <1>1 DEF Covered, NoDoubleCount

LEMMA InitNoDoubleCount == Init => NoDoubleCount
BY DEF Init, NoDoubleCount, Seqs, NoMerge

LEMMA RemovalNoDoubleCount ==
  ASSUME TypeOK, NoDoubleCount, NEW S \in SUBSET Seqs,
         rows' = Without(S), gone' = gone \cup Covered(S), merge' = merge
  PROVE  NoDoubleCount'
BY WithoutDisjoint DEF NoDoubleCount

LEMMA StepNoDoubleCount == TypeOK /\ NoDoubleCount /\ [Next]_vars => NoDoubleCount'
<1> SUFFICES ASSUME TypeOK, NoDoubleCount, [Next]_vars PROVE NoDoubleCount'
  OBVIOUS
<1>1. ASSUME NEW item \in Items, BeginEnqueue(item) PROVE NoDoubleCount'
  BY <1>1 DEF BeginEnqueue, NoDoubleCount, disk, Seqs
<1>2. CASE CoarsenDelete
  <2>1. PICK S \in SUBSET Seqs, head \in Seqs :
          /\ head \in S
          /\ rows' = Without(S \ {head})
          /\ merge' = [head |-> head, count |-> Cardinality(S), covers |-> Covered(S \ {head})]
    BY <1>2 DEF CoarsenDelete
  <2>2. merge'.covers = Covered(S \ {head}) /\ gone' = gone
    BY <1>2, <2>1 DEF CoarsenDelete
  <2> QED
    BY <2>1, <2>2, WithoutDisjoint DEF NoDoubleCount
<1>3. CASE CoarsenUpdate
  <2>1. PICK growth \in 0..CoarsenGrowth :
          rows' = [rows EXCEPT ![merge.head] =
                     Coarser(@, @.covers \cup merge.covers, @.size + growth)]
    BY <1>3 DEF CoarsenUpdate
  <2>2. merge.head \in Seqs /\ gone' = gone /\ merge'.covers = {}
    BY <1>3 DEF CoarsenUpdate, TypeOK, NoMerge
  <2>3. Seqs' = Seqs
    BY <2>1 DEF Seqs
  <2>4. rows'[merge.head].covers = rows[merge.head].covers \cup merge.covers
    <3>1. rows[merge.head] \in Row /\ DOMAIN rows = Seqs
      BY <2>2, RowType DEF Seqs
    <3> QED
      BY <2>1, <2>2, <3>1 DEF Coarser, Row
  <2>5. \A s \in Seqs \ {merge.head} : rows'[s] = rows[s]
    BY <2>1 DEF Seqs
  <2> QED
    BY <2>2, <2>3, <2>4, <2>5 DEF NoDoubleCount
<1>4. CASE DropVictim
  <2>1. PICK s \in Seqs : rows' = Without({s}) /\ gone' = gone \cup rows[s].covers
    BY <1>4 DEF DropVictim
  <2>2. Covered({s}) = rows[s].covers
    BY DEF Covered
  <2> QED
    BY <1>4, <2>1, <2>2, RemovalNoDoubleCount DEF DropVictim
<1>5. CASE RefuseFull
  BY <1>5 DEF RefuseFull, NoDoubleCount, disk, Seqs
<1>6. CASE Insert
  <2>1. /\ Seqs' = Seqs \cup {last_seq + 1}
        /\ rows'[last_seq + 1].covers = {last_seq + 1}
        /\ \A s \in Seqs : s # last_seq + 1 /\ rows'[s] = rows[s]
        /\ gone' = gone /\ merge' = merge
    BY <1>6 DEF Insert, NextSeq, Seqs, TypeOK
  <2>2. /\ last_seq + 1 \notin gone \cup merge.covers
        /\ \A s \in Seqs : last_seq + 1 \notin rows[s].covers
    BY RowType DEF TypeOK
  <2> QED
    BY <2>1, <2>2 DEF NoDoubleCount
<1>7. ASSUME NEW horizon \in Horizons, Prune(horizon) PROVE NoDoubleCount'
  <2>1. Expired(horizon) \in SUBSET Seqs
    BY DEF Expired
  <2> QED
    BY <1>7, <2>1, RemovalNoDoubleCount DEF Prune
<1>8. ASSUME NEW S \in SUBSET Drained, Ack(S) \/ Discard(S, "backfill_refused")
      PROVE  NoDoubleCount'
  <2>1. S \in SUBSET Seqs
    BY DEF Drained, Oldest
  <2> QED
    BY <1>8, <2>1, RemovalNoDoubleCount DEF Ack, Discard, memory
<1>9. CASE Restart
  BY <1>9 DEF Restart, NoDoubleCount, disk, Seqs, NoMerge
<1>10. CASE UNCHANGED vars
  BY <1>10 DEF vars, disk, memory, NoDoubleCount, Seqs
<1> QED
  BY <1>1, <1>2, <1>3, <1>4, <1>5, <1>6, <1>7, <1>8, <1>9, <1>10 DEF Next, MakeRoom

\* Whatever is merged, dropped, pruned, acknowledged or cut short by a crash, the
\* count of a window is in one place at most.
THEOREM CountedAtMostOnce == Spec => []NoDoubleCount
BY SpoolTypes, InitNoDoubleCount, StepNoDoubleCount, PTL DEF Spec

----------------------------------------------------------------------------
\* Sequence numbers only rise: a row that appears has a number never issued
\* before, whatever was drained, dropped or lost in between.
THEOREM SequenceMonotonic == Spec => SeqNeverReused
<1> DEFINE Fresh == /\ last_seq' >= last_seq
                    /\ \A s \in Seqs' \ Seqs : s > last_seq /\ s <= last_seq'
<1>1. ASSUME TypeOK, [Next]_vars PROVE [Fresh]_vars
  <2>1. ASSUME NEW item \in Items, BeginEnqueue(item) PROVE Fresh
    BY <1>1, <2>1 DEF BeginEnqueue, disk, Seqs, TypeOK
  <2>2. CASE MakeRoom
    <3>1. last_seq' = last_seq /\ last_seq \in Nat
      BY <1>1, <2>2 DEF MakeRoom, CoarsenDelete, CoarsenUpdate, DropVictim, RefuseFull,
                        disk, TypeOK
    <3>2. CASE CoarsenDelete
      BY <3>1, <3>2 DEF CoarsenDelete, Without, Seqs
    <3>3. CASE CoarsenUpdate
      BY <3>1, <3>3 DEF CoarsenUpdate, Seqs
    <3>4. CASE DropVictim
      BY <3>1, <3>4 DEF DropVictim, Without, Seqs
    <3>5. CASE RefuseFull
      BY <3>1, <3>5 DEF RefuseFull, disk, Seqs
    <3> QED
      BY <2>2, <3>2, <3>3, <3>4, <3>5 DEF MakeRoom
  <2>3. CASE Insert
    BY <1>1, <2>3 DEF Insert, NextSeq, Seqs, TypeOK
  <2>4. ASSUME NEW horizon \in Horizons, Prune(horizon) PROVE Fresh
    BY <1>1, <2>4 DEF Prune, Without, Seqs, TypeOK
  <2>5. ASSUME NEW S \in SUBSET Drained, Ack(S) \/ Discard(S, "backfill_refused") PROVE Fresh
    BY <1>1, <2>5 DEF Ack, Discard, Without, Seqs, TypeOK
  <2>6. CASE Restart
    BY <1>1, <2>6 DEF Restart, disk, Seqs, TypeOK
  <2> QED
    BY <1>1, <2>1, <2>2, <2>3, <2>4, <2>5, <2>6 DEF Next
<1> QED
  BY <1>1, SpoolTypes, PTL DEF Spec, SeqNeverReused

----------------------------------------------------------------------------
\* A record always carries the window it was admitted as.
NonEmptyCovers == \A s \in Seqs : s \in rows[s].covers

LEMMA StepNonEmptyCovers == TypeOK /\ NonEmptyCovers /\ [Next]_vars => NonEmptyCovers'
<1> SUFFICES ASSUME TypeOK, NonEmptyCovers, [Next]_vars PROVE NonEmptyCovers'
  OBVIOUS
<1>1. ASSUME NEW S \in SUBSET Seqs, rows' = Without(S) PROVE NonEmptyCovers'
  BY <1>1 DEF NonEmptyCovers, Without, Seqs
<1>2. CASE CoarsenDelete
  BY <1>1, <1>2 DEF CoarsenDelete
<1>3. CASE CoarsenUpdate
  <2>1. PICK growth \in 0..CoarsenGrowth :
          rows' = [rows EXCEPT ![merge.head] =
                     Coarser(@, @.covers \cup merge.covers, @.size + growth)]
    BY <1>3 DEF CoarsenUpdate
  <2>2. merge.head \in Seqs /\ rows[merge.head] \in Row
    BY <1>3, RowType DEF CoarsenUpdate, TypeOK
  <2>3. rows'[merge.head].covers = rows[merge.head].covers \cup merge.covers
    BY <2>1, <2>2 DEF Coarser, Row, Seqs
  <2> QED
    BY <2>1, <2>2, <2>3 DEF NonEmptyCovers, Seqs
<1>4. CASE DropVictim
  BY <1>1, <1>4 DEF DropVictim
<1>5. CASE Insert
  BY <1>5 DEF Insert, NonEmptyCovers, Seqs
<1>6. ASSUME NEW horizon \in Horizons, Prune(horizon) PROVE NonEmptyCovers'
  BY <1>1, <1>6 DEF Prune, Expired
<1>7. ASSUME NEW S \in SUBSET Drained, Ack(S) \/ Discard(S, "backfill_refused")
      PROVE  NonEmptyCovers'
  BY <1>1, <1>7 DEF Ack, Discard, Drained, Oldest
<1>8. ASSUME rows' = rows PROVE NonEmptyCovers'
  BY <1>8 DEF NonEmptyCovers, Seqs
<1> QED
  BY <1>2, <1>3, <1>4, <1>5, <1>6, <1>7, <1>8
  DEF Next, MakeRoom, BeginEnqueue, RefuseFull, Restart, disk, vars

----------------------------------------------------------------------------
\* Overflow sheds in the canonical order, for every mix of records.  Only
\* DropVictim removes a row in the middle of an enqueue and gives its windows
\* up; a merge removes rows too, but keeps their windows out of `gone`.
THEOREM OverflowInOrder == Spec => ShedsInOrder
<1> DEFINE InOrder == \A s \in Seqs : Overflowed(s) =>
                        /\ rows[s].prio >= incoming.prio
                        /\ \A t \in Seqs' : rows[t].prio <= rows[s].prio
                        /\ rows[s].prio <= AGGREGATE => GroupsOfTwo = {}
<1>1. ASSUME TypeOK, NoDoubleCount, NonEmptyCovers, [Next]_vars PROVE [InOrder]_vars
  <2> SUFFICES ASSUME NEW s \in Seqs, Overflowed(s), Next
               PROVE  /\ rows[s].prio >= incoming.prio
                      /\ \A t \in Seqs' : rows[t].prio <= rows[s].prio
                      /\ rows[s].prio <= AGGREGATE => GroupsOfTwo = {}
    BY <1>1
  <2>1. pc = "room" /\ s \in Seqs \ Seqs' /\ rows[s].covers \subseteq gone'
    BY DEF Overflowed
  <2>2. Seqs' # Seqs
    BY <2>1
  <2>3. CASE CoarsenDelete
    <3>1. gone' = gone
      BY <2>3 DEF CoarsenDelete
    <3>2. rows[s].covers # {} /\ rows[s].covers \cap gone = {}
      BY <1>1 DEF NonEmptyCovers, NoDoubleCount
    <3> QED
      BY <2>1, <3>1, <3>2
  <2>4. CASE DropVictim
    <3>1. PICK v \in Seqs : IsVictim(v) /\ rows[v].prio >= incoming.prio /\ rows' = Without({v})
      BY <2>4 DEF DropVictim
    <3>2. Seqs' = Seqs \ {v}
      BY <3>1 DEF Without, Seqs
    <3>3. s = v
      BY <2>1, <3>2
    <3>4. \A t \in Seqs : rows[t].prio \in Priority
      BY <1>1, RowType DEF Row
    <3>5. \A t \in Seqs : rows[t].prio <= rows[s].prio
      BY <3>1, <3>3, <3>4 DEF IsVictim, Priority, SAFETY_SECURITY, HEALTH
    <3>6. HealthSpooled \/ GroupsOfTwo = {}
      BY <2>4 DEF DropVictim, MustCoarsen
    <3>7. rows[s].prio <= AGGREGATE => ~HealthSpooled
      BY <3>4, <3>5 DEF HealthSpooled, Priority, SAFETY_SECURITY, HEALTH, AGGREGATE
    <3> QED
      BY <3>1, <3>2, <3>3, <3>5, <3>6, <3>7
  <2>5. CASE Insert
    BY <2>1, <2>5 DEF Insert, Seqs
  <2> QED
    BY <2>1, <2>2, <2>3, <2>4, <2>5
    DEF Next, MakeRoom, BeginEnqueue, CoarsenUpdate, RefuseFull, Prune, Ack, Discard,
        Restart, disk, Seqs
<1>2. Spec => []NonEmptyCovers
  <2>1. Init => NonEmptyCovers
    BY DEF Init, NonEmptyCovers, Seqs
  <2>2. ASSUME TypeOK, NonEmptyCovers, [Next]_vars PROVE NonEmptyCovers'
    BY <2>2, StepNonEmptyCovers
  <2> QED
    BY <2>1, <2>2, SpoolTypes, PTL DEF Spec
<1> QED
  BY <1>1, <1>2, SpoolTypes, CountedAtMostOnce, PTL DEF Spec, ShedsInOrder

----------------------------------------------------------------------------
(***************************************************************************)
(* The spool implements the ledger: every commit is one ledger step or     *)
(* changes nothing the ledger sees.                                        *)
(***************************************************************************)
LEMMA LedgerInit == Init => Ledger!Init
BY DEF Init, Ledger!Init, LiveWindows, Seqs

\* A ledger that sees the same rows, merge, number and departures stutters.
LEMMA LedgerStutter ==
  ASSUME rows' = rows, merge' = merge, last_seq' = last_seq, gone' = gone
  PROVE  UNCHANGED Ledger!vars
BY DEF Ledger!vars, LiveWindows, Seqs

\* Outside a merge the ledger sees what the rows cover.
LEMMA LiveIsCovers ==
  ASSUME merge = NoMerge, TypeOK
  PROVE  /\ LiveWindows = [s \in Seqs |-> rows[s].covers]
         /\ \A S \in SUBSET Seqs : Ledger!In(S) = Covered(S)
<1>1. \A s \in Seqs : (IF s = merge.head THEN merge.covers ELSE {}) = {}
  BY DEF NoMerge
<1>2. LiveWindows = [s \in Seqs |-> rows[s].covers]
  BY <1>1 DEF LiveWindows
<1> QED
  BY <1>2 DEF Ledger!In, Covered

LEMMA LedgerLeave ==
  ASSUME TypeOK, merge = NoMerge, merge' = NoMerge, NEW S \in SUBSET Seqs,
         rows' = Without(S), gone' = gone \cup Covered(S), last_seq' = last_seq
  PROVE  Ledger!Leave(S)
<1>1. Seqs' = Seqs \ S /\ \A s \in Seqs' : rows'[s] = rows[s]
  BY DEF Without, Seqs
<1>2. \A s \in Seqs' : (IF s = merge'.head THEN merge'.covers ELSE {}) = {}
  BY DEF NoMerge
<1>3. LiveWindows' = [s \in Seqs' |-> rows'[s].covers]
  BY <1>2 DEF LiveWindows
<1>4. Ledger!Records = Seqs /\ \A s \in Seqs : LiveWindows[s] = rows[s].covers
  BY LiveIsCovers DEF Ledger!Records
<1>5. LiveWindows' = [r \in Ledger!Records \ S |-> LiveWindows[r]]
  BY <1>1, <1>3, <1>4
<1> QED
  BY <1>5, LiveIsCovers DEF Ledger!Leave

LEMMA LedgerStep ==
  TypeOK /\ NoDoubleCount /\ NonEmptyCovers /\ [Next]_vars => [Ledger!Next]_(Ledger!vars)
<1> SUFFICES ASSUME TypeOK, NoDoubleCount, NonEmptyCovers, [Next]_vars
             PROVE  Ledger!Next \/ UNCHANGED Ledger!vars
  OBVIOUS
<1>0. Ledger!Records = Seqs
  BY DEF Ledger!Records, LiveWindows
<1>1. ASSUME NEW item \in Items, BeginEnqueue(item) PROVE UNCHANGED Ledger!vars
  BY <1>1, LedgerStutter DEF BeginEnqueue, disk
<1>2. CASE CoarsenDelete
  <2>1. PICK S \in SUBSET Seqs, head \in Seqs :
          /\ head \in S /\ \A s \in S : head <= s
          /\ rows' = Without(S \ {head})
          /\ merge' = [head |-> head, count |-> Cardinality(S), covers |-> Covered(S \ {head})]
    BY <1>2 DEF CoarsenDelete
  <2>2. last_seq' = last_seq /\ gone' = gone /\ merge = NoMerge
    BY <1>2 DEF CoarsenDelete, TypeOK
  <2>3. Seqs' = (Seqs \ S) \cup {head} /\ \A s \in Seqs' : rows'[s] = rows[s]
    BY <2>1 DEF Without, Seqs
  <2>4. /\ \A s \in Seqs' \ {head} : LiveWindows'[s] = rows[s].covers
        /\ LiveWindows'[head] = rows[head].covers \cup Covered(S \ {head})
    BY <2>1, <2>3 DEF LiveWindows
  <2>5. Ledger!In(S) = rows[head].covers \cup Covered(S \ {head})
    BY <2>1, <2>2, LiveIsCovers DEF Covered
  <2>6. \A s \in Seqs : LiveWindows[s] = rows[s].covers
    BY <2>2, LiveIsCovers
  <2>7. DOMAIN LiveWindows' = Seqs' /\ LiveWindows' = [s \in Seqs' |-> LiveWindows'[s]]
    BY DEF LiveWindows
  <2>8. LiveWindows' = [r \in (Ledger!Records \ S) \cup {head} |->
                          IF r = head THEN Ledger!In(S) ELSE LiveWindows[r]]
    BY <1>0, <2>1, <2>3, <2>4, <2>5, <2>6, <2>7
  <2>9. Ledger!Fold(S, head)
    BY <2>1, <2>2, <2>8 DEF Ledger!Fold
  <2> QED
    BY <1>0, <2>1, <2>9 DEF Ledger!Next
<1>3. CASE CoarsenUpdate
  <2>1. PICK growth \in 0..CoarsenGrowth :
          rows' = [rows EXCEPT ![merge.head] =
                     Coarser(@, @.covers \cup merge.covers, @.size + growth)]
    BY <1>3 DEF CoarsenUpdate
  <2>2. /\ merge.head \in Seqs /\ rows[merge.head] \in Row
        /\ gone' = gone /\ last_seq' = last_seq /\ merge' = NoMerge
    BY <1>3, RowType DEF CoarsenUpdate, TypeOK
  <2>3. /\ Seqs' = Seqs
        /\ rows'[merge.head].covers = rows[merge.head].covers \cup merge.covers
        /\ \A s \in Seqs \ {merge.head} : rows'[s] = rows[s]
    BY <2>1, <2>2 DEF Coarser, Row, Seqs
  <2>4. \A s \in Seqs' : (IF s = merge'.head THEN merge'.covers ELSE {}) = {}
    BY <2>2 DEF NoMerge
  <2>5. LiveWindows' = LiveWindows
    BY <2>3, <2>4 DEF LiveWindows
  <2> QED
    BY <2>2, <2>5 DEF Ledger!vars
<1>4. CASE DropVictim
  <2>1. PICK s \in Seqs : rows' = Without({s}) /\ gone' = gone \cup rows[s].covers
    BY <1>4 DEF DropVictim
  <2>2. Covered({s}) = rows[s].covers /\ {s} \in SUBSET Seqs
    BY DEF Covered
  <2>3. merge = NoMerge /\ merge' = NoMerge /\ last_seq' = last_seq
    BY <1>4 DEF DropVictim, TypeOK
  <2>4. Ledger!Leave({s})
    BY <2>1, <2>2, <2>3, LedgerLeave
  <2> QED
    BY <1>0, <2>2, <2>4 DEF Ledger!Next
<1>5. CASE RefuseFull
  BY <1>5, LedgerStutter DEF RefuseFull, disk
<1>6. CASE Insert
  <2>1. /\ Seqs' = Seqs \cup {last_seq + 1} /\ last_seq' = last_seq + 1
        /\ rows'[last_seq + 1].covers = {last_seq + 1}
        /\ \A s \in Seqs : s # last_seq + 1 /\ rows'[s] = rows[s]
        /\ gone' = gone /\ merge' = merge /\ merge = NoMerge
    BY <1>6 DEF Insert, NextSeq, Seqs, TypeOK
  <2>2. \A s \in Seqs' : (IF s = merge'.head THEN merge'.covers ELSE {}) = {}
    BY <2>1 DEF NoMerge
  <2>3. LiveWindows' = [s \in Seqs' |-> rows'[s].covers]
    BY <2>2 DEF LiveWindows
  <2>4. \A s \in Seqs : LiveWindows[s] = rows[s].covers
    BY <2>1, LiveIsCovers
  <2>5. LiveWindows' = [r \in Ledger!Records \cup {last_seq + 1} |->
                          IF r = last_seq + 1 THEN {r} ELSE LiveWindows[r]]
    BY <1>0, <2>1, <2>3, <2>4
  <2> QED
    BY <2>1, <2>5 DEF Ledger!Next, Ledger!Admit
<1>7. ASSUME NEW horizon \in Horizons, Prune(horizon) PROVE Ledger!Next
  <2>1. Expired(horizon) \in SUBSET Seqs
    BY DEF Expired
  <2>2. Ledger!Leave(Expired(horizon))
    BY <1>7, <2>1, LedgerLeave DEF Prune, TypeOK
  <2> QED
    BY <1>0, <2>1, <2>2 DEF Ledger!Next
<1>8. ASSUME NEW S \in SUBSET Drained, Ack(S) \/ Discard(S, "backfill_refused")
      PROVE  Ledger!Next
  <2>1. S \in SUBSET Seqs
    BY DEF Drained, Oldest
  <2>2. Ledger!Leave(S)
    BY <1>8, <2>1, LedgerLeave DEF Ack, Discard, memory, TypeOK
  <2> QED
    BY <1>0, <2>1, <2>2 DEF Ledger!Next
<1>9. CASE Restart /\ pc # "merge"
  BY <1>9, LedgerStutter DEF Restart, disk, TypeOK
<1>10. CASE Restart /\ pc = "merge"
  <2>1. /\ rows' = rows /\ last_seq' = last_seq /\ gone' = gone /\ merge' = NoMerge
        /\ merge.head \in Seqs
    BY <1>10 DEF Restart, disk, TypeOK
  <2>2. \A s \in Seqs' : (IF s = merge'.head THEN merge'.covers ELSE {}) = {}
    BY <2>1 DEF NoMerge
  <2>3. LiveWindows' = [s \in Seqs |-> rows[s].covers]
    BY <2>1, <2>2 DEF LiveWindows, Seqs
  <2>4. rows[merge.head].covers \cap merge.covers = {} /\ merge.head \notin merge.covers
    BY <2>1 DEF NoDoubleCount, NonEmptyCovers
  <2>5. LiveWindows' = [LiveWindows EXCEPT ![merge.head] = @ \ merge.covers]
    BY <2>1, <2>3, <2>4 DEF LiveWindows
  <2>6. merge.covers \in SUBSET LiveWindows[merge.head]
    BY <2>1 DEF LiveWindows
  <2>7. Ledger!Vanish(merge.head, merge.covers)
    BY <2>1, <2>4, <2>5 DEF Ledger!Vanish
  <2> QED
    BY <1>0, <2>1, <2>6, <2>7 DEF Ledger!Next
<1>11. CASE UNCHANGED vars
  BY <1>11, LedgerStutter DEF vars, disk, memory
<1> QED
  BY <1>1, <1>2, <1>3, <1>4, <1>5, <1>6, <1>7, <1>8, <1>9, <1>10, <1>11 DEF Next, MakeRoom

\* The spool implements the window ledger.
THEOREM SpoolKeepsLedger == Spec => KeepsLedger
<1>1. Spec => []NonEmptyCovers
  <2>1. Init => NonEmptyCovers
    BY DEF Init, NonEmptyCovers, Seqs
  <2> QED
    BY <2>1, StepNonEmptyCovers, SpoolTypes, PTL DEF Spec
<1> QED
  BY <1>1, LedgerInit, LedgerStep, SpoolTypes, CountedAtMostOnce, PTL
  DEF Spec, KeepsLedger, Ledger!Spec

----------------------------------------------------------------------------
(* What can be lost *)

\* Deleting rows whose windows are given up, or carried by a merge, loses none.
LEMMA WithoutLosesNone ==
  ASSUME TypeOK, NEW S \in SUBSET Seqs, rows' = Without(S), last_seq' = last_seq,
         gone' \cup merge'.covers = gone \cup merge.covers \cup Covered(S)
  PROVE  Lost' = Lost
<1>1. Covered(Seqs)' = Covered(Seqs \ S) /\ Covered(Seqs) = Covered(Seqs \ S) \cup Covered(S)
  BY WithoutType DEF Covered
<1> QED
  BY <1>1 DEF Lost

\* A count vanishes only in a restart between the two commits of a merge, and then it is the
\* count the merge was carrying: no other step, whatever it deletes, loses a window.
THEOREM OnlyMergeLoses == Spec => LostOnlyInsideMerge
<1> DEFINE Loses == Lost' # Lost => pc = "merge" /\ pc' = "idle" /\ Lost' = Lost \cup merge.covers
<1>1. ASSUME TypeOK, NoDoubleCount, [Next]_vars PROVE Loses
  <2> USE <1>1
  <2> USE SpoolAssumption
  <2>1. ASSUME UNCHANGED <<rows, last_seq, merge, gone>> PROVE Lost' = Lost
    BY <2>1 DEF Lost, Covered, Seqs
  <2>2. CASE CoarsenDelete
    <3>1. PICK S \in SUBSET Seqs, head \in Seqs :
            /\ rows' = Without(S \ {head})
            /\ merge' = [head |-> head, count |-> Cardinality(S), covers |-> Covered(S \ {head})]
      BY <2>2 DEF CoarsenDelete
    <3>2. merge.covers = {} /\ last_seq' = last_seq /\ gone' = gone
      BY <2>2 DEF CoarsenDelete, TypeOK, NoMerge
    <3> DEFINE T == S \ {head}
    <3>3. T \in SUBSET Seqs /\ rows' = Without(T)
          /\ merge'.covers = Covered(T)
      BY <3>1
    <3> HIDE DEF T
    <3> QED
      BY <3>2, <3>3, WithoutLosesNone
  <2>3. CASE CoarsenUpdate
    <3>1. PICK growth \in 0..CoarsenGrowth :
            rows' = [rows EXCEPT ![merge.head] =
                      Coarser(rows[merge.head], rows[merge.head].covers \cup merge.covers,
                              rows[merge.head].size + growth)]
      BY <2>3 DEF CoarsenUpdate
    <3>2. /\ merge.head \in Seqs /\ rows[merge.head] \in Row /\ growth \in Nat
          /\ rows[merge.head].covers \cup merge.covers \in SUBSET Nat
          /\ rows[merge.head].size + growth \in Nat
      <4>1. merge.head \in Seqs /\ merge.covers \subseteq 1..last_seq
        BY <2>3 DEF CoarsenUpdate, TypeOK
      <4>2. rows[merge.head] \in Row
        BY <4>1, RowType
      <4> QED
        BY <4>1, <4>2, IssuedNat DEF Row
    <3>3. /\ Seqs' = Seqs
          /\ rows'[merge.head].covers = rows[merge.head].covers \cup merge.covers
          /\ \A s \in Seqs : s # merge.head => rows'[s] = rows[s]
      BY <3>1, <3>2, CoarserRow DEF Seqs, TypeOK
    <3>4. Covered(Seqs)' = Covered(Seqs) \cup merge.covers
      BY <3>2, <3>3 DEF Covered
    <3>5. merge'.covers = {} /\ last_seq' = last_seq /\ gone' = gone
      BY <2>3 DEF CoarsenUpdate, NoMerge
    <3> QED
      BY <3>4, <3>5 DEF Lost
  <2>4. CASE DropVictim
    <3>1. PICK s \in Seqs : rows' = Without({s}) /\ gone' = gone \cup rows[s].covers
      BY <2>4 DEF DropVictim
    <3>2. Covered({s}) = rows[s].covers /\ last_seq' = last_seq /\ merge' = merge
      BY <2>4 DEF DropVictim, Covered
    <3> QED
      BY <3>1, <3>2, WithoutLosesNone
  <2>5. CASE Insert
    <3>1. /\ Seqs' = Seqs \cup {last_seq + 1} /\ last_seq' = last_seq + 1
          /\ rows'[last_seq + 1].covers = {last_seq + 1}
          /\ \A s \in Seqs : s # last_seq + 1 /\ rows'[s] = rows[s]
          /\ gone' = gone /\ merge' = merge
      BY <2>5 DEF Insert, NextSeq, Seqs, TypeOK
    <3>2. Covered(Seqs)' = Covered(Seqs) \cup {last_seq + 1}
      BY <3>1 DEF Covered
    <3>3. 1..(last_seq + 1) = (1..last_seq) \cup {last_seq + 1} /\ last_seq + 1 \notin 1..last_seq
      BY DEF TypeOK
    <3>4. last_seq + 1 \notin Covered(Seqs) \cup merge.covers \cup gone
      BY <3>3 DEF TypeOK
    <3> QED
      BY <3>1, <3>2, <3>3, <3>4 DEF Lost
  <2>6. ASSUME NEW horizon \in Horizons, Prune(horizon) PROVE Lost' = Lost
    <3>1. Expired(horizon) \in SUBSET Seqs
      BY DEF Expired
    <3> QED
      BY <2>6, <3>1, WithoutLosesNone DEF Prune
  <2>7. ASSUME NEW S \in SUBSET Drained, Ack(S) \/ Discard(S, "backfill_refused")
        PROVE  Lost' = Lost
    <3>1. S \in SUBSET Seqs
      BY DEF Drained, Oldest
    <3> QED
      BY <2>7, <3>1, WithoutLosesNone DEF Ack, Discard, memory
  <2>8. CASE Restart
    <3>1. Covered(Seqs)' = Covered(Seqs) /\ merge'.covers = {} /\ gone' = gone
          /\ last_seq' = last_seq /\ pc' = "idle"
      BY <2>8 DEF Restart, disk, NoMerge, Covered, Seqs
    <3>2. merge.covers \cap (Covered(Seqs) \cup gone) = {}
      BY DEF NoDoubleCount, Covered
    <3>3. Lost' = Lost \cup merge.covers
      BY <3>1, <3>2 DEF Lost, TypeOK
    <3>4. pc # "merge" => merge.covers = {}
      BY DEF TypeOK, NoMerge
    <3> QED
      BY <3>1, <3>3, <3>4
  <2> HIDE DEF Loses
  <2>9. Lost' = Lost => Loses
    BY DEF Loses
  <2>10. CASE \E item \in Items : BeginEnqueue(item)
    BY <2>1, <2>9, <2>10 DEF BeginEnqueue, disk
  <2>11. CASE RefuseFull
    BY <2>1, <2>9, <2>11 DEF RefuseFull, disk
  <2>12. CASE UNCHANGED vars
    BY <2>1, <2>9, <2>12 DEF vars, disk, memory
  <2> QED
    BY <2>2, <2>3, <2>4, <2>5, <2>6, <2>7, <2>8, <2>9, <2>10, <2>11, <2>12 DEF Next, MakeRoom
<1>2. TypeOK /\ NoDoubleCount /\ [Next]_vars => [Loses]_vars
  BY <1>1
<1> QED
  BY <1>2, SpoolTypes, CountedAtMostOnce, PTL DEF Spec, LostOnlyInsideMerge

----------------------------------------------------------------------------
(***************************************************************************)
(* The spool is bounded, if merging records makes them smaller: then what  *)
(* the head of a merge gains has been freed by the commit before it, and   *)
(* the table holds no more after the two commits than it did before them.  *)
(* The aggregates of the program are such (aggregation.py:56-67): what a   *)
(* merge adds, one key and a digit, is less than a payload of seven keys.  *)
(***************************************************************************)
MergesShrink == \A item \in Items : item.metric # NoMetric => CoarsenGrowth <= item.size

Sizes == [s \in Seqs |-> rows[s].size]

Bounded ==
  /\ UsedBytes <= Capacity
  /\ pc = "merge" => UsedBytes + CoarsenGrowth <= Capacity
  /\ \A s \in Seqs : rows[s].metric # NoMetric => CoarsenGrowth <= rows[s].size

\* The table has finitely many rows, and each has a size.
LEMMA SizesType ==
  ASSUME TypeOK
  PROVE  /\ IsFiniteSet(Seqs) /\ Sizes \in [Seqs -> Nat]
         /\ UsedBytes \in Nat /\ UsedBytes = Total(Sizes)
  <1>1. IsFiniteSet(1..last_seq)
    BY FS_Interval DEF TypeOK
  <1>2. IsFiniteSet(Seqs)
    BY <1>1, FS_Subset DEF TypeOK
  <1>3. Sizes \in [Seqs -> Nat]
    BY RowType DEF Sizes, Row
  <1>4. UsedBytes = Total(Sizes)
    BY DEF UsedBytes, Sizes
  <1> QED BY <1>2, <1>3, <1>4, TotalType

\* The same after a step.
LEMMA SizesTypeNext ==
  TypeOK' => (/\ IsFiniteSet(Seqs) /\ Sizes \in [Seqs -> Nat]
              /\ UsedBytes \in Nat /\ UsedBytes = Total(Sizes))'
BY SizesType, PTL

\* Deleting rows frees what they took.
LEMMA WithoutFrees ==
  ASSUME TypeOK, NEW S \in SUBSET Seqs, rows' = Without(S)
  PROVE  /\ UsedBytes' \in Nat /\ UsedBytes' <= UsedBytes
         /\ \A t \in S : UsedBytes' + rows[t].size <= UsedBytes
  <1> DEFINE kept == Part(Sizes, Seqs \ S)  freed == Part(Sizes, S)
  <1>1. /\ IsFiniteSet(Seqs) /\ Sizes \in [Seqs -> Nat]
        /\ UsedBytes \in Nat /\ UsedBytes = Total(Sizes)
    BY SizesType
  <1>2. IsFiniteSet(S) /\ IsFiniteSet(Seqs \ S) /\ Seqs = (Seqs \ S) \cup S
    BY <1>1, FS_Subset
  <1>3. kept \in [Seqs \ S -> Nat] /\ freed \in [S -> Nat] /\ Sizes \in [(Seqs \ S) \cup S -> Nat]
    BY <1>1, <1>2 DEF Part
  <1>4. Total(Sizes) = Total(kept) + Total(freed)
    <2>1. (Seqs \ S) \cap S = {}
      OBVIOUS
    <2> QED BY <1>2, <1>3, <2>1, TotalSplit
  <1>5. UsedBytes' = Total(kept)
    <2>1. Sizes' = kept
      BY DEF Sizes, Without, Seqs, Part
    <2>2. UsedBytes' = Total(Sizes')
      BY DEF UsedBytes, Sizes
    <2> QED BY <2>1, <2>2
  <1>6. Total(kept) \in Nat /\ Total(freed) \in Nat
    <2> HIDE DEF kept, freed
    <2> QED BY <1>2, <1>3, TotalType
  <1>7. ASSUME NEW t \in S PROVE rows[t].size <= Total(freed)
    <2>1. freed[t] \in Nat /\ freed[t] = rows[t].size
      BY <1>3 DEF Sizes, Part
    <2> HIDE DEF freed
    <2>2. /\ Total(Part(freed, S \ {t})) \in Nat
          /\ Total(freed) = freed[t] + Total(Part(freed, S \ {t}))
      BY <1>2, <1>3, TotalOf
    <2> QED BY <2>1, <2>2
  <1>8. \A t \in S : rows[t].size \in Nat
    BY RowType DEF Row
  <1> HIDE DEF kept, freed
  <1> QED BY <1>1, <1>4, <1>5, <1>6, <1>7, <1>8

\* Changing the size of one row, or adding a row, changes the sum by as much.
LEMMA RowAdds ==
  ASSUME TypeOK, TypeOK', NEW s \in Seqs', Seqs \ {s} = Seqs' \ {s},
         \A t \in Seqs \ {s} : rows'[t] = rows[t]
  PROVE  UsedBytes' = UsedBytes + rows'[s].size - (IF s \in Seqs THEN rows[s].size ELSE 0)
  <1> DEFINE others == Part(Sizes, Seqs \ {s})
  <1>1. /\ IsFiniteSet(Seqs) /\ Sizes \in [Seqs -> Nat]
        /\ UsedBytes \in Nat /\ UsedBytes = Total(Sizes)
    BY SizesType
  <1>2. /\ IsFiniteSet(Seqs') /\ Sizes' \in [Seqs' -> Nat]
        /\ UsedBytes' \in Nat /\ UsedBytes' = Total(Sizes')
    BY SizesTypeNext
  <1>3. Part(Sizes', Seqs' \ {s}) = others
    BY DEF Sizes, Part
  <1>4. UsedBytes' = rows'[s].size + Total(others)
    <2> DEFINE after == Sizes'  present == Seqs'
    <2>1. Total(after) = after[s] + Total(Part(after, present \ {s}))
      <3>1. IsFiniteSet(present) /\ after \in [present -> Nat] /\ s \in present
        BY <1>2
      <3> HIDE DEF after, present
      <3> QED BY <3>1, TotalOf
    <2>2. Sizes'[s] = rows'[s].size
      BY DEF Sizes
    <2> HIDE DEF others
    <2> QED BY <1>2, <1>3, <2>1, <2>2
  <1>5. CASE s \in Seqs
    <2>1. Total(others) \in Nat /\ Total(Sizes) = Sizes[s] + Total(others)
      BY <1>1, <1>5, TotalOf
    <2>2. /\ Sizes[s] = rows[s].size /\ Sizes[s] \in Nat
          /\ Sizes'[s] = rows'[s].size /\ Sizes'[s] \in Nat
      BY <1>1, <1>2, <1>5 DEF Sizes
    <2> HIDE DEF others
    <2> QED BY <1>1, <1>4, <1>5, <2>1, <2>2
  <1>6. CASE s \notin Seqs
    <2>1. others = Sizes
      BY <1>6 DEF Sizes, Part
    <2>2. Sizes'[s] = rows'[s].size /\ Sizes'[s] \in Nat
      BY <1>2 DEF Sizes
    <2> QED BY <1>1, <1>4, <1>6, <2>1, <2>2
  <1> QED BY <1>5, <1>6

\* A merge takes at least two records: the two oldest of a group of two or more.
LEMMA MergeTakesTwo ==
  ASSUME TypeOK, NEW S, IsMerged(S)
  PROVE  /\ S \subseteq Seqs
         /\ \A s \in S : rows[s].metric # NoMetric
         /\ \E s, t \in S : s # t
  <1>1. PICK m \in GroupsOfTwo : S = Oldest(Group(m), CoarsenFactor)
    BY DEF IsMerged
  <1> DEFINE G == Group(m)
  <1>2. /\ m # NoMetric /\ Cardinality(G) >= 2 /\ G \subseteq Seqs
        /\ \A s \in G : rows[s].metric = m
    BY <1>1 DEF GroupsOfTwo, Group
  <1>3. IsFiniteSet(G) /\ G \subseteq Nat
    BY <1>2, SizesType, FS_Subset, IssuedNat
  <1> HIDE DEF G
  <1>4. G # {} /\ \A s \in G : G \ {s} # {}
    <2>1. G # {}
      BY <1>2, FS_EmptySet
    <2>2. ASSUME NEW s \in G, G \ {s} = {} PROVE FALSE
      <3>1. G = {s}
        BY <2>2
      <3> QED BY <1>2, <3>1, FS_Singleton
    <2> QED BY <2>1, <2>2
  <1>5. PICK a \in G : \A s \in G : a <= s
    BY <1>3, <1>4, LeastNumber
  <1>6. PICK b \in G \ {a} : \A s \in G \ {a} : b <= s
    <2>1. G \ {a} \in SUBSET Nat /\ G \ {a} # {}
      BY <1>3, <1>4
    <2> QED BY <2>1, LeastNumber
  <1>7. {s \in G : s < a} = {} /\ {s \in G : s < b} = {a}
    <2>1. a \in Nat /\ b \in Nat /\ a < b
      BY <1>3, <1>5, <1>6
    <2>2. \A s \in G : ~(s < a) /\ (s < b <=> s = a)
      BY <1>3, <1>5, <1>6, <2>1
    <2> QED BY <2>2
  <1>8. Cardinality({s \in G : s < a}) = 0 /\ Cardinality({s \in G : s < b}) = 1
    BY <1>7, FS_EmptySet, FS_Singleton
  <1>9. a \in S /\ b \in S
    BY <1>1, <1>5, <1>6, <1>8, SpoolAssumption DEF Oldest, G
  <1>10. S \subseteq G
    BY <1>1 DEF Oldest, G
  <1> QED BY <1>2, <1>6, <1>9, <1>10

\* An empty table takes no room.
LEMMA InitBounded == Init => Bounded
  <1> SUFFICES ASSUME Init PROVE Bounded
    OBVIOUS
  <1>1. Seqs = {} /\ pc = "idle"
    BY DEF Init, Seqs
  <1>2. UsedBytes = 0
    <2>1. Units([s \in Seqs |-> rows[s].size]) = {}
      BY <1>1 DEF Units
    <2> QED BY <2>1, FS_EmptySet DEF UsedBytes, Total
  <1> QED BY <1>1, <1>2, SpoolAssumption DEF Bounded

\* What only deletes rows, outside a merge, keeps the bound.
LEMMA RemovalBounded ==
  ASSUME TypeOK, Bounded, NEW S \in SUBSET Seqs, rows' = Without(S), pc' # "merge"
  PROVE  Bounded'
  <1>1. UsedBytes' \in Nat /\ UsedBytes' <= UsedBytes /\ UsedBytes \in Nat
    BY WithoutFrees, SizesType
  <1>2. \A s \in Seqs' : s \in Seqs /\ rows'[s] = rows[s]
    BY DEF Without, Seqs
  <1>3. UsedBytes' <= Capacity
    BY <1>1, SpoolAssumption DEF Bounded
  <1>4. \A s \in Seqs' : rows'[s].metric # NoMetric => CoarsenGrowth <= rows'[s].size
    BY <1>2 DEF Bounded
  <1> QED BY <1>3, <1>4 DEF Bounded

\* What touches neither the rows nor a merge keeps the bound.
LEMMA QuietBounded ==
  ASSUME Bounded, rows' = rows, pc' = "merge" => pc = "merge"
  PROVE  Bounded'
BY DEF Bounded, UsedBytes, Seqs

\* The first commit of a merge frees at least what the second may add.
LEMMA DeleteBounded ==
  ASSUME MergesShrink, TypeOK, TypeOK', Bounded, CoarsenDelete
  PROVE  Bounded'
  <1>1. PICK S \in SUBSET Seqs, head \in Seqs : IsMerged(S) /\ rows' = Without(S \ {head})
    BY DEF CoarsenDelete
  <1>2. PICK t \in S \ {head} : rows[t].metric # NoMetric
    BY <1>1, MergeTakesTwo
  <1>3. /\ UsedBytes' \in Nat /\ UsedBytes \in Nat
        /\ UsedBytes' <= UsedBytes /\ UsedBytes' + rows[t].size <= UsedBytes
    BY <1>1, <1>2, WithoutFrees, SizesType
  <1>4. CoarsenGrowth <= rows[t].size /\ rows[t].size \in Nat
    BY <1>2, RowType DEF Bounded, Row
  <1>5. \A s \in Seqs' : s \in Seqs /\ rows'[s] = rows[s]
    BY <1>1 DEF Without, Seqs
  <1>6. UsedBytes' + CoarsenGrowth <= Capacity /\ UsedBytes' <= Capacity
    <2>1. UsedBytes <= Capacity /\ Capacity \in Int /\ CoarsenGrowth \in Nat
      BY SpoolAssumption DEF Bounded
    <2> DEFINE before == UsedBytes  after == UsedBytes'  size == rows[t].size
    <2>2. /\ before \in Nat /\ after \in Nat /\ size \in Nat
          /\ after + size <= before /\ before <= Capacity /\ CoarsenGrowth <= size
      BY <1>3, <1>4, <2>1
    <2> HIDE DEF before, after, size
    <2>3. after + CoarsenGrowth <= Capacity /\ after <= Capacity
      BY <2>1, <2>2
    <2> QED BY <2>3 DEF after
  <1>7. \A s \in Seqs' : rows'[s].metric # NoMetric => CoarsenGrowth <= rows'[s].size
    BY <1>5 DEF Bounded
  <1> QED BY <1>6, <1>7 DEF Bounded

\* The second commit adds no more than that to the head.
LEMMA UpdateBounded ==
  ASSUME TypeOK, TypeOK', Bounded, CoarsenUpdate
  PROVE  Bounded'
  <1> DEFINE head == merge.head
  <1>1. PICK growth \in 0..CoarsenGrowth :
          rows' = [rows EXCEPT ![head] =
                     Coarser(@, @.covers \cup merge.covers, @.size + growth)]
    BY DEF CoarsenUpdate
  <1>2. head \in Seqs /\ pc = "merge" /\ pc' = "room"
    BY DEF CoarsenUpdate, TypeOK
  <1>3. /\ Seqs' = Seqs /\ \A s \in Seqs \ {head} : rows'[s] = rows[s]
        /\ rows'[head] = Coarser(rows[head], rows[head].covers \cup merge.covers,
                                 rows[head].size + growth)
    BY <1>1, <1>2 DEF TypeOK, Seqs
  <1>4. /\ rows'[head].size = rows[head].size + growth
        /\ rows'[head].metric = rows[head].metric
        /\ rows[head].size \in Nat
    BY <1>2, <1>3, RowType DEF Coarser, Row
  <1>5. UsedBytes \in Nat /\ UsedBytes' = UsedBytes + growth
    <2> HIDE DEF head
    <2>1. UsedBytes' = UsedBytes + rows'[head].size - rows[head].size
      BY <1>2, <1>3, RowAdds
    <2> QED BY <1>4, <2>1, SizesType, SpoolAssumption
  <1>6. \A s \in Seqs' : rows'[s].metric # NoMetric => CoarsenGrowth <= rows'[s].size
    <2> HIDE DEF head
    <2> SUFFICES ASSUME NEW s \in Seqs, rows'[s].metric # NoMetric
                 PROVE  CoarsenGrowth <= rows'[s].size
      BY <1>3
    <2>1. CASE s = head
      BY <1>1, <1>2, <1>4, <2>1, SpoolAssumption DEF Bounded
    <2>2. CASE s # head
      BY <1>3, <2>2 DEF Bounded
    <2> QED BY <2>1, <2>2
  <1>7. UsedBytes' <= Capacity
    BY <1>1, <1>2, <1>5, SpoolAssumption DEF Bounded
  <1> QED BY <1>2, <1>6, <1>7 DEF Bounded

\* A record is inserted when it fits.
LEMMA InsertBounded ==
  ASSUME MergesShrink, TypeOK, TypeOK', Bounded, Insert
  PROVE  Bounded'
  <1> DEFINE seq == NextSeq
  <1>1. /\ seq \notin Seqs /\ Seqs' = Seqs \cup {seq}
        /\ \A s \in Seqs : rows'[s] = rows[s]
        /\ rows'[seq].size = incoming.size /\ rows'[seq].metric = incoming.metric
    BY DEF Insert, NextSeq, TypeOK, Seqs
  <1>2. incoming \in Items /\ incoming.size \in Nat
    BY SpoolAssumption DEF Insert, TypeOK, ItemType
  <1>3. UsedBytes \in Nat /\ UsedBytes' = UsedBytes + incoming.size
    <2> HIDE DEF seq
    <2>1. UsedBytes' = UsedBytes + rows'[seq].size - 0
      <3>1. seq \in Seqs' /\ Seqs \ {seq} = Seqs' \ {seq}
        BY <1>1
      <3> QED BY <1>1, <3>1, RowAdds
    <2> QED BY <1>1, <1>2, <2>1, SizesType
  <1>4. UsedBytes + incoming.size <= Capacity /\ pc' = "idle"
    BY DEF Insert, Fits
  <1>5. \A s \in Seqs' : rows'[s].metric # NoMetric => CoarsenGrowth <= rows'[s].size
    BY <1>1, <1>2 DEF Bounded, MergesShrink
  <1> QED BY <1>3, <1>4, <1>5 DEF Bounded

\* No step leaves the table over its capacity, nor short of what a merge under way adds.
LEMMA StepBounded == MergesShrink /\ TypeOK /\ TypeOK' /\ Bounded /\ [Next]_vars => Bounded'
  <1> SUFFICES ASSUME MergesShrink, TypeOK, TypeOK', Bounded, [Next]_vars PROVE Bounded'
    OBVIOUS
  <1>1. ASSUME NEW item \in Items, BeginEnqueue(item) PROVE Bounded'
    BY <1>1, QuietBounded DEF BeginEnqueue, disk
  <1>2. CASE CoarsenDelete
    BY <1>2, DeleteBounded
  <1>3. CASE CoarsenUpdate
    BY <1>3, UpdateBounded
  <1>4. CASE DropVictim
    <2>1. PICK s \in Seqs : rows' = Without({s})
      BY <1>4 DEF DropVictim
    <2>2. pc' # "merge"
      BY <1>4 DEF DropVictim
    <2> QED BY <2>1, <2>2, RemovalBounded
  <1>5. CASE RefuseFull
    BY <1>5, QuietBounded DEF RefuseFull, disk
  <1>6. CASE Insert
    BY <1>6, InsertBounded
  <1>7. ASSUME NEW horizon \in Horizons, Prune(horizon) PROVE Bounded'
    <2>1. Expired(horizon) \in SUBSET Seqs
      BY DEF Expired
    <2> QED BY <1>7, <2>1, RemovalBounded DEF Prune
  <1>8. ASSUME NEW S \in SUBSET Drained, Ack(S) \/ Discard(S, "backfill_refused")
        PROVE  Bounded'
    <2>1. S \in SUBSET Seqs /\ rows' = Without(S) /\ pc' # "merge"
      BY <1>8 DEF Drained, Oldest, Ack, Discard, memory
    <2> QED BY <2>1, RemovalBounded
  <1>9. CASE Restart
    BY <1>9, QuietBounded DEF Restart, disk
  <1>10. CASE UNCHANGED vars
    BY <1>10, QuietBounded DEF vars, disk, memory
  <1> QED
    BY <1>1, <1>2, <1>3, <1>4, <1>5, <1>6, <1>7, <1>8, <1>9, <1>10 DEF Next, MakeRoom

\* The spool is bounded in bytes (spool.py:3) at every commit, for any capacity and any
\* items, as long as a merge adds no more to its head than the least record it deletes.
THEOREM SpoolBounded ==
  ASSUME MergesShrink
  PROVE  Spec => []CapacityBound
  <1>1. Bounded => CapacityBound
    BY DEF Bounded, CapacityBound
  <1>2. MergesShrink /\ TypeOK /\ TypeOK' /\ Bounded /\ [Next]_vars => Bounded'
    BY StepBounded
  <1>3. Spec => []TypeOK
    BY SpoolTypes
  <1>4. Spec => []Bounded
    BY <1>2, <1>3, InitBounded, PTL DEF Spec
  <1> QED BY <1>1, <1>4, PTL

----------------------------------------------------------------------------
(***************************************************************************)
(* The tracker: a detection that may continue some tracks continues the    *)
(* best match of them, which exists because matches are compared as        *)
(* fractions and the candidates are finitely many.                         *)
(***************************************************************************)

\* What compares any two of finitely many, and does so transitively, has a best of them.
LEMMA BestExists ==
  ASSUME NEW S, IsFiniteSet(S), S # {}, NEW R,
         \A i, j \in S : <<i, j>> \in R \/ <<j, i>> \in R,
         \A i, j, k \in S : <<i, j>> \in R /\ <<j, k>> \in R => <<i, k>> \in R
  PROVE  \E i \in S : \A j \in S : <<i, j>> \in R
  <1> DEFINE Bad == {T \in SUBSET S : T # {} /\ \A i \in T : \E j \in T : <<i, j>> \notin R}
  <1> DEFINE Smaller == StrictSubsetOrdering(S)
  <1> SUFFICES ASSUME Bad # {} PROVE FALSE
    <2>1. S \notin Bad => \E i \in S : \A j \in S : <<i, j>> \in R
      OBVIOUS
    <2> QED BY <2>1
  <1>1. IsWellFoundedOn(Smaller, SUBSET S)
    <2>1. FiniteSubsetsOf(S) = SUBSET S
      BY FS_FiniteSubsetsOfFinite
    <2>2. IsWellFoundedOn(StrictSubsetOrdering(S), FiniteSubsetsOf(S))
      BY FS_StrictSubsetOrderingWellFounded
    <2> QED BY <2>1, <2>2
  <1>2. Bad \subseteq SUBSET S
    OBVIOUS
  <1> HIDE DEF Smaller, Bad
  <1>3. PICK T \in Bad : \A U \in Bad : <<U, T>> \notin Smaller
    BY <1>1, <1>2, WFMin
  <1>4. T \in SUBSET S /\ T # {} /\ \A i \in T : \E j \in T : <<i, j>> \notin R
    BY DEF Bad
  <1>5. PICK x \in T : TRUE
    BY <1>4
  <1>6. T \ {x} \notin Bad
    <2>1. <<T \ {x}, T>> \in Smaller
      BY <1>4, <1>5 DEF Smaller, StrictSubsetOrdering
    <2> QED BY <1>3, <2>1
  <1>7. <<x, x>> \in R
    BY <1>4, <1>5
  <1>8. CASE T = {x}
    BY <1>4, <1>7, <1>8
  <1>9. CASE T # {x}
    <2>1. T \ {x} # {} /\ T \ {x} \in SUBSET S
      BY <1>4, <1>5, <1>9
    <2>2. PICK i \in T \ {x} : \A j \in T \ {x} : <<i, j>> \in R
      BY <1>6, <2>1 DEF Bad
    <2>3. CASE <<i, x>> \in R
      BY <1>4, <2>2, <2>3
    <2>4. CASE <<i, x>> \notin R
      <3>1. <<x, i>> \in R
        BY <1>4, <1>5, <2>2, <2>4
      <3>2. \A j \in T \ {x} : <<x, j>> \in R
        BY <1>4, <1>5, <2>2, <3>1
      <3> QED BY <1>4, <1>5, <1>7, <3>2
    <2> QED BY <2>3, <2>4
  <1> QED BY <1>8, <1>9

----------------------------------------------------------------------------
(* Boxes that match *)

Fraction == [num : Nat, den : Nat \ {0}]

\* What two boxes share of what they cover is a fraction.
LEMMA IouType ==
  ASSUME NEW a \in Box, NEW b \in Box
  PROVE  Iou(a, b) \in Fraction
  <1>1. a.x \in Int /\ b.x \in Int /\ a.w \in Nat \ {0} /\ b.w \in Nat \ {0}
    BY FootfallAssumption
  <1> DEFINE n == Shared(a, b)
  <1>2. n \in Nat /\ n <= a.w
    BY <1>1 DEF Shared, Nearer, Farther
  <1>3. a.w + b.w - n \in Nat \ {0}
    BY <1>1, <1>2
  <1> QED BY <1>2, <1>3 DEF Iou, Fraction

\* Fractions are compared by cross multiplication: any two, and transitively.
LEMMA AtLeastTotal ==
  ASSUME NEW p \in Fraction, NEW q \in Fraction
  PROVE  AtLeast(p, q) \/ AtLeast(q, p)
  <1>1. p.num * q.den \in Int /\ q.num * p.den \in Int
    BY DEF Fraction
  <1> QED BY <1>1 DEF AtLeast

\* Fractions compared by cross-multiplying are compared transitively.
LEMMA CrossMultiplied ==
  ASSUME NEW a \in Nat, NEW b \in Nat \ {0}, NEW c \in Nat, NEW d \in Nat \ {0},
         NEW e \in Nat, NEW f \in Nat \ {0}, a * d >= c * b, c * f >= e * d
  PROVE  a * f >= e * b
  <1>1. (a * d) * f >= (c * b) * f
    OBVIOUS
  <1>2. (c * f) * b >= (e * d) * b
    OBVIOUS
  <1>3. (c * b) * f = (c * f) * b
    OBVIOUS
  <1>4. (a * d) * f >= (e * d) * b
    BY <1>1, <1>2, <1>3
  <1>5. (a * d) * f = d * (a * f) /\ (e * d) * b = d * (e * b)
    OBVIOUS
  <1>6. a * f \in Int /\ e * b \in Int
    OBVIOUS
  <1>7. \A x, y \in Int : d * x >= d * y => x >= y
    OBVIOUS
  <1> QED BY <1>4, <1>5, <1>6, <1>7

\* Matches are compared transitively.
LEMMA AtLeastTransitive ==
  ASSUME NEW p \in Fraction, NEW q \in Fraction, NEW r \in Fraction,
         AtLeast(p, q), AtLeast(q, r)
  PROVE  AtLeast(p, r)
  BY CrossMultiplied DEF AtLeast, Fraction

\* Of the tracks a detection may continue there is a best.
LEMMA BestMatchExists ==
  ASSUME NEW S \in SUBSET Nat, IsFiniteSet(S), S # {}, NEW tracks, NEW d,
         d.box \in Box, \A i \in S : tracks[i].box \in Box
  PROVE  \E i \in S : IsBestMatch(i, S, tracks, d)
  <1> DEFINE Of(i) == Iou(tracks[i].box, d.box)
  <1> DEFINE Beats(i, j) == AtLeast(Of(i), Of(j)) /\ (AtLeast(Of(j), Of(i)) => j <= i)
  <1> DEFINE R == {ij \in S \X S : Beats(ij[1], ij[2])}
  <1>1. \A i, j \in S : <<i, j>> \in R <=> Beats(i, j)
    OBVIOUS
  <1>2. \A i \in S : Of(i) \in Fraction
    BY IouType
  <1> HIDE DEF Of, R
  <1>3. \A i, j \in S : Beats(i, j) \/ Beats(j, i)
    BY <1>2, AtLeastTotal
  <1>4. \A i, j, k \in S : Beats(i, j) /\ Beats(j, k) => Beats(i, k)
    <2> SUFFICES ASSUME NEW i \in S, NEW j \in S, NEW k \in S, Beats(i, j), Beats(j, k)
                 PROVE  Beats(i, k)
      OBVIOUS
    <2>1. Of(i) \in Fraction /\ Of(j) \in Fraction /\ Of(k) \in Fraction
      BY <1>2
    <2>2. AtLeast(Of(i), Of(k))
      BY <2>1, AtLeastTransitive
    <2>3. ASSUME AtLeast(Of(k), Of(i)) PROVE k <= i
      <3>1. AtLeast(Of(k), Of(j)) /\ AtLeast(Of(j), Of(i))
        BY <2>1, <2>3, AtLeastTransitive
      <3>2. k <= j /\ j <= i
        BY <3>1
      <3>3. i \in Nat /\ j \in Nat /\ k \in Nat
        OBVIOUS
      <3> QED BY <3>2, <3>3
    <2> QED BY <2>2, <2>3
  <1>5. PICK i \in S : \A j \in S : <<i, j>> \in R
    <2> HIDE DEF Beats
    <2> QED BY <1>1, <1>3, <1>4, BestExists
  <1> QED BY <1>1, <1>5 DEF IsBestMatch, Of

----------------------------------------------------------------------------
(***************************************************************************)
(* The frame's loop: n detections of stream s have been joined to the      *)
(* tracks, each to one of its own, that it continues or begins.            *)
(***************************************************************************)
Started(a) == started + 1 .. a.started

Joined(s, a, n) ==
  /\ a.started \in Nat /\ started <= a.started /\ a.taken \subseteq DOMAIN open
  /\ DOMAIN a.tracks = DOMAIN open \cup Started(a)
  /\ a.tracks \in [DOMAIN a.tracks -> Track]
  /\ Cardinality(a.taken) + Cardinality(Started(a)) = n
  /\ Samples(a.tracks) = Samples(open) + n
  /\ \A i \in DOMAIN open \ a.taken : a.tracks[i] = open[i]
  /\ \A i \in a.taken : /\ open[i].stream = s /\ Clock(s) - open[i].last <= MaxGap
                        /\ a.tracks[i] # open[i]
  /\ \A i \in a.taken \cup Started(a) : a.tracks[i].stream = s /\ a.tracks[i].last = Clock(s)

\* Tracks are finitely many, and the samples of finitely many tracks are a number.
LEMMA TracksFinite ==
  ASSUME FootfallTypeOK
  PROVE  IsFiniteSet(DOMAIN open) /\ DOMAIN open \subseteq Nat
  <1>1. started \in Nat /\ DOMAIN open \subseteq 1..started
    BY DEF FootfallTypeOK, Ids
  <1>2. IsFiniteSet(1..started)
    BY <1>1, FS_Interval
  <1> QED BY <1>1, <1>2, FS_Subset

\* The samples of finitely many tracks are a number.
LEMMA SamplesType ==
  ASSUME NEW S, IsFiniteSet(S), NEW tracks \in [S -> Track]
  PROVE  Samples(tracks) \in Nat
  <1> DEFINE n == [i \in S |-> tracks[i].samples]
  <1>1. n \in [S -> Nat]
    BY DEF Track
  <1>2. Total(n) \in Nat
    <2> HIDE DEF n
    <2> QED BY <1>1, TotalType
  <1> QED BY <1>2 DEF Samples

\* Giving a track one more sample, or beginning a track of one sample, adds one.
LEMMA WithAddsOne ==
  ASSUME NEW S, IsFiniteSet(S), NEW tracks \in [S -> Track], NEW i, NEW track \in Track,
         i \notin S => track.samples = 1, i \in S => track.samples = 1 + tracks[i].samples
  PROVE  /\ With(tracks, i, track) \in [S \cup {i} -> Track]
         /\ Samples(With(tracks, i, track)) = Samples(tracks) + 1
  <1> DEFINE after == With(tracks, i, track)
  <1> DEFINE T == S \cup {i}
             m == [j \in S |-> tracks[j].samples]
             n == [j \in T |-> after[j].samples]
             rest == [j \in S \ {i} |-> tracks[j].samples]
  <1>1. /\ after \in [T -> Track] /\ after[i] = track
        /\ \A j \in S \ {i} : after[j] = tracks[j]
    BY DEF With
  <1> HIDE DEF after
  <1>2. /\ m \in [S -> Nat] /\ n \in [T -> Nat]
        /\ rest \in [T \ {i} -> Nat] /\ rest \in [S \ {i} -> Nat]
    BY <1>1 DEF Track
  <1>3. Samples(tracks) = Total(m) /\ Samples(after) = Total(n)
    BY <1>1 DEF Samples
  <1>4. /\ n[i] = track.samples
        /\ \A j \in T \ {i} : rest[j] = n[j]
        /\ \A j \in S \ {i} : rest[j] = m[j]
    BY <1>1
  <1>5. IsFiniteSet(T) /\ i \in T
    BY FS_AddElement
  <1>6. i \in S => m[i] = tracks[i].samples
    OBVIOUS
  <1>7. i \notin S => rest = m
    OBVIOUS
  <1> HIDE DEF m, n, rest, T
  <1>8. Total(rest) \in Nat /\ Total(n) = n[i] + Total(rest)
    <2>1. PICK U, f, g : U = T /\ f = n /\ g = rest
      OBVIOUS
    <2>2. IsFiniteSet(U) /\ i \in U
      BY <1>5, <2>1
    <2>3. f \in [U -> Nat] /\ g \in [U \ {i} -> Nat]
      BY <1>2, <2>1
    <2>4. \A y \in U \ {i} : g[y] = f[y]
      BY <1>4, <2>1
    <2>5. Total(g) \in Nat /\ Total(f) = f[i] + Total(g)
      BY <2>2, <2>3, <2>4, TotalOfRest, SMT
    <2> QED BY <2>1, <2>5
  <1>9. ASSUME i \in S PROVE m[i] \in Nat /\ Total(m) = m[i] + Total(rest)
    <2>1. PICK f, g : f = m /\ g = rest
      OBVIOUS
    <2>3. f \in [S -> Nat] /\ g \in [S \ {i} -> Nat]
      BY <1>2, <2>1
    <2>4. \A y \in S \ {i} : g[y] = f[y]
      BY <1>4, <2>1
    <2>5. Total(g) \in Nat /\ Total(f) = f[i] + Total(g)
      BY <1>9, <2>3, <2>4, TotalOfRest, SMT
    <2> QED BY <1>9, <2>1, <2>3, <2>5
  <1>10. Total(n) = Total(m) + 1
    BY <1>4, <1>6, <1>7, <1>8, <1>9
  <1> QED BY <1>1, <1>3, <1>10 DEF after, T

\* Before the first detection.
LEMMA JoinedFirst ==
  ASSUME FootfallTypeOK, NEW s \in Stream
  PROVE  Joined(s, [tracks |-> open, taken |-> {}, started |-> started], 0)
  <1> DEFINE a == [tracks |-> open, taken |-> {}, started |-> started]
  <1>1. a.tracks = open /\ a.taken = {} /\ a.started = started /\ started \in Nat
    BY DEF FootfallTypeOK
  <1>2. Started(a) = {}
    BY <1>1 DEF Started
  <1>3. Samples(open) \in Nat /\ Cardinality({}) = 0
    BY TracksFinite, SamplesType, FS_EmptySet DEF FootfallTypeOK
  <1> HIDE DEF a
  <1>4. Joined(s, a, 0)
    BY <1>1, <1>2, <1>3 DEF Joined, FootfallTypeOK
  <1> QED BY <1>4 DEF a

\* The clock of a stream, and what a detection is.
LEMMA DetectionType ==
  ASSUME FootfallTypeOK, NEW s \in Stream, NEW box \in Box
  PROVE  LET d == Detection(s, box)
         IN /\ d.stream = s /\ d.ts = Clock(s) /\ d.box = box
            /\ Clock(s) \in Int
            /\ NewTrack(d) \in Track /\ NewTrack(d).samples = 1
            /\ NewTrack(d).stream = s /\ NewTrack(d).last = Clock(s)
  BY FootfallAssumption DEF FootfallTypeOK, Detection, Clock, NewTrack, Track

\* What a track becomes when it is continued: another, of one sample more, seen now.
LEMMA ContinuedType ==
  ASSUME FootfallTypeOK, NEW s \in Stream, NEW box \in Box, NEW track \in Track
  PROVE  LET next == Continued(track, Detection(s, box))
         IN /\ next \in Track /\ next.samples = 1 + track.samples /\ next # track
            /\ next.stream = track.stream /\ next.last = Clock(s)
  <1> DEFINE d == Detection(s, box)
  <1>1. d.ts = Clock(s) /\ d.box = box /\ Clock(s) \in Int
    BY DetectionType
  <1> HIDE DEF d
  <1>2. track.samples \in Nat \ {0}
    BY DEF Track
  <1>3. /\ Continued(track, d) \in Track /\ Continued(track, d).samples = 1 + track.samples
        /\ Continued(track, d).stream = track.stream /\ Continued(track, d).last = Clock(s)
    <2>1. track.samples + 1 \in Nat \ {0}
      BY <1>2
    <2>2. Continued(track, d) = [track EXCEPT !.last = Clock(s), !.box = box,
                                              !.samples = track.samples + 1]
      BY <1>1 DEF Continued
    <2> DEFINE next == Continued(track, d)  c == Clock(s)  n == track.samples + 1
    <2>3. /\ next = [track EXCEPT !.last = c, !.box = box, !.samples = n]
          /\ c \in Int /\ n \in Nat \ {0}
      BY <1>1, <2>1, <2>2
    <2> HIDE DEF next, c, n
    <2>4. next \in Track
      BY <2>3 DEF Track
    <2>5. next.samples = n /\ next.stream = track.stream /\ next.last = c
      BY <2>3 DEF Track
    <2>6. n = 1 + track.samples
      BY <1>2 DEF n
    <2> QED BY <2>4, <2>5, <2>6 DEF next, c
  <1>4. Continued(track, d) # track
    BY <1>2, <1>3
  <1> QED BY <1>3, <1>4 DEF d

\* The tracks that were begun are numbered on, and are as many as the counter moved.
LEMMA StartedType ==
  ASSUME FootfallTypeOK, NEW a, a.started \in Nat, started <= a.started
  PROVE  /\ IsFiniteSet(Started(a)) /\ Cardinality(Started(a)) = a.started - started
         /\ a.started + 1 \notin DOMAIN open /\ a.started + 1 \notin Started(a)
  <1>1. started \in Nat /\ \A i \in DOMAIN open : i \in 1..started
    BY DEF FootfallTypeOK, Ids
  <1> DEFINE first == started + 1  last == a.started
  <1>2. first \in Int /\ last \in Int
    BY <1>1
  <1>3. /\ IsFiniteSet(first..last)
        /\ Cardinality(first..last) = IF first > last THEN 0 ELSE last - first + 1
    <2> HIDE DEF first, last
    <2> QED BY <1>2, FS_Interval
  <1>4. Cardinality(first..last) = a.started - started
    BY <1>1, <1>3
  <1> QED BY <1>1, <1>3, <1>4 DEF Started

\* A detection that continues nothing begins a track.
LEMMA JoinsNew ==
  ASSUME FootfallTypeOK, NEW s \in Stream, NEW a, NEW n \in Nat, Joined(s, a, n), NEW box \in Box,
         NEW b, b = [tracks |-> With(a.tracks, a.started + 1, NewTrack(Detection(s, box))),
                     taken |-> a.taken, started |-> a.started + 1]
  PROVE  Joined(s, b, n + 1)
  <1> DEFINE id == a.started + 1  track == NewTrack(Detection(s, box))
  <1>1. /\ a.started \in Nat /\ started <= a.started /\ a.taken \subseteq DOMAIN open
        /\ DOMAIN a.tracks = DOMAIN open \cup Started(a) /\ a.tracks \in [DOMAIN a.tracks -> Track]
        /\ started \in Nat
    BY DEF Joined, FootfallTypeOK
  <1>2. /\ track \in Track /\ track.samples = 1
        /\ track.stream = s /\ track.last = Clock(s)
    BY DetectionType
  <1>3. b.tracks = With(a.tracks, id, track) /\ b.taken = a.taken /\ b.started = id
    BY <1>1
  <1> HIDE DEF track
  <1>4. IsFiniteSet(DOMAIN a.tracks) /\ id \notin DOMAIN a.tracks
    <2>1. IsFiniteSet(Started(a)) /\ IsFiniteSet(DOMAIN open)
      BY <1>1, StartedType, TracksFinite
    <2>2. IsFiniteSet(DOMAIN open \cup Started(a))
      BY <2>1, FS_Union
    <2>3. id \notin DOMAIN open /\ id \notin Started(a)
      BY <1>1, StartedType
    <2> QED BY <1>1, <2>2, <2>3
  <1>5. Started(b) = Started(a) \cup {id}
    BY <1>1, <1>3 DEF Started
  <1>6. /\ Cardinality(Started(a)) = a.started - started
        /\ Cardinality(Started(b)) = id - started
    <2>1. b.started \in Nat /\ started <= b.started
      BY <1>1, <1>3
    <2> QED BY <1>1, <1>3, <2>1, StartedType
  <1>7. /\ b.tracks \in [DOMAIN a.tracks \cup {id} -> Track]
        /\ Samples(b.tracks) = Samples(a.tracks) + 1
    <2>1. PICK S, tracks, j, new : S = DOMAIN a.tracks /\ tracks = a.tracks /\ j = id /\ new = track
      OBVIOUS
    <2>2. IsFiniteSet(S) /\ tracks \in [S -> Track] /\ new \in Track
      BY <1>1, <1>2, <1>4, <2>1
    <2>3. /\ j \notin S => new.samples = 1
          /\ j \in S => new.samples = 1 + tracks[j].samples
      BY <1>2, <1>4, <2>1
    <2>4. /\ With(tracks, j, new) \in [S \cup {j} -> Track]
          /\ Samples(With(tracks, j, new)) = Samples(tracks) + 1
      BY ONLY <2>2, <2>3, WithAddsOne
    <2> QED BY <1>3, <2>1, <2>4
  <1>8. b.tracks[id] = track /\ \A i \in DOMAIN a.tracks : b.tracks[i] = a.tracks[i]
    BY <1>3, <1>4 DEF With
  <1>9. Cardinality(a.taken) \in Nat /\ Samples(open) \in Nat
    <2>1. IsFiniteSet(a.taken)
      BY <1>1, TracksFinite, FS_Subset
    <2> QED BY <2>1, TracksFinite, SamplesType, FS_CardinalityType DEF FootfallTypeOK
  <1> HIDE DEF id
  <1>10. /\ Cardinality(b.taken) + Cardinality(Started(b)) = n + 1
         /\ Samples(b.tracks) = Samples(open) + (n + 1)
    <2>1. /\ Cardinality(a.taken) + Cardinality(Started(a)) = n
          /\ Samples(a.tracks) = Samples(open) + n
      BY DEF Joined
    <2> QED BY <1>1, <1>3, <1>6, <1>7, <1>9, <2>1 DEF id
  <1>11. DOMAIN b.tracks = DOMAIN open \cup Started(b) /\ b.tracks \in [DOMAIN b.tracks -> Track]
    BY <1>1, <1>5, <1>7
  <1>12. \A i \in DOMAIN open \ b.taken : b.tracks[i] = open[i]
    BY <1>1, <1>3, <1>8 DEF Joined
  <1>13. \A i \in b.taken : /\ open[i].stream = s /\ Clock(s) - open[i].last <= MaxGap
                            /\ b.tracks[i] # open[i]
    BY <1>1, <1>3, <1>8 DEF Joined
  <1>14. \A i \in b.taken \cup Started(b) : b.tracks[i].stream = s /\ b.tracks[i].last = Clock(s)
    <2>1. \A i \in a.taken \cup Started(a) : b.tracks[i] = a.tracks[i]
      BY <1>1, <1>8
    <2> QED BY <1>2, <1>3, <1>5, <1>8, <2>1 DEF Joined
  <1>15. b.started \in Nat /\ started <= b.started /\ b.taken \subseteq DOMAIN open
    BY <1>1, <1>3 DEF id
  <1> QED BY <1>10, <1>11, <1>12, <1>13, <1>14, <1>15 DEF Joined

\* A detection that continues a track takes it from the others.
LEMMA JoinsOpen ==
  ASSUME FootfallTypeOK, NEW s \in Stream, NEW a, NEW n \in Nat, Joined(s, a, n), NEW box \in Box,
         NEW i \in Candidates(a), Continues(a.tracks[i], Detection(s, box)),
         NEW b, b = [tracks |-> With(a.tracks, i, Continued(a.tracks[i], Detection(s, box))),
                     taken |-> a.taken \cup {i}, started |-> a.started]
  PROVE  Joined(s, b, n + 1)
  <1> DEFINE track == Continued(a.tracks[i], Detection(s, box))
  <1>1. /\ a.started \in Nat /\ started <= a.started /\ a.taken \subseteq DOMAIN open
        /\ DOMAIN a.tracks = DOMAIN open \cup Started(a) /\ a.tracks \in [DOMAIN a.tracks -> Track]
        /\ i \in DOMAIN open /\ i \notin a.taken /\ a.tracks[i] = open[i]
    BY DEF Joined, Candidates
  <1>2. a.tracks[i] \in Track
    BY <1>1
  <1>3. /\ track \in Track /\ track.samples = 1 + a.tracks[i].samples /\ track # a.tracks[i]
        /\ track.stream = a.tracks[i].stream /\ track.last = Clock(s)
    BY <1>2, ContinuedType
  <1>4. a.tracks[i].stream = s /\ Clock(s) - a.tracks[i].last <= MaxGap
    BY DetectionType DEF Continues
  <1>5. b.tracks = With(a.tracks, i, track) /\ b.taken = a.taken \cup {i} /\ b.started = a.started
    OBVIOUS
  <1> HIDE DEF track
  <1>6. IsFiniteSet(DOMAIN a.tracks) /\ Started(b) = Started(a)
    <2>1. IsFiniteSet(Started(a)) /\ IsFiniteSet(DOMAIN open)
      BY <1>1, StartedType, TracksFinite
    <2>2. IsFiniteSet(DOMAIN open \cup Started(a))
      BY <2>1, FS_Union
    <2> QED BY <1>1, <1>5, <2>2 DEF Started
  <1>7. /\ b.tracks \in [DOMAIN a.tracks -> Track]
        /\ Samples(b.tracks) = Samples(a.tracks) + 1
    <2> DEFINE S == DOMAIN a.tracks  tracks == a.tracks
    <2>1. /\ IsFiniteSet(S) /\ tracks \in [S -> Track] /\ track \in Track /\ S \cup {i} = S
          /\ (i \notin S => track.samples = 1) /\ (i \in S => track.samples = 1 + tracks[i].samples)
      BY <1>1, <1>3, <1>6
    <2> HIDE DEF S, tracks
    <2>2. /\ With(tracks, i, track) \in [S \cup {i} -> Track]
          /\ Samples(With(tracks, i, track)) = Samples(tracks) + 1
      BY ONLY <2>1, WithAddsOne
    <2> QED BY <1>5, <2>1, <2>2 DEF S, tracks
  <1>8. b.tracks[i] = track /\ \A j \in DOMAIN a.tracks \ {i} : b.tracks[j] = a.tracks[j]
    BY <1>5 DEF With
  <1>9. /\ Cardinality(a.taken) \in Nat /\ Cardinality(b.taken) = Cardinality(a.taken) + 1
        /\ Samples(open) \in Nat /\ Cardinality(Started(a)) \in Nat
    <2>1. IsFiniteSet(a.taken)
      BY <1>1, TracksFinite, FS_Subset
    <2>2. Cardinality(b.taken) = Cardinality(a.taken) + 1
      BY <1>1, <1>5, <2>1, FS_AddElement
    <2>3. Samples(open) \in Nat
      BY TracksFinite, SamplesType DEF FootfallTypeOK
    <2>4. Cardinality(a.taken) \in Nat /\ Cardinality(Started(a)) \in Nat
      BY <1>1, <2>1, StartedType, FS_CardinalityType
    <2> QED BY <2>2, <2>3, <2>4
  <1>10. /\ Cardinality(b.taken) + Cardinality(Started(b)) = n + 1
         /\ Samples(b.tracks) = Samples(open) + (n + 1)
    <2>1. /\ Cardinality(a.taken) + Cardinality(Started(a)) = n
          /\ Samples(a.tracks) = Samples(open) + n
      BY DEF Joined
    <2> QED BY <1>6, <1>7, <1>9, <2>1
  <1>11. DOMAIN b.tracks = DOMAIN open \cup Started(b) /\ b.tracks \in [DOMAIN b.tracks -> Track]
    BY <1>1, <1>6, <1>7
  <1>12. \A j \in DOMAIN open \ b.taken : b.tracks[j] = open[j]
    BY <1>1, <1>5, <1>8 DEF Joined
  <1>13. \A j \in b.taken : /\ open[j].stream = s /\ Clock(s) - open[j].last <= MaxGap
                            /\ b.tracks[j] # open[j]
    <2>1. \A j \in a.taken : /\ open[j].stream = s /\ Clock(s) - open[j].last <= MaxGap
                             /\ a.tracks[j] # open[j] /\ b.tracks[j] = a.tracks[j]
      BY <1>1, <1>8 DEF Joined
    <2>2. open[i].stream = s /\ Clock(s) - open[i].last <= MaxGap /\ b.tracks[i] # open[i]
      BY <1>1, <1>3, <1>4, <1>8
    <2> QED BY <1>5, <2>1, <2>2
  <1>14. \A j \in b.taken \cup Started(b) : b.tracks[j].stream = s /\ b.tracks[j].last = Clock(s)
    <2>1. \A j \in a.taken \cup Started(a) :
            j # i => b.tracks[j].stream = s /\ b.tracks[j].last = Clock(s)
      BY <1>1, <1>8 DEF Joined
    <2> QED BY <1>3, <1>4, <1>5, <1>6, <1>8, <2>1
  <1>15. b.started \in Nat /\ started <= b.started /\ b.taken \subseteq DOMAIN open
    BY <1>1, <1>5
  <1> QED BY <1>10, <1>11, <1>12, <1>13, <1>14, <1>15 DEF Joined

\* One round of the loop joins one detection.
LEMMA JoinsOne ==
  ASSUME FootfallTypeOK, NEW s \in Stream, NEW a, NEW n \in Nat, Joined(s, a, n), NEW box \in Box
  PROVE  Joined(s, Associate(a, Detection(s, box)), n + 1)
  <1> DEFINE d == Detection(s, box)
  <1> DEFINE S == {i \in Candidates(a) : Continues(a.tracks[i], d)}
  <1> DEFINE best == CHOOSE i \in S : IsBestMatch(i, S, a.tracks, d)
  <1>1. CASE S = {}
    <2> DEFINE b == [tracks |-> With(a.tracks, a.started + 1, NewTrack(d)),
                     taken |-> a.taken, started |-> a.started + 1]
    <2>1. Associate(a, d) = b
      BY <1>1 DEF Associate
    <2>2. Joined(s, b, n + 1)
      BY JoinsNew
    <2> QED BY <2>1, <2>2
  <1>2. CASE S # {}
    <2> DEFINE b == [tracks |-> With(a.tracks, best, Continued(a.tracks[best], d)),
                     taken |-> a.taken \cup {best}, started |-> a.started]
    <2>1. Associate(a, d) = b
      BY <1>2 DEF Associate
    <2>2. S \in SUBSET Nat /\ IsFiniteSet(S)
      BY TracksFinite, FS_Subset DEF Candidates
    <2>3. d.box \in Box /\ \A i \in S : a.tracks[i].box \in Box
      <3>1. d.box = box
        BY DetectionType
      <3>2. \A i \in S : a.tracks[i] \in Track
        BY DEF Candidates, Joined
      <3> QED BY <3>1, <3>2 DEF Track
    <2>4. best \in S
      <3> HIDE DEF S, d
      <3>1. \E i \in S : IsBestMatch(i, S, a.tracks, d)
        BY <1>2, <2>2, <2>3, BestMatchExists
      <3> QED BY <3>1
    <2>5. best \in Candidates(a) /\ Continues(a.tracks[best], d)
      <3> HIDE DEF best
      <3> QED BY <2>4
    <2>6. Joined(s, b, n + 1)
      <3> HIDE DEF best
      <3> QED BY <2>5, JoinsOpen
    <2> QED BY <2>1, <2>6
  <1> QED BY <1>1, <1>2

\* The rounds of the loop over a frame, as the function in Associated lists them.
Rounds(s, frame, k, f) ==
  f = [n \in 0..k |-> IF n = 0 THEN [tracks |-> open, taken |-> {}, started |-> started]
                      ELSE Associate(f[n - 1], Detection(s, frame[n]))]

\* There are such rounds, for any number of detections.
LEMMA RoundsExist ==
  ASSUME NEW s, NEW frame, NEW k \in Nat
  PROVE  \E f : Rounds(s, frame, k, f)
  <1> DEFINE Bad == {n \in Nat : ~ \E f : Rounds(s, frame, n, f)}
  <1> SUFFICES ASSUME Bad # {} PROVE FALSE
    OBVIOUS
  <1>1. PICK n \in Bad : \A m \in Bad : n <= m
    <2>1. Bad \in SUBSET Nat
      OBVIOUS
    <2> HIDE DEF Bad
    <2> QED BY <2>1, LeastNumber
  <1>2. n \in Nat /\ ~ \E f : Rounds(s, frame, n, f)
    OBVIOUS
  <1> DEFINE first == [tracks |-> open, taken |-> {}, started |-> started]
             Round(a, m) == Associate(a, Detection(s, frame[m]))
  <1>3. CASE n = 0
    <2> DEFINE f == [m \in 0..0 |-> first]
    <2>1. f = [m \in 0..0 |-> IF m = 0 THEN first ELSE Round(f[m - 1], m)]
      <3> HIDE DEF first, Round
      <3> QED OBVIOUS
    <2>2. Rounds(s, frame, 0, f)
      BY <2>1 DEF Rounds
    <2> QED BY <1>2, <1>3, <2>2
  <1>4. CASE n > 0
    <2>1. n - 1 \in Nat /\ n - 1 \notin Bad
      BY <1>1, <1>2, <1>4
    <2>2. PICK g : Rounds(s, frame, n - 1, g)
      BY <2>1
    <2>3. g = [m \in 0..n - 1 |-> IF m = 0 THEN first ELSE Round(g[m - 1], m)]
      BY <2>2 DEF Rounds
    <2> DEFINE f == [m \in 0..n |-> IF m = n THEN Round(g[n - 1], n) ELSE g[m]]
    <2>4. f = [m \in 0..n |-> IF m = 0 THEN first ELSE Round(f[m - 1], m)]
      <3> HIDE DEF first, Round
      <3> SUFFICES ASSUME NEW m \in 0..n
                   PROVE  f[m] = IF m = 0 THEN first ELSE Round(f[m - 1], m)
        OBVIOUS
      <3>1. CASE m = n
        BY <1>2, <1>4, <3>1
      <3>2. CASE m # n
        <4>1. m \in 0..n - 1 /\ f[m] = g[m]
          BY <1>2, <3>2
        <4>2. g[m] = IF m = 0 THEN first ELSE Round(g[m - 1], m)
          BY <2>3, <4>1
        <4>3. m # 0 => f[m - 1] = g[m - 1]
          BY <1>2, <4>1
        <4> QED BY <4>1, <4>2, <4>3
      <3> QED BY <3>1, <3>2
    <2>5. Rounds(s, frame, n, f)
      BY <2>4 DEF Rounds
    <2> QED BY <1>2, <2>5
  <1> QED BY <1>2, <1>3, <1>4

\* After a whole frame, each of its detections has been joined to a track of its own.
LEMMA AssociatedJoined ==
  ASSUME FootfallTypeOK, NEW s \in Stream, NEW frame \in Frame
  PROVE  Joined(s, Associated(s, frame), Len(frame))
  <1>1. Len(frame) \in Nat /\ \A n \in 1..Len(frame) : frame[n] \in Box
    BY FootfallAssumption
  <1> DEFINE f == CHOOSE g : Rounds(s, frame, Len(frame), g)
  <1>2. Rounds(s, frame, Len(frame), f)
    BY <1>1, RoundsExist
  <1>3. Associated(s, frame) = f[Len(frame)]
    BY DEF Associated, Rounds
  <1> HIDE DEF f
  <1> DEFINE Bad == {n \in 0..Len(frame) : ~ Joined(s, f[n], n)}
  <1>4. Bad = {}
    <2> SUFFICES ASSUME Bad # {} PROVE FALSE
      OBVIOUS
    <2>1. PICK n \in Bad : \A m \in Bad : n <= m
      <3>1. Bad \in SUBSET Nat
        OBVIOUS
      <3> HIDE DEF Bad
      <3> QED BY <3>1, LeastNumber
    <2>2. n \in 0..Len(frame) /\ ~ Joined(s, f[n], n)
      OBVIOUS
    <2>3. CASE n = 0
      <3>1. f[0] = [tracks |-> open, taken |-> {}, started |-> started]
        BY <1>1, <1>2 DEF Rounds
      <3> QED BY <2>2, <2>3, <3>1, JoinedFirst
    <2>4. CASE n # 0
      <3>1. n - 1 \in 0..Len(frame) /\ n - 1 \notin Bad /\ n - 1 \in Nat /\ frame[n] \in Box
        BY <1>1, <2>1, <2>2, <2>4
      <3>2. Joined(s, f[n - 1], n - 1)
        BY <3>1
      <3>3. f[n] = Associate(f[n - 1], Detection(s, frame[n]))
        BY <1>2, <2>2, <2>4 DEF Rounds
      <3>4. Joined(s, Associate(f[n - 1], Detection(s, frame[n])), n - 1 + 1)
        <4> DEFINE a == f[n - 1]  box == frame[n]  k == n - 1
        <4>1. Joined(s, a, k) /\ k \in Nat /\ box \in Box
          BY <3>1, <3>2
        <4> HIDE DEF a, box, k
        <4>2. Joined(s, Associate(a, Detection(s, box)), k + 1)
          BY <4>1, JoinsOne
        <4> QED BY <4>2 DEF a, box, k
      <3>5. n - 1 + 1 = n
        BY <2>2, <1>1
      <3> QED BY <2>2, <3>3, <3>4, <3>5
    <2> QED BY <2>3, <2>4
  <1> QED BY <1>1, <1>3, <1>4

----------------------------------------------------------------------------
(***************************************************************************)
(* The window: closing tracks moves their samples and visits from the      *)
(* tracker to the window, and the window that closes has a median.         *)
(***************************************************************************)

\* What a frame leaves the tracker with, numbered apart from the visits of the window.
LEMMA AssociatedTracks ==
  ASSUME FootfallTypeOK, NEW s \in Stream, NEW frame \in Frame, NEW a, a = Associated(s, frame)
  PROVE  /\ a.started \in Nat /\ started <= a.started
         /\ DOMAIN a.tracks \subseteq 1..a.started \ DOMAIN dwells
         /\ a.tracks \in [DOMAIN a.tracks -> Track]
         /\ Cardinality(DOMAIN a.tracks) = Cardinality(DOMAIN open) + (a.started - started)
         /\ Samples(a.tracks) = Samples(open) + Len(frame)
  <1>1. Joined(s, a, Len(frame))
    BY AssociatedJoined
  <1>2. /\ a.started \in Nat /\ started <= a.started /\ started \in Nat
        /\ DOMAIN a.tracks = DOMAIN open \cup Started(a) /\ a.tracks \in [DOMAIN a.tracks -> Track]
        /\ Samples(a.tracks) = Samples(open) + Len(frame)
    BY <1>1 DEF Joined, FootfallTypeOK
  <1>3. DOMAIN open \subseteq 1..started /\ DOMAIN dwells \subseteq 1..started \ DOMAIN open
    BY DEF FootfallTypeOK, Ids
  <1>4. DOMAIN a.tracks \subseteq 1..a.started \ DOMAIN dwells
    BY <1>2, <1>3 DEF Started
  <1>5. Cardinality(DOMAIN a.tracks) = Cardinality(DOMAIN open) + (a.started - started)
    <2>1. /\ IsFiniteSet(Started(a)) /\ Cardinality(Started(a)) = a.started - started
          /\ IsFiniteSet(DOMAIN open)
      BY <1>2, StartedType, TracksFinite
    <2>2. DOMAIN open \cap Started(a) = {}
      BY <1>2, <1>3 DEF Started
    <2>3. Cardinality(DOMAIN open \cap Started(a)) = 0
      BY <2>2, FS_EmptySet
    <2>4. Cardinality(DOMAIN open \cup Started(a))
            = Cardinality(DOMAIN open) + Cardinality(Started(a))
                - Cardinality(DOMAIN open \cap Started(a))
      BY <2>1, FS_Union
    <2>5. Cardinality(DOMAIN open) \in Nat
      BY <2>1, FS_CardinalityType
    <2> QED BY <1>2, <2>1, <2>3, <2>4, <2>5
  <1> QED BY <1>2, <1>4, <1>5

\* Closing tracks: what leaves the tracker is counted, and is in the window when it is a visit.
LEMMA Closes ==
  ASSUME FootfallTypeOK, NEW last \in Nat, started <= last, NEW tracks, NEW ending,
         DOMAIN tracks \subseteq 1..last \ DOMAIN dwells, tracks \in [DOMAIN tracks -> Track],
         ending \subseteq DOMAIN tracks, Close(tracks, ending)
  PROVE  /\ DOMAIN open' = DOMAIN tracks \ ending /\ open' \in [DOMAIN open' -> Track]
         /\ \A i \in DOMAIN open' : open'[i] = tracks[i]
         /\ DOMAIN dwells' \subseteq 1..last \ DOMAIN open' /\ dwells' \in [DOMAIN dwells' -> Int]
         /\ closed' \in Nat /\ sampled' \in Nat /\ visits' \in Nat
         /\ closed' + Cardinality(DOMAIN open') = closed + Cardinality(DOMAIN tracks)
         /\ sampled' + Samples(open') = sampled + Samples(tracks)
         /\ visits' + Cardinality(DOMAIN dwells) = visits + Cardinality(DOMAIN dwells')
  <1> DEFINE D == DOMAIN tracks  counted == {i \in ending : Counts(tracks[i])}
  <1>1. /\ DOMAIN open \subseteq 1..started /\ DOMAIN dwells \subseteq 1..started \ DOMAIN open
        /\ closed \in Nat /\ sampled \in Nat /\ visits \in Nat /\ started \in Nat
        /\ dwells \in [DOMAIN dwells -> Int]
    BY DEF FootfallTypeOK, Ids
  <1>2. /\ IsFiniteSet(D) /\ IsFiniteSet(ending) /\ IsFiniteSet(D \ ending)
        /\ IsFiniteSet(counted) /\ IsFiniteSet(DOMAIN dwells)
    <2>1. IsFiniteSet(1..last) /\ IsFiniteSet(1..started)
      <3>1. 1 \in Int /\ last \in Int /\ started \in Int
        BY <1>1
      <3> QED BY <3>1, FS_Interval
    <2>2. IsFiniteSet(D) /\ IsFiniteSet(DOMAIN dwells)
      BY <1>1, <2>1, FS_Subset
    <2>3. ending \subseteq D /\ D \ ending \subseteq D /\ counted \subseteq D
      OBVIOUS
    <2> HIDE DEF D, counted
    <2>4. IsFiniteSet(ending) /\ IsFiniteSet(D \ ending)
      BY <2>2, <2>3, FS_Subset
    <2>5. IsFiniteSet(counted)
      BY <2>2, <2>3, FS_Subset
    <2> QED BY <2>2, <2>4, <2>5
  <1>3. /\ Cardinality(D) \in Nat /\ Cardinality(ending) \in Nat /\ Cardinality(D \ ending) \in Nat
        /\ Cardinality(counted) \in Nat /\ Cardinality(DOMAIN dwells) \in Nat
    <2> HIDE DEF D, counted
    <2> QED BY <1>2, FS_CardinalityType
  <1>4. /\ DOMAIN open' = D \ ending /\ \A i \in D \ ending : open'[i] = tracks[i]
        /\ open' = Part(tracks, D \ ending) /\ open' \in [D \ ending -> Track]
    BY DEF Close, Part
  <1>5. /\ DOMAIN dwells' = DOMAIN dwells \cup counted
        /\ dwells' \in [DOMAIN dwells \cup counted -> Int]
    <2>1. \A i \in counted : Dwell(tracks[i]) \in Int
      BY DEF Dwell, Track
    <2> QED BY <1>1, <2>1 DEF Close
  <1>6. /\ closed' = closed + Cardinality(ending) /\ visits' = visits + Cardinality(counted)
        /\ sampled' = sampled + Samples(Part(tracks, ending))
    BY DEF Close
  <1>7. Cardinality(D \ ending) = Cardinality(D) - Cardinality(ending)
    <2>1. D \cap ending = ending
      OBVIOUS
    <2>2. Cardinality(D \ ending) = Cardinality(D) - Cardinality(D \cap ending)
      BY <1>2, FS_Difference
    <2> QED BY <2>1, <2>2
  <1>8. Cardinality(DOMAIN dwells \cup counted) = Cardinality(DOMAIN dwells) + Cardinality(counted)
    <2>1. DOMAIN dwells \cap counted = {}
      OBVIOUS
    <2> HIDE DEF counted
    <2>2. Cardinality(DOMAIN dwells \cap counted) = 0
      BY <2>1, FS_EmptySet
    <2>3. Cardinality(DOMAIN dwells \cup counted)
            = Cardinality(DOMAIN dwells) + Cardinality(counted)
                - Cardinality(DOMAIN dwells \cap counted)
      BY <1>2, FS_Union
    <2> QED BY <1>3, <2>2, <2>3
  <1>9. /\ Samples(Part(tracks, ending)) \in Nat /\ Samples(open') \in Nat
        /\ Samples(tracks) = Samples(open') + Samples(Part(tracks, ending))
    <2> DEFINE n == [i \in D |-> tracks[i].samples]
               rest == Part(n, D \ ending)  out == Part(n, ending)
    <2>1. n \in [D -> Nat] /\ (D \ ending) \cup ending = D /\ (D \ ending) \cap ending = {}
      BY DEF Track
    <2>2. /\ rest = [i \in D \ ending |-> tracks[i].samples]
          /\ out = [i \in ending |-> tracks[i].samples]
      BY DEF Part
    <2>3. Samples(tracks) = Total(n)
      BY DEF Samples
    <2>4. Samples(Part(tracks, ending)) = Total(out)
      <3>1. [i \in DOMAIN Part(tracks, ending) |-> Part(tracks, ending)[i].samples] = out
        BY <2>2 DEF Part
      <3> QED BY <3>1 DEF Samples
    <2>5. Samples(open') = Total(rest)
      <3>1. [i \in DOMAIN open' |-> open'[i].samples] = rest
        BY <1>4, <2>2
      <3> QED BY <3>1 DEF Samples
    <2>6. rest \in [D \ ending -> Nat] /\ out \in [ending -> Nat]
      BY <2>1 DEF Part
    <2> HIDE DEF n, D
    <2>7. Total(n) = Total(rest) + Total(out)
      <3>1. n \in [(D \ ending) \cup ending -> Nat]
        BY <2>1
      <3> QED BY <1>2, <2>1, <3>1, TotalSplit
    <2>8. Total(rest) \in Nat /\ Total(out) \in Nat
      <3> HIDE DEF rest, out
      <3> QED BY <1>2, <2>6, TotalType
    <2> QED BY <2>3, <2>4, <2>5, <2>7, <2>8
  <1>10. DOMAIN dwells' \subseteq 1..last \ DOMAIN open'
    BY <1>1, <1>4, <1>5
  <1> HIDE DEF counted
  <1>11. closed' \in Nat /\ sampled' \in Nat /\ visits' \in Nat
    <2>1. PICK c, n, v : c = closed' /\ n = sampled' /\ v = visits'
      OBVIOUS
    <2>2. c \in Nat /\ n \in Nat /\ v \in Nat
      BY <1>1, <1>3, <1>6, <1>9, <2>1
    <2> QED BY <2>1, <2>2
  <1>12. /\ closed' + Cardinality(DOMAIN open') = closed + Cardinality(DOMAIN tracks)
         /\ visits' + Cardinality(DOMAIN dwells) = visits + Cardinality(DOMAIN dwells')
    <2>1. PICK c, v : c = closed' /\ v = visits'
      OBVIOUS
    <2> DEFINE all == Cardinality(D)  out == Cardinality(ending)  kept == Cardinality(D \ ending)
               more == Cardinality(counted)  had == Cardinality(DOMAIN dwells)
               have == Cardinality(DOMAIN dwells')
    <2>2. /\ kept = all - out /\ have = had + more /\ c = closed + out /\ v = visits + more
          /\ all \in Nat /\ out \in Nat /\ kept \in Nat /\ more \in Nat /\ had \in Nat
          /\ closed \in Nat /\ visits \in Nat
      BY <1>1, <1>3, <1>5, <1>6, <1>7, <1>8, <2>1
    <2> HIDE DEF all, out, kept, more, had, have
    <2>3. c + kept = closed + all /\ v + had = visits + have
      BY <2>2
    <2> QED BY <1>4, <2>1, <2>3 DEF all, kept, had, have
  <1>13. sampled' + Samples(open') = sampled + Samples(tracks)
    <2>1. PICK n, out, kept, all : /\ n = sampled' /\ out = Samples(Part(tracks, ending))
                                  /\ kept = Samples(open') /\ all = Samples(tracks)
      OBVIOUS
    <2>2. /\ n = sampled + out /\ all = kept + out
          /\ sampled \in Nat /\ out \in Nat /\ kept \in Nat
      BY <1>1, <1>6, <1>9, <2>1
    <2>3. n + kept = sampled + all
      BY <2>2
    <2> QED BY <2>1, <2>3
  <1> QED BY <1>4, <1>5, <1>10, <1>11, <1>12, <1>13

\* Finitely many integers have a least and a greatest.
LEMMA Extremes ==
  ASSUME NEW S, IsFiniteSet(S), S # {}, NEW f \in [S -> Int]
  PROVE  /\ \E i \in S : \A j \in S : f[i] <= f[j]
         /\ \E i \in S : \A j \in S : f[i] >= f[j]
  <1> DEFINE Up == {p \in S \X S : f[p[1]] <= f[p[2]]}
             Down == {p \in S \X S : f[p[1]] >= f[p[2]]}
  <1>1. /\ \A i, j \in S : <<i, j>> \in Up <=> f[i] <= f[j]
        /\ \A i, j \in S : <<i, j>> \in Down <=> f[i] >= f[j]
        /\ \A i \in S : f[i] \in Int
    OBVIOUS
  <1> HIDE DEF Up, Down
  <1>2. /\ \A i, j \in S : <<i, j>> \in Up \/ <<j, i>> \in Up
        /\ \A i, j, k \in S : <<i, j>> \in Up /\ <<j, k>> \in Up => <<i, k>> \in Up
    BY <1>1
  <1>3. /\ \A i, j \in S : <<i, j>> \in Down \/ <<j, i>> \in Down
        /\ \A i, j, k \in S : <<i, j>> \in Down /\ <<j, k>> \in Down => <<i, k>> \in Down
    BY <1>1
  <1>4. \E i \in S : \A j \in S : <<i, j>> \in Up
    BY <1>2, BestExists
  <1>5. \E i \in S : \A j \in S : <<i, j>> \in Down
    BY <1>3, BestExists
  <1> QED BY <1>1, <1>4, <1>5

\* The places where f is less than at i, and where it is no more than at i.
Below(f, i) == {j \in DOMAIN f : f[j] < f[i]}
UpTo(f, i) == {j \in DOMAIN f : f[j] <= f[i]}

\* Of finitely many integers there is an n-th.
LEMMA RankExists ==
  ASSUME NEW S, IsFiniteSet(S), NEW f \in [S -> Int], NEW n \in 1..Cardinality(S)
  PROVE  \E i \in S : Cardinality(Below(f, i)) < n /\ n <= Cardinality(UpTo(f, i))
  <1> DEFINE Enough == {i \in S : n <= Cardinality(UpTo(f, i))}
  <1>1. /\ \A i \in S : f[i] \in Int
        /\ \A i \in S : Below(f, i) \subseteq S /\ UpTo(f, i) \subseteq S
        /\ \A i, j \in S : /\ j \in Below(f, i) <=> f[j] < f[i]
                           /\ j \in UpTo(f, i) <=> f[j] <= f[i]
    BY DEF Below, UpTo
  <1>2. \A i \in S : i \in Enough <=> n <= Cardinality(UpTo(f, i))
    OBVIOUS
  <1>3. Enough \subseteq S /\ Cardinality(S) \in Nat /\ n \in Nat /\ n >= 1 /\ n <= Cardinality(S)
    BY FS_CardinalityType
  <1> HIDE DEF Enough
  <1>4. Enough # {}
    <2>1. S # {}
      BY <1>3, FS_EmptySet
    <2>2. PICK i \in S : \A j \in S : f[i] >= f[j]
      BY <2>1, Extremes
    <2>3. UpTo(f, i) = S
      BY <1>1, <2>2
    <2> QED BY <1>2, <1>3, <2>3
  <1>5. PICK i \in Enough : \A j \in Enough : f[i] <= f[j]
    <2>1. IsFiniteSet(Enough)
      BY <1>3, FS_Subset
    <2> DEFINE g == [j \in Enough |-> f[j]]
    <2>2. g \in [Enough -> Int]
      BY <1>1, <1>3
    <2>3. \E j \in Enough : \A k \in Enough : g[j] <= g[k]
      <3> HIDE DEF g
      <3> QED BY <1>4, <2>1, <2>2, Extremes
    <2> QED BY <2>3
  <1>6. i \in S /\ n <= Cardinality(UpTo(f, i))
    BY <1>2, <1>3
  <1>7. Cardinality(Below(f, i)) \in Nat /\ IsFiniteSet(Below(f, i))
    BY <1>1, <1>6, FS_Subset, FS_CardinalityType
  <1>8. Cardinality(Below(f, i)) < n
    <2> SUFFICES ASSUME n <= Cardinality(Below(f, i)) PROVE FALSE
      BY <1>3, <1>7
    <2>1. Below(f, i) # {}
      BY <1>3, FS_EmptySet
    <2>2. PICK k \in Below(f, i) : \A j \in Below(f, i) : f[k] >= f[j]
      <3> DEFINE L == Below(f, i)  g == [j \in L |-> f[j]]
      <3>1. g \in [L -> Int] /\ L # {} /\ IsFiniteSet(L)
        BY <1>1, <1>6, <1>7, <2>1
      <3>2. \A j \in L : g[j] = f[j]
        OBVIOUS
      <3> HIDE DEF g, L
      <3>3. \E j \in L : \A h \in L : g[j] >= g[h]
        BY ONLY <3>1, Extremes
      <3>4. \E j \in L : \A h \in L : f[j] >= f[h]
        BY <3>2, <3>3
      <3> QED BY <3>4 DEF L
    <2>3. k \in S /\ f[k] < f[i]
      BY <1>1, <1>6, <2>2
    <2>4. UpTo(f, k) = Below(f, i)
      <3>1. \A j \in S : f[j] <= f[k] <=> f[j] < f[i]
        BY <1>1, <1>6, <2>2, <2>3
      <3> QED BY <1>1, <1>6, <2>3, <3>1
    <2>5. k \in Enough
      BY <1>2, <2>3, <2>4
    <2> QED BY <1>1, <1>5, <1>6, <2>3, <2>5
  <1> QED BY <1>6, <1>8

\* So the median of the window's dwells is a number.
LEMMA MedianType ==
  ASSUME FootfallTypeOK
  PROVE  MedianDwell \in Int
  <1> DEFINE n == Cardinality(DOMAIN dwells)
  <1>1. IsFiniteSet(DOMAIN dwells) /\ dwells \in [DOMAIN dwells -> Int]
    <2>1. started \in Int /\ 1 \in Int /\ DOMAIN dwells \subseteq 1..started
      BY DEF FootfallTypeOK, Ids
    <2>2. IsFiniteSet(1..started)
      BY <2>1, FS_Interval
    <2> QED BY <2>1, <2>2, FS_Subset DEF FootfallTypeOK
  <1>2. n \in Nat
    BY <1>1, FS_CardinalityType
  <1>3. \A m \in 1..n : Ranked(m) \in Int
    <2> SUFFICES ASSUME NEW m \in 1..n PROVE Ranked(m) \in Int
      OBVIOUS
    <2> DEFINE S == DOMAIN dwells
               IsRank(i) == Cardinality(Below(dwells, i)) < m /\ m <= Cardinality(UpTo(dwells, i))
    <2>1. \E i \in S : IsRank(i)
      <3> HIDE DEF S
      <3> QED BY <1>1, RankExists DEF S, n
    <2>2. Ranked(m) = dwells[CHOOSE i \in S : IsRank(i)]
      BY DEF Ranked, Below, UpTo
    <2> HIDE DEF IsRank
    <2>3. (CHOOSE i \in S : IsRank(i)) \in S
      BY <2>1
    <2> QED BY <1>1, <2>2, <2>3
  <1> HIDE DEF n
  <1>4. \A m \in Int : \A d \in Nat \ {0} : Rounded(m, d) \in Int
    BY DEF Rounded
  <1>5. Second \in Nat \ {0} /\ 2 * Second \in Nat \ {0}
    BY FootfallAssumption
  <1>6. CASE n = 0
    BY <1>6 DEF MedianDwell, n
  <1>7. CASE n # 0 /\ n % 2 = 1
    <2>1. (n \div 2) + 1 \in 1..n
      BY <1>2, <1>7
    <2>2. MedianDwell = Rounded(Ranked((n \div 2) + 1), Second)
      BY <1>7 DEF MedianDwell, n
    <2> QED BY <1>3, <1>4, <1>5, <2>1, <2>2
  <1>8. CASE n # 0 /\ n % 2 # 1
    <2>1. n \div 2 \in 1..n /\ (n \div 2) + 1 \in 1..n
      BY <1>2, <1>8
    <2>2. MedianDwell = Rounded(Ranked(n \div 2) + Ranked((n \div 2) + 1), 2 * Second)
      BY <1>8 DEF MedianDwell, n
    <2>3. Ranked(n \div 2) + Ranked((n \div 2) + 1) \in Int
      BY <1>3, <2>1
    <2> QED BY <1>4, <1>5, <2>2, <2>3
  <1> QED BY <1>6, <1>7, <1>8

----------------------------------------------------------------------------
(***************************************************************************)
(* The counts add up.  FootfallTypeOK is needed with the sums: a track     *)
(* counted in the window may be counted again if it may also be open.      *)
(***************************************************************************)
FootfallInv == FootfallTypeOK /\ WindowsAddUp

\* What the counts of the tracker and of the window are.
LEMMA CountsTypes ==
  ASSUME FootfallTypeOK
  PROVE  /\ Cardinality(DOMAIN open) \in Nat /\ Cardinality(DOMAIN dwells) \in Nat
         /\ Samples(open) \in Nat
  <1>1. IsFiniteSet(DOMAIN open) /\ open \in [DOMAIN open -> Track]
    BY TracksFinite DEF FootfallTypeOK
  <1>2. IsFiniteSet(DOMAIN dwells)
    <2>1. started \in Int /\ 1 \in Int /\ DOMAIN dwells \subseteq 1..started
      BY DEF FootfallTypeOK, Ids
    <2>2. IsFiniteSet(1..started)
      BY <2>1, FS_Interval
    <2> QED BY <2>1, <2>2, FS_Subset
  <1> QED BY <1>1, <1>2, FS_CardinalityType, SamplesType

\* The same after a step.
LEMMA CountsTypesNext ==
  FootfallTypeOK' => (/\ Cardinality(DOMAIN open) \in Nat /\ Cardinality(DOMAIN dwells) \in Nat
                      /\ Samples(open) \in Nat)'
BY CountsTypes, PTL

\* The sums still hold when m tracks have begun, n detections were fed and tracks closed.
LEMMA SumsHold ==
  ASSUME FootfallInv, FootfallTypeOK', NEW m \in Nat, NEW n \in Nat,
         NEW was \in Nat, NEW had \in Nat,
         was = Cardinality(DOMAIN open) + m, had = Samples(open) + n,
         started' = started + m, fed' = fed + n, reported' = reported, report' = report,
         closed' + Cardinality(DOMAIN open') = closed + was,
         sampled' + Samples(open') = sampled + had,
         visits' + Cardinality(DOMAIN dwells) = visits + Cardinality(DOMAIN dwells')
  PROVE  WindowsAddUp'
  <1> DEFINE o == Cardinality(DOMAIN open)  p == Cardinality(DOMAIN open')
             d == Cardinality(DOMAIN dwells)  e == Cardinality(DOMAIN dwells')
             x == Samples(open)  y == Samples(open')
  <1>1. o \in Nat /\ d \in Nat /\ x \in Nat
    BY CountsTypes DEF FootfallInv
  <1>2. p \in Nat /\ e \in Nat /\ y \in Nat
    BY CountsTypesNext
  <1>3. /\ started \in Nat /\ closed \in Nat /\ fed \in Nat /\ sampled \in Nat /\ visits \in Nat
        /\ reported \in Nat
    BY DEF FootfallTypeOK, FootfallInv
  <1>4. /\ started' \in Nat /\ closed' \in Nat /\ fed' \in Nat /\ sampled' \in Nat
        /\ visits' \in Nat
    BY DEF FootfallTypeOK
  <1>5. started = closed + o /\ fed = sampled + x /\ visits = reported + d
    BY DEF WindowsAddUp, FootfallInv
  <1> HIDE DEF o, p, d, e, x, y
  <1>6. PICK st, cl, fd, sa, vi : /\ st = started' /\ cl = closed' /\ fd = fed' /\ sa = sampled'
                                  /\ vi = visits'
    OBVIOUS
  <1>7. /\ was = o + m /\ had = x + n /\ cl + p = closed + was /\ sa + y = sampled + had
        /\ vi + d = visits + e
        /\ st = started + m /\ fd = fed + n /\ m \in Nat /\ n \in Nat
        /\ st \in Nat /\ cl \in Nat /\ fd \in Nat /\ sa \in Nat /\ vi \in Nat
    BY <1>4, <1>6 DEF o, p, d, e, x, y
  <1>8. st = cl + p /\ fd = sa + y /\ vi = reported + e
    BY <1>1, <1>2, <1>3, <1>5, <1>7
  <1>9. started' = closed' + p /\ fed' = sampled' + y /\ visits' = reported' + e
    BY <1>6, <1>8
  <1>10. /\ (\A i \in Metric : report.value[i] # Unknown => report.k >= CanonFloor[i])'
         /\ (report.value["footfall"] \in {report.k, Unknown})'
    BY DEF WindowsAddUp, FootfallInv
  <1> QED BY <1>9, <1>10 DEF WindowsAddUp, p, e, y

\* Nothing has no samples.
LEMMA NothingCounts ==
  DOMAIN Nothing = {} /\ Cardinality(DOMAIN Nothing) = 0 /\ Samples(Nothing) = 0
  <1>1. DOMAIN Nothing = {}
    BY DEF Nothing
  <1>2. Cardinality({}) = 0
    BY FS_EmptySet
  <1>3. Units([i \in DOMAIN Nothing |-> Nothing[i].samples]) = {}
    BY <1>1 DEF Units
  <1> QED BY <1>1, <1>2, <1>3 DEF Samples, Total

\* A tracker starts with nothing open and its window empty.
LEMMA FootfallInitially == FootfallInit => FootfallInv
  <1> SUFFICES ASSUME FootfallInit PROVE FootfallInv
    OBVIOUS
  <1>1. /\ open = Nothing /\ dwells = Nothing /\ report = NothingYet /\ started = 0 /\ closed = 0
        /\ now = 0 /\ origin \in [Stream -> Origins] /\ fed = 0 /\ sampled = 0 /\ visits = 0
        /\ reported = 0 /\ MaxNow \in Nat
    BY FootfallAssumption DEF FootfallInit
  <1>2. /\ open \in [DOMAIN open -> Track] /\ dwells \in [DOMAIN dwells -> Int]
        /\ DOMAIN open = {} /\ DOMAIN dwells = {}
    BY <1>1, NothingCounts DEF Nothing
  <1>3. report \in [k : Nat, value : [Metric -> Int \cup {Unknown}]]
    BY <1>1 DEF NothingYet
  <1>4. FootfallTypeOK
    BY <1>1, <1>2, <1>3 DEF FootfallTypeOK
  <1>5. WindowsAddUp
    <2>1. report.k = 0 /\ \A m \in Metric : report.value[m] = Unknown
      BY <1>1 DEF NothingYet
    <2>2. started = closed + Cardinality(DOMAIN open) /\ fed = sampled + Samples(open)
          /\ visits = reported + Cardinality(DOMAIN dwells)
      BY <1>1, NothingCounts
    <2> QED BY <2>1, <2>2 DEF WindowsAddUp, Metric
  <1> QED BY <1>4, <1>5 DEF FootfallInv

\* A frame's detections become samples of its tracks.
LEMMA UpdateKeeps ==
  ASSUME FootfallInv, NEW s \in Stream, NEW frame \in Frame, Update(s, frame)
  PROVE  FootfallInv'
  <1> DEFINE a == Associated(s, frame)
             ending == {i \in DOMAIN a.tracks : Stale(a.tracks[i], Clock(s))}
  <1>1. FootfallTypeOK /\ WindowsAddUp
    BY DEF FootfallInv
  <1>2. /\ Close(a.tracks, ending) /\ ending \subseteq DOMAIN a.tracks
        /\ started' = a.started /\ fed' = fed + Len(frame)
        /\ now' = now /\ origin' = origin /\ report' = report /\ reported' = reported
    BY DEF Update
  <1> HIDE DEF ending, a
  <1>3. /\ a.started \in Nat /\ started <= a.started
        /\ DOMAIN a.tracks \subseteq 1..a.started \ DOMAIN dwells
        /\ a.tracks \in [DOMAIN a.tracks -> Track]
        /\ Cardinality(DOMAIN a.tracks) = Cardinality(DOMAIN open) + (a.started - started)
        /\ Samples(a.tracks) = Samples(open) + Len(frame)
    BY <1>1, AssociatedTracks DEF a
  <1> DEFINE last == a.started  tracks == a.tracks
  <1>4. /\ last \in Nat /\ started <= last
        /\ DOMAIN tracks \subseteq 1..last \ DOMAIN dwells /\ tracks \in [DOMAIN tracks -> Track]
        /\ ending \subseteq DOMAIN tracks /\ Close(tracks, ending)
    BY <1>2, <1>3
  <1>5. /\ DOMAIN open' = DOMAIN tracks \ ending /\ open' \in [DOMAIN open' -> Track]
        /\ DOMAIN dwells' \subseteq 1..last \ DOMAIN open' /\ dwells' \in [DOMAIN dwells' -> Int]
        /\ closed' \in Nat /\ sampled' \in Nat /\ visits' \in Nat
        /\ closed' + Cardinality(DOMAIN open') = closed + Cardinality(DOMAIN tracks)
        /\ sampled' + Samples(open') = sampled + Samples(tracks)
        /\ visits' + Cardinality(DOMAIN dwells) = visits + Cardinality(DOMAIN dwells')
    <2> HIDE DEF last, tracks
    <2> QED BY <1>1, <1>4, Closes
  <1>6. Len(frame) \in Nat
    BY FootfallAssumption
  <1>7. FootfallTypeOK'
    <2>1. DOMAIN open' \subseteq 1..last
      BY <1>4, <1>5
    <2>2. fed' \in Nat
      BY <1>1, <1>2, <1>6 DEF FootfallTypeOK
    <2>3. /\ now' \in 0..MaxNow /\ origin' \in [Stream -> Origins] /\ reported' \in Nat
          /\ report' \in [k : Nat, value : [Metric -> Int \cup {Unknown}]]
      BY <1>1, <1>2 DEF FootfallTypeOK
    <2>4. started' = last
      BY <1>2
    <2> HIDE DEF last
    <2> QED BY <1>4, <1>5, <2>1, <2>2, <2>3, <2>4 DEF FootfallTypeOK, Ids
  <1>8. WindowsAddUp'
    <2> DEFINE m == a.started - started  n == Len(frame)
               was == Cardinality(DOMAIN a.tracks)  had == Samples(a.tracks)
    <2>1. /\ started \in Nat /\ Cardinality(DOMAIN open) \in Nat /\ Samples(open) \in Nat
          /\ fed \in Nat
      BY <1>1, CountsTypes DEF FootfallTypeOK
    <2>2. /\ m \in Nat /\ n \in Nat /\ was = Cardinality(DOMAIN open) + m /\ had = Samples(open) + n
          /\ started' = started + m /\ fed' = fed + n
      BY <1>2, <1>3, <1>6, <2>1
    <2>3. /\ reported' = reported /\ report' = report
          /\ closed' + Cardinality(DOMAIN open') = closed + was
          /\ sampled' + Samples(open') = sampled + had
          /\ visits' + Cardinality(DOMAIN dwells) = visits + Cardinality(DOMAIN dwells')
      BY <1>2, <1>5
    <2> HIDE DEF m, n, was, had
    <2>4. was \in Nat /\ had \in Nat
      BY <2>1, <2>2
    <2> QED BY <1>7, <2>2, <2>3, <2>4, SumsHold
  <1> QED BY <1>7, <1>8 DEF FootfallInv

\* Draining the tracker closes what is open.
LEMMA CloseAllKeeps ==
  ASSUME FootfallInv, CloseAll
  PROVE  FootfallInv'
  <1>1. FootfallTypeOK /\ WindowsAddUp
    BY DEF FootfallInv
  <1>2. /\ Close(open, DOMAIN open) /\ started' = started /\ fed' = fed
        /\ now' = now /\ origin' = origin /\ report' = report /\ reported' = reported
    BY DEF CloseAll
  <1>3. /\ started \in Nat /\ started <= started
        /\ DOMAIN open \subseteq 1..started \ DOMAIN dwells /\ open \in [DOMAIN open -> Track]
    BY <1>1 DEF FootfallTypeOK, Ids
  <1>4. /\ DOMAIN open' = {} /\ open' \in [DOMAIN open' -> Track]
        /\ DOMAIN dwells' \subseteq 1..started \ DOMAIN open' /\ dwells' \in [DOMAIN dwells' -> Int]
        /\ closed' \in Nat /\ sampled' \in Nat /\ visits' \in Nat
        /\ closed' + Cardinality(DOMAIN open') = closed + Cardinality(DOMAIN open)
        /\ sampled' + Samples(open') = sampled + Samples(open)
        /\ visits' + Cardinality(DOMAIN dwells) = visits + Cardinality(DOMAIN dwells')
    <2>1. PICK tracks, ending : tracks = open /\ ending = DOMAIN open
      OBVIOUS
    <2>2. /\ DOMAIN tracks \subseteq 1..started \ DOMAIN dwells
          /\ tracks \in [DOMAIN tracks -> Track]
          /\ ending \subseteq DOMAIN tracks /\ Close(tracks, ending)
      BY <1>2, <1>3, <2>1
    <2>3. /\ DOMAIN open' = DOMAIN tracks \ ending /\ open' \in [DOMAIN open' -> Track]
          /\ DOMAIN dwells' \subseteq 1..started \ DOMAIN open'
          /\ dwells' \in [DOMAIN dwells' -> Int]
          /\ closed' \in Nat /\ sampled' \in Nat /\ visits' \in Nat
          /\ closed' + Cardinality(DOMAIN open') = closed + Cardinality(DOMAIN tracks)
          /\ sampled' + Samples(open') = sampled + Samples(tracks)
          /\ visits' + Cardinality(DOMAIN dwells) = visits + Cardinality(DOMAIN dwells')
      BY <1>1, <1>3, <2>2, Closes
    <2> QED BY <2>1, <2>3
  <1>5. FootfallTypeOK'
    BY <1>1, <1>2, <1>4 DEF FootfallTypeOK, Ids
  <1>6. WindowsAddUp'
    <2> DEFINE was == Cardinality(DOMAIN open)  had == Samples(open)
    <2>1. was \in Nat /\ had \in Nat /\ started \in Nat /\ fed \in Nat
      BY <1>1, CountsTypes DEF FootfallTypeOK
    <2>2. /\ was = Cardinality(DOMAIN open) + 0 /\ had = Samples(open) + 0
          /\ started' = started + 0 /\ fed' = fed + 0
      BY <1>2, <2>1
    <2>3. /\ reported' = reported /\ report' = report
          /\ closed' + Cardinality(DOMAIN open') = closed + was
          /\ sampled' + Samples(open') = sampled + had
          /\ visits' + Cardinality(DOMAIN dwells) = visits + Cardinality(DOMAIN dwells')
      BY <1>2, <1>4
    <2> HIDE DEF was, had
    <2> QED BY <1>5, <2>1, <2>2, <2>3, SumsHold
  <1> QED BY <1>5, <1>6 DEF FootfallInv

\* A window reports its visits, and a value only where canon permits.
LEMMA CloseWindowKeeps ==
  ASSUME FootfallInv, NEW policy \in PolicyFloor, CloseWindow(policy)
  PROVE  FootfallInv'
  <1> DEFINE k == Cardinality(DOMAIN dwells)
             value == [m \in Metric |->
                         Judge(m, IF m = "footfall" THEN k ELSE MedianDwell, k, policy)]
  <1>1. FootfallTypeOK /\ WindowsAddUp
    BY DEF FootfallInv
  <1>2. /\ report' = [k |-> k, value |-> value] /\ reported' = reported + k /\ dwells' = Nothing
        /\ open' = open /\ started' = started /\ closed' = closed /\ now' = now
        /\ origin' = origin /\ fed' = fed /\ sampled' = sampled /\ visits' = visits
    BY DEF CloseWindow
  <1>3. k \in Nat /\ MedianDwell \in Int
    BY <1>1, CountsTypes, MedianType
  <1>4. \A m \in Metric : /\ CanonFloor[m] \in Nat /\ EffectiveFloor(m, policy) \in Nat
                          /\ EffectiveFloor(m, policy) >= CanonFloor[m]
    <2>1. policy \in [Metric -> Nat] /\ CanonFloor \in [Metric -> Nat]
      BY FootfallAssumption
    <2> QED BY <2>1 DEF EffectiveFloor, Farther
  <1> HIDE DEF k
  <1>5. /\ value \in [Metric -> Int \cup {Unknown}] /\ value["footfall"] \in {k, Unknown}
        /\ \A m \in Metric : value[m] # Unknown => k >= CanonFloor[m]
    <2>1. \A m \in Metric :
            /\ value[m] = Unknown \/ value[m] = (IF m = "footfall" THEN k ELSE MedianDwell)
            /\ value[m] # Unknown => ~(k < EffectiveFloor(m, policy))
      BY DEF Judge
    <2>2. value = [m \in Metric |-> value[m]] /\ "footfall" \in Metric
      BY DEF Metric
    <2> HIDE DEF value
    <2>3. \A m \in Metric : value[m] \in Int \cup {Unknown}
      BY <1>3, <2>1
    <2> QED BY <1>3, <1>4, <2>1, <2>2, <2>3
  <1> HIDE DEF value
  <1>6. FootfallTypeOK'
    <2>1. /\ dwells' \in [DOMAIN dwells' -> Int] /\ DOMAIN dwells' = {}
      BY <1>2, NothingCounts DEF Nothing
    <2>2. report' \in [k : Nat, value : [Metric -> Int \cup {Unknown}]] /\ reported' \in Nat
      BY <1>1, <1>2, <1>3, <1>5 DEF FootfallTypeOK
    <2> QED BY <1>1, <1>2, <2>1, <2>2 DEF FootfallTypeOK, Ids
  <1>7. WindowsAddUp'
    <2>1. visits' = reported' + Cardinality(DOMAIN dwells')
      <3>1. Cardinality(DOMAIN dwells') = 0 /\ visits = reported + k /\ reported \in Nat
        BY <1>1, <1>2, NothingCounts DEF WindowsAddUp, FootfallTypeOK, k
      <3> QED BY <1>2, <1>3, <3>1
    <2>2. report'.k = k /\ report'.value = value
      BY <1>2
    <2> QED BY <1>1, <1>2, <1>5, <2>1, <2>2 DEF WindowsAddUp
  <1> QED BY <1>6, <1>7 DEF FootfallInv

\* Every step keeps the sums and the types.
LEMMA FootfallKept ==
  ASSUME FootfallInv, [FootfallNext]_footfall_vars
  PROVE  FootfallInv'
  <1>1. ASSUME NEW s \in Stream, NEW frame \in Frame, Update(s, frame) PROVE FootfallInv'
    BY <1>1, UpdateKeeps
  <1>2. ASSUME NEW policy \in PolicyFloor, CloseWindow(policy) PROVE FootfallInv'
    BY <1>2, CloseWindowKeeps
  <1>3. CASE Tick
    <2>1. now' \in 0..MaxNow
      BY <1>3, FootfallAssumption DEF Tick, FootfallInv, FootfallTypeOK
    <2> QED BY <1>3, <2>1 DEF Tick, FootfallInv, FootfallTypeOK, WindowsAddUp, Ids
  <1>4. ASSUME NEW s \in Stream, SetClock(s) PROVE FootfallInv'
    <2>1. origin' \in [Stream -> Origins]
      BY <1>4 DEF SetClock, FootfallInv, FootfallTypeOK
    <2> QED BY <1>4, <2>1 DEF SetClock, FootfallInv, FootfallTypeOK, WindowsAddUp, Ids
  <1>5. CASE UNCHANGED footfall_vars
    BY <1>5 DEF footfall_vars, FootfallInv, FootfallTypeOK, WindowsAddUp, Ids
  <1> QED BY <1>1, <1>2, <1>3, <1>4, <1>5, CloseAllKeeps DEF FootfallNext

\* Every track has a number the counter has passed, and is open or among the visits of the
\* window, never both; a report is a count and a value of each metric, or its suppression.
THEOREM FootfallTypes == FootfallSpec => []FootfallTypeOK
  <1>1. FootfallInv /\ [FootfallNext]_footfall_vars => FootfallInv'
    BY FootfallKept
  <1>2. FootfallInv => FootfallTypeOK
    BY DEF FootfallInv
  <1> QED BY <1>1, <1>2, FootfallInitially, PTL DEF FootfallSpec

\* However frames, drains and window closes interleave, no detection, track or visit is lost or
\* counted twice, and no policy gets a value out of fewer visits than canon permits.
THEOREM FootfallAddsUp == FootfallSpec => []WindowsAddUp
  <1>1. FootfallInv /\ [FootfallNext]_footfall_vars => FootfallInv'
    BY FootfallKept
  <1>2. FootfallInv => WindowsAddUp
    BY DEF FootfallInv
  <1> QED BY <1>1, <1>2, FootfallInitially, PTL DEF FootfallSpec

----------------------------------------------------------------------------
(* What a step may do to a track *)

\* What a frame does to the tracker: which tracks its detections reached, and which it closed.
LEMMA UpdateReaches ==
  ASSUME FootfallTypeOK, NEW s \in Stream, NEW frame \in Frame, Update(s, frame),
         NEW a, a = Associated(s, frame)
  PROVE  LET reached == a.taken \cup Started(a)
         IN /\ Joined(s, a, Len(frame)) /\ fed' = fed + Len(frame)
            /\ DOMAIN open' \subseteq DOMAIN open \cup Started(a)
            /\ \A i \in DOMAIN open' : open'[i] = a.tracks[i]
            /\ reached \subseteq DOMAIN open'
            /\ \A i \in DOMAIN open \ DOMAIN open' :
                 a.tracks[i] = open[i] /\ Clock(s) - open[i].last > MaxGap
  <1> DEFINE ending == {i \in DOMAIN a.tracks : Stale(a.tracks[i], Clock(s))}
             reached == a.taken \cup Started(a)
  <1>1. Joined(s, a, Len(frame))
    BY AssociatedJoined
  <1>2. /\ a.taken \subseteq DOMAIN open /\ DOMAIN a.tracks = DOMAIN open \cup Started(a)
        /\ \A i \in DOMAIN open \ a.taken : a.tracks[i] = open[i]
        /\ \A i \in reached : a.tracks[i].last = Clock(s)
    BY <1>1 DEF Joined
  <1>3. fed' = fed + Len(frame) /\ Close(a.tracks, ending)
    BY DEF Update
  <1>4. DOMAIN open' = DOMAIN a.tracks \ ending /\ \A i \in DOMAIN open' : open'[i] = a.tracks[i]
    BY <1>3 DEF Close, Part
  <1>5. \A i \in DOMAIN a.tracks : i \in ending <=> Clock(s) - a.tracks[i].last > MaxGap
    BY DEF Stale
  <1>6. \A i \in reached : i \notin ending
    <2>1. Clock(s) \in Int /\ MaxGap \in Nat
      BY FootfallAssumption DEF FootfallTypeOK, Clock
    <2>2. ~(Clock(s) - Clock(s) > MaxGap)
      BY <2>1
    <2> HIDE DEF ending, reached
    <2>3. reached \subseteq DOMAIN a.tracks
      BY <1>2 DEF reached
    <2> QED BY <1>2, <1>5, <2>2, <2>3
  <1> HIDE DEF ending
  <1>7. reached \subseteq DOMAIN open'
    BY <1>2, <1>4, <1>6
  <1>8. \A i \in DOMAIN open \ DOMAIN open' :
          a.tracks[i] = open[i] /\ Clock(s) - open[i].last > MaxGap
    <2> SUFFICES ASSUME NEW i \in DOMAIN open \ DOMAIN open'
                 PROVE  a.tracks[i] = open[i] /\ Clock(s) - open[i].last > MaxGap
      OBVIOUS
    <2>1. i \in DOMAIN a.tracks /\ i \in ending
      BY <1>2, <1>4
    <2>2. i \notin a.taken
      BY <1>7
    <2>3. a.tracks[i] = open[i]
      BY <1>2, <2>2
    <2> QED BY <1>5, <2>1, <2>3
  <1> QED BY <1>1, <1>2, <1>3, <1>4, <1>7, <1>8

\* An overlap is no reason to join two detections of a frame to one track.
LEMMA OneVisitEachStep ==
  ASSUME FootfallTypeOK, [FootfallNext]_footfall_vars, fed' # fed
  PROVE  LET touched == {i \in DOMAIN open' : i \notin DOMAIN open \/ open'[i] # open[i]}
         IN /\ Cardinality(touched) = fed' - fed
            /\ \A i, j \in touched : /\ open'[i].stream = open'[j].stream
                                     /\ open'[i].last = open'[j].last
  <1>1. PICK s \in Stream, frame \in Frame : Update(s, frame)
    BY DEF FootfallNext, footfall_vars, CloseAll, CloseWindow, Tick, SetClock
  <1> DEFINE a == Associated(s, frame)
             reached == a.taken \cup Started(a)
             touched == {i \in DOMAIN open' : i \notin DOMAIN open \/ open'[i] # open[i]}
  <1> HIDE DEF a
  <1>2. /\ Joined(s, a, Len(frame)) /\ fed' = fed + Len(frame)
        /\ DOMAIN open' \subseteq DOMAIN open \cup Started(a)
        /\ \A i \in DOMAIN open' : open'[i] = a.tracks[i]
        /\ reached \subseteq DOMAIN open'
    BY <1>1, UpdateReaches DEF a
  <1>3. /\ a.started \in Nat /\ started <= a.started /\ a.taken \subseteq DOMAIN open
        /\ Cardinality(a.taken) + Cardinality(Started(a)) = Len(frame)
        /\ \A i \in DOMAIN open \ a.taken : a.tracks[i] = open[i]
        /\ \A i \in a.taken : a.tracks[i] # open[i]
        /\ \A i \in reached : a.tracks[i].stream = s /\ a.tracks[i].last = Clock(s)
    BY <1>2 DEF Joined
  <1>4. Started(a) \cap DOMAIN open = {} /\ started \in Nat
    BY DEF Started, FootfallTypeOK, Ids
  <1>5. touched = reached
    <2>1. \A i \in DOMAIN open' : i \in reached => i \notin DOMAIN open \/ open'[i] # open[i]
      BY <1>2, <1>3, <1>4
    <2>2. \A i \in DOMAIN open' : i \notin reached => i \in DOMAIN open /\ open'[i] = open[i]
      BY <1>2, <1>3
    <2> HIDE DEF reached
    <2> QED BY <1>2, <2>1, <2>2
  <1>6. Cardinality(reached) = Len(frame)
    <2>1. IsFiniteSet(a.taken)
      BY <1>3, TracksFinite, FS_Subset
    <2>2. IsFiniteSet(Started(a))
      BY <1>3, StartedType
    <2>3. a.taken \cap Started(a) = {}
      BY <1>3, <1>4
    <2>4. Cardinality(a.taken \cap Started(a)) = 0
      BY <2>3, FS_EmptySet
    <2>5. Cardinality(a.taken \cup Started(a))
            = Cardinality(a.taken) + Cardinality(Started(a)) - Cardinality(a.taken \cap Started(a))
      BY <2>1, <2>2, FS_Union
    <2>6. Cardinality(a.taken) \in Nat /\ Cardinality(Started(a)) \in Nat
      BY <2>1, <2>2, FS_CardinalityType
    <2> QED BY <1>3, <2>4, <2>5, <2>6
  <1>7. Len(frame) \in Nat /\ fed \in Nat
    BY FootfallAssumption DEF FootfallTypeOK
  <1>8. Cardinality(touched) = fed' - fed
    <2>1. PICK f, n : f = fed' /\ n = Len(frame)
      OBVIOUS
    <2>2. f = fed + n /\ fed \in Nat /\ n \in Nat
      BY <1>2, <1>7, <2>1
    <2>3. f - fed = n
      BY <2>2
    <2> QED BY <1>5, <1>6, <2>1, <2>3
  <1>9. \A i, j \in touched : open'[i].stream = open'[j].stream /\ open'[i].last = open'[j].last
    <2>1. \A i \in reached : open'[i].stream = s /\ open'[i].last = Clock(s)
      BY <1>2, <1>3
    <2> HIDE DEF reached, touched
    <2> QED BY <1>5, <2>1
  <1> QED BY <1>8, <1>9

\* The detections of a frame go to as many tracks, however they overlap (tracking.py:116-148).
THEOREM FootfallOneVisitEach == FootfallSpec => OneVisitEach
  <1>1. FootfallTypeOK /\ [FootfallNext]_footfall_vars =>
          [fed' # fed =>
             LET touched == {i \in DOMAIN open' : i \notin DOMAIN open \/ open'[i] # open[i]}
             IN /\ Cardinality(touched) = fed' - fed
                /\ \A i, j \in touched : /\ open'[i].stream = open'[j].stream
                                         /\ open'[i].last = open'[j].last]_footfall_vars
    BY OneVisitEachStep
  <1> QED BY <1>1, FootfallTypes, PTL DEF FootfallSpec, OneVisitEach

\* A track that stays open took its last sample in time, and one that goes was due.
LEMMA VisitsEndStep ==
  ASSUME FootfallTypeOK, [FootfallNext]_footfall_vars, NEW i \in DOMAIN open
  PROVE  /\ i \in DOMAIN open' => open'[i].last - open[i].last <= MaxGap
         /\ i \notin DOMAIN open' =>
              \/ CloseAll
              \/ Clock(open[i].stream) - open[i].last > MaxGap
              \/ \E s \in Stream : origin[s] > origin[open[i].stream]
  <1>1. open[i] \in Track /\ open[i].last \in Int /\ open[i].stream \in Stream /\ MaxGap \in Nat
    BY FootfallAssumption DEF FootfallTypeOK, Track
  <1>2. CASE open' = open
    BY <1>1, <1>2
  <1>3. CASE CloseAll
    <2>1. i \notin DOMAIN open'
      BY <1>3 DEF CloseAll, Close, Part
    <2> QED BY <1>3, <2>1
  <1>4. ASSUME NEW s \in Stream, NEW frame \in Frame, Update(s, frame)
        PROVE  /\ i \in DOMAIN open' => open'[i].last - open[i].last <= MaxGap
               /\ i \notin DOMAIN open' =>
                    \/ Clock(open[i].stream) - open[i].last > MaxGap
                    \/ \E t \in Stream : origin[t] > origin[open[i].stream]
    <2> DEFINE a == Associated(s, frame)
    <2> HIDE DEF a
    <2>1. /\ Joined(s, a, Len(frame))
          /\ \A j \in DOMAIN open' : open'[j] = a.tracks[j]
          /\ \A j \in DOMAIN open \ DOMAIN open' :
               a.tracks[j] = open[j] /\ Clock(s) - open[j].last > MaxGap
      BY <1>4, UpdateReaches DEF a
    <2>2. /\ \A j \in DOMAIN open \ a.taken : a.tracks[j] = open[j]
          /\ \A j \in a.taken : Clock(s) - open[j].last <= MaxGap
          /\ \A j \in a.taken : a.tracks[j].last = Clock(s)
      BY <2>1 DEF Joined
    <2>3. ASSUME i \in DOMAIN open' PROVE open'[i].last - open[i].last <= MaxGap
      <3>1. open'[i] = a.tracks[i]
        BY <2>1, <2>3
      <3>2. CASE i \in a.taken
        BY <2>2, <3>1, <3>2
      <3>3. CASE i \notin a.taken
        BY <1>1, <2>2, <3>1, <3>3
      <3> QED BY <3>2, <3>3
    <2>4. ASSUME i \notin DOMAIN open'
          PROVE  \/ Clock(open[i].stream) - open[i].last > MaxGap
                 \/ \E t \in Stream : origin[t] > origin[open[i].stream]
      <3> DEFINE t == open[i].stream
      <3>1. Clock(s) - open[i].last > MaxGap
        BY <2>1, <2>4
      <3>2. /\ now \in Int /\ origin[s] \in Int /\ origin[t] \in Int
            /\ Clock(s) = now + origin[s] /\ Clock(t) = now + origin[t]
        BY <1>1, FootfallAssumption DEF FootfallTypeOK, Clock
      <3> HIDE DEF t
      <3>3. origin[s] > origin[t] \/ Clock(t) - open[i].last > MaxGap
        BY <1>1, <3>1, <3>2
      <3> QED BY <3>3 DEF t
    <2> QED BY <2>3, <2>4
  <1> QED BY <1>2, <1>3, <1>4 DEF FootfallNext, footfall_vars, CloseWindow, Tick, SetClock

\* A gap longer than max_gap_ms ends a visit, and only that, a drain, or the clock of a stream
\* that runs ahead does (tracking.py:150-176).
THEOREM FootfallVisitsEndAtGaps == FootfallSpec => VisitsEndAtGaps
  <1>1. FootfallTypeOK /\ [FootfallNext]_footfall_vars =>
          [\A i \in DOMAIN open :
             /\ i \in DOMAIN open' => open'[i].last - open[i].last <= MaxGap
             /\ i \notin DOMAIN open' =>
                  \/ CloseAll
                  \/ Clock(open[i].stream) - open[i].last > MaxGap
                  \/ \E s \in Stream : origin[s] > origin[open[i].stream]]_footfall_vars
    BY VisitsEndStep
  <1> QED BY <1>1, FootfallTypes, PTL DEF FootfallSpec, VisitsEndAtGaps

=============================================================================
