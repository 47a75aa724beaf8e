------------------------------- MODULE Spool -------------------------------
(***************************************************************************)
(* The durable spool (t1/control/spool.py): a SQLite table of records in   *)
(* sequence order, bounded in bytes, that sheds by priority when full.     *)
(*                                                                         *)
(* Every commit is one step, so a crash can fall between any two commits   *)
(* of an enqueue.  `rows` and `last_seq` are on disk; `dropped`,           *)
(* `coarsened_count`, `pc`, `incoming` and `merge` belong to the process   *)
(* and die with it.  A payload is abstracted to the set of windows whose   *)
(* count its "value" includes (`covers`): the record of sequence number s  *)
(* is admitted as window s, and merging records adds their values, that    *)
(* is, unites their windows.  The definitions named for a fault (such as   *)
(* FitsIgnoringNeed) are wrong on purpose: each stands for the definition  *)
(* after it when the properties' power to notice that fault is tried.      *)
(***************************************************************************)
EXTENDS Integers, FiniteSets, Totals

CONSTANTS
  Capacity,       \* capacity_bytes, in abstract size units
  Items,          \* the SpoolItems callers enqueue
  NoItem,         \* no enqueue in progress
  NoMetric,       \* SpoolItem.metric is None
  CoarsenFactor,  \* COARSEN_FACTOR
  CoarsenGrowth,  \* most bytes a merge adds to the head's payload
  Horizons,       \* the device_time horizons prune is called with
  Batch,          \* records a drain returns at most
  MaxSeq          \* bound on the sequence numbers explored

SAFETY_SECURITY == 0
REFRIGERATION   == 1
OPERATIONAL     == 2
AGGREGATE       == 3
HEALTH          == 4
Priority == SAFETY_SECURITY .. HEALTH

\* metric names are compared only by their SQL order, so they are numbers
ItemType == [prio : Priority, metric : Nat \cup {NoMetric}, size : Nat \ {0}, time : Nat]

ASSUME SpoolAssumption ==
  /\ Capacity \in Nat /\ CoarsenGrowth \in Nat /\ Batch \in Nat /\ MaxSeq \in Nat
  /\ CoarsenFactor \in Nat /\ CoarsenFactor >= 2
  /\ Horizons \subseteq Nat
  /\ Items \subseteq ItemType
  /\ NoItem \notin Items
  /\ NoMetric \notin Nat

DropReason ==
  [p \in Priority |->
     <<"dropped_safety_security", "dropped_refrigeration", "dropped_operational",
       "dropped_aggregate", "dropped_health">>[p + 1]]
Reasons == {DropReason[p] : p \in Priority} \cup {"spool_expired", "backfill_refused"}

VARIABLES
  rows,             \* table spool: seq -> row
  last_seq,         \* table spool_meta
  dropped,          \* Spool.dropped
  coarsened_count,  \* Spool.coarsened_count
  pc,               \* where the enqueue in progress stands
  incoming,         \* the item it carries
  merge,            \* locals of _coarsen_oldest_aggregate between its two commits
  gone              \* history: windows that left by ack, discard, drop or prune

disk     == <<rows, last_seq>>
memory   == <<dropped, coarsened_count, pc, incoming, merge>>
vars     == <<disk, memory, gone>>

Seqs == DOMAIN rows
NoMerge == [head |-> 0, count |-> 0, covers |-> {}]

Row == [prio : Priority, metric : Nat \cup {NoMetric}, size : Nat, time : Nat,
        covers : SUBSET Nat, coarsened : BOOLEAN]

Covered(S) == UNION {rows[s].covers : s \in S}
Without(S) == [s \in Seqs \ S |-> rows[s]]
UsedBytes  == Total([s \in Seqs |-> rows[s].size])

FitsIgnoringNeed == UsedBytes <= Capacity
Fits == UsedBytes + incoming.size <= Capacity

IsOldestVictim(s) == \A t \in Seqs : s <= t
\* ORDER BY priority DESC, seq ASC LIMIT 1
IsVictim(s) ==
  \A t \in Seqs : \/ rows[t].prio < rows[s].prio
                  \/ rows[t].prio = rows[s].prio /\ s <= t

Group(m) == {s \in Seqs : rows[s].prio = AGGREGATE /\ rows[s].metric = m}
GroupsOfTwo == {m \in {rows[s].metric : s \in Seqs} \ {NoMetric} : Cardinality(Group(m)) >= 2}
Oldest(S, n) == {s \in S : Cardinality({t \in S : t < s}) < n}
\* group[:COARSEN_FACTOR] of the first metric, in name order, with two records
IsMerged(S) ==
  \E m \in GroupsOfTwo : /\ \A other \in GroupsOfTwo : m <= other
                         /\ S = Oldest(Group(m), CoarsenFactor)
HealthSpooled == \E s \in Seqs : rows[s].prio > AGGREGATE
MustCoarsen == ~HealthSpooled /\ GroupsOfTwo # {}

Count(reason, n) == dropped' = [dropped EXCEPT ![reason] = @ + n]

----------------------------------------------------------------------------
Init ==
  /\ rows = [s \in {} |-> 0]
  /\ last_seq = 0
  /\ dropped = [r \in Reasons |-> 0]
  /\ coarsened_count = 0
  /\ pc = "idle" /\ incoming = NoItem /\ merge = NoMerge
  /\ gone = {}

\* enqueue, past the refusals that change nothing (media, record_exceeds_capacity)
BeginEnqueue(item) ==
  /\ pc = "idle" /\ last_seq < MaxSeq
  /\ item.size <= Capacity
  /\ pc' = "room" /\ incoming' = item
  /\ UNCHANGED <<disk, dropped, coarsened_count, merge, gone>>

CoarsenDeleteHeadToo ==
  /\ pc = "room" /\ ~Fits /\ MustCoarsen
  /\ \E S \in SUBSET Seqs, head \in Seqs :
       /\ IsMerged(S) /\ head \in S
       /\ \A s \in S : head <= s
       /\ rows' = Without(S)
       /\ merge' = [head |-> head, count |-> Cardinality(S), covers |-> Covered(S \ {head})]
  /\ pc' = "merge"
  /\ UNCHANGED <<last_seq, dropped, coarsened_count, incoming, gone>>

\* first commit of a coarsening: ack deletes every merged record but the head
CoarsenDelete ==
  /\ pc = "room" /\ ~Fits /\ MustCoarsen
  /\ \E S \in SUBSET Seqs, head \in Seqs :
       /\ IsMerged(S) /\ head \in S
       /\ \A s \in S : head <= s
       /\ rows' = Without(S \ {head})
       /\ merge' = [head |-> head, count |-> Cardinality(S), covers |-> Covered(S \ {head})]
  /\ pc' = "merge"
  /\ UNCHANGED <<last_seq, dropped, coarsened_count, incoming, gone>>

CoarserNotSummed(row, windows, size) ==
  [row EXCEPT !.size = size, !.coarsened = TRUE]
Coarser(row, windows, size) ==
  [row EXCEPT !.covers = windows, !.size = size, !.coarsened = TRUE]

\* second commit: the head takes the summed value and window
CoarsenUpdate ==
  /\ pc = "merge"
  /\ \E growth \in 0..CoarsenGrowth :
       rows' = [rows EXCEPT ![merge.head] =
                  Coarser(@, @.covers \cup merge.covers, @.size + growth)]
  /\ coarsened_count' = coarsened_count + merge.count
  /\ pc' = "room" /\ merge' = NoMerge
  /\ UNCHANGED <<last_seq, dropped, incoming, gone>>

DropVictimIfCheaper ==
  /\ pc = "room" /\ ~Fits /\ ~MustCoarsen
  /\ \E s \in Seqs :
       /\ IsVictim(s) /\ rows[s].prio > incoming.prio
       /\ rows' = Without({s})
       /\ gone' = gone \cup rows[s].covers
       /\ Count(DropReason[rows[s].prio], 1)
  /\ UNCHANGED <<last_seq, coarsened_count, pc, incoming, merge>>

DropVictim ==
  /\ pc = "room" /\ ~Fits /\ ~MustCoarsen
  /\ \E s \in Seqs :
       /\ IsVictim(s) /\ rows[s].prio >= incoming.prio
       /\ rows' = Without({s})
       /\ gone' = gone \cup rows[s].covers
       /\ Count(DropReason[rows[s].prio], 1)
  /\ UNCHANGED <<last_seq, coarsened_count, pc, incoming, merge>>

\* raise SpoolRefused("spool_full")
RefuseFull ==
  /\ pc = "room" /\ ~Fits /\ ~MustCoarsen
  /\ \A s \in Seqs : IsVictim(s) => rows[s].prio < incoming.prio
  /\ pc' = "idle" /\ incoming' = NoItem
  /\ UNCHANGED <<disk, dropped, coarsened_count, merge, gone>>

NextSeqFromTable == 1 + (IF Seqs = {} THEN 0 ELSE CHOOSE s \in Seqs : \A t \in Seqs : t <= s)
NextSeq == last_seq + 1

Insert ==
  /\ pc = "room" /\ Fits
  /\ LET seq == NextSeq IN
       /\ rows' = [s \in Seqs \cup {seq} |->
                     IF s = seq
                     THEN [prio |-> incoming.prio, metric |-> incoming.metric,
                           size |-> incoming.size, time |-> incoming.time,
                           covers |-> {seq}, coarsened |-> FALSE]
                     ELSE rows[s]]
       /\ last_seq' = seq
  /\ pc' = "idle" /\ incoming' = NoItem
  /\ UNCHANGED <<dropped, coarsened_count, merge, gone>>

Expired(horizon) == {s \in Seqs : rows[s].time < horizon}

Prune(horizon) ==
  /\ pc = "idle"
  /\ LET S == Expired(horizon) IN
       /\ S # {}
       /\ rows' = Without(S)
       /\ gone' = gone \cup Covered(S)
       /\ Count("spool_expired", Cardinality(S))
  /\ UNCHANGED <<last_seq, coarsened_count, pc, incoming, merge>>

\* drain: a peek, in sequence order
Drained == Oldest(Seqs, Batch)

Ack(S) ==
  /\ pc = "idle" /\ S # {}
  /\ rows' = Without(S)
  /\ gone' = gone \cup Covered(S)
  /\ UNCHANGED <<last_seq, memory>>

Discard(S, reason) ==
  /\ pc = "idle" /\ S # {}
  /\ rows' = Without(S)
  /\ gone' = gone \cup Covered(S)
  /\ Count(reason, Cardinality(S))
  /\ UNCHANGED <<last_seq, coarsened_count, pc, incoming, merge>>

\* power loss, then Spool.__init__ over the same file
Restart ==
  /\ dropped' = [r \in Reasons |-> 0]
  /\ coarsened_count' = 0
  /\ pc' = "idle" /\ incoming' = NoItem /\ merge' = NoMerge
  /\ UNCHANGED <<disk, gone>>

MakeRoom == CoarsenDelete \/ CoarsenUpdate \/ DropVictim \/ RefuseFull

Next ==
  \/ \E item \in Items : BeginEnqueue(item)
  \/ MakeRoom
  \/ Insert
  \/ \E horizon \in Horizons : Prune(horizon)
  \/ \E S \in SUBSET Drained : Ack(S) \/ Discard(S, "backfill_refused")
  \/ Restart

\* an enqueue in progress is straight-line code: it waits for nobody
Fairness == WF_vars(MakeRoom \/ Insert)

Spec == Init /\ [][Next]_vars /\ Fairness

----------------------------------------------------------------------------
(***************************************************************************)
(* Properties                                                              *)
(***************************************************************************)

\* Types of the tables, the counters and the enqueue in progress.
TypeOK ==
  /\ last_seq \in Nat
  /\ Seqs \subseteq 1..last_seq
  /\ rows \in [Seqs -> Row]
  /\ dropped \in [Reasons -> Nat]
  /\ coarsened_count \in Nat
  /\ pc \in {"idle", "room", "merge"}
  /\ incoming \in Items \cup {NoItem}
  /\ merge \in [head : Nat, count : Nat, covers : SUBSET Nat]
  /\ (pc = "idle") <=> (incoming = NoItem)
  /\ pc # "merge" => merge = NoMerge
  /\ pc = "merge" => merge.head \in Seqs
  /\ merge.covers \subseteq 1..last_seq /\ Covered(Seqs) \subseteq 1..last_seq
  /\ gone \subseteq 1..last_seq

\* The spool is bounded in bytes (spool.py:3) at every commit, so also for a
\* reader that opens the file after a crash in the middle of an enqueue.
CapacityBound == UsedBytes <= Capacity

\* A window's count is in one live record at most, and in none once it has
\* left: neither a merge, nor a crash inside one, nor a later drop, prune or
\* ack can deliver or shed the same count twice.
NoDoubleCount ==
  /\ \A s, t \in Seqs : s # t => rows[s].covers \cap rows[t].covers = {}
  /\ \A s \in Seqs : rows[s].covers \cap (gone \cup merge.covers) = {}
  /\ merge.covers \cap gone = {}

\* `seq` is monotonic across drains and boots (spool.py:107): a sequence number
\* that appears is above every number ever issued, whatever has been deleted.
SeqNeverReused ==
  [][/\ last_seq' >= last_seq
     /\ \A s \in Seqs' \ Seqs : s > last_seq /\ s <= last_seq']_vars

\* Overflow sheds in the canonical order (spool.py:3-7): a record dropped to make
\* room is no more important than the incoming record, and nothing cheaper than
\* it is left behind.  Aggregates coarsen before they are dropped (F14 R1): when
\* overflow takes one, no two aggregates of one metric are left to merge.
Overflowed(s) ==
  /\ pc = "room" /\ s \in Seqs \ Seqs'
  /\ rows[s].covers \subseteq gone'
ShedsInOrder ==
  [][\A s \in Seqs : Overflowed(s) =>
        /\ rows[s].prio >= incoming.prio
        /\ \A t \in Seqs' : rows[t].prio <= rows[s].prio
        /\ rows[s].prio <= AGGREGATE => GroupsOfTwo = {}]_vars

\* Windows whose count is nowhere: not live, not in a merge, never given up.
Lost == (1..last_seq) \ (Covered(Seqs) \cup merge.covers \cup gone)

\* The count of a window can vanish only in a restart that falls between the two
\* commits of a merge; every other step keeps each count accounted for.
LostOnlyInsideMerge ==
  [][Lost' # Lost => pc = "merge" /\ pc' = "idle" /\ Lost' = Lost \cup merge.covers]_vars

\* _make_room terminates: an enqueue that has begun ends, in an insert, in a
\* refusal or in a restart; every round of its loop removes a record.
EnqueueEnds == (pc # "idle") ~> (pc = "idle")

\* The spool keeps the WindowLedger promise.  Between the two commits of a merge
\* the windows already deleted are counted with the head they are bound for.
LiveWindows ==
  [s \in Seqs |-> rows[s].covers \cup (IF s = merge.head THEN merge.covers ELSE {})]
Ledger == INSTANCE WindowLedger WITH live <- LiveWindows, issued <- last_seq, left <- gone
KeepsLedger == Ledger!Spec

=============================================================================
