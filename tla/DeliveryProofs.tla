--------------------------- MODULE DeliveryProofs ---------------------------
(***************************************************************************)
(* Proofs about Delivery, for any kinds of envelope and policy bundles,    *)
(* any batch size, and however many records, messages and faults.          *)
(***************************************************************************)
EXTENDS Delivery, FiniteSetTheorems, SequenceTheorems, TLAPS

----------------------------------------------------------------------------
(* The invariant *)

\* TypeOK in four parts
SpoolTyped ==
  /\ issued \in 0..MaxSeq /\ Records \subseteq 1..issued /\ left \subseteq 1..issued
  /\ \A s \in Records : live[s] \subseteq 1..issued
  /\ kind \in Seq(Kinds) /\ Len(kind) = issued /\ given_up \subseteq 1..issued
PolicyTyped ==
  /\ active \in Bundles \cup {NoBundle} /\ enabled \in BOOLEAN
  /\ floor \in Nat /\ enforced \in Nat /\ faults \in 0..MaxFaults
WireTyped ==
  /\ tail \in {"none", "unended", "torn"}
  /\ glued \subseteq [seq : 0..MaxSeq, version : Nat]
  /\ audit \in Seq([seq : 0..MaxSeq, version : Nat])
  /\ t2 \in Seq(Envelope)
BatchTyped ==
  /\ pc \in {"idle", "loop", "judge", "send", "ack", "discard"}
  /\ env \in Envelope \cup {NoEnvelope} /\ (pc \in {"judge", "send"} <=> env # NoEnvelope)
  /\ pc # "discard" => todo \cup acked \cup undeliverable \subseteq Records
  /\ acked \cap undeliverable = {} /\ todo \cap (acked \cup undeliverable) = {}
  /\ pc \in {"idle", "ack", "discard"} => todo = {}
  /\ pc = "idle" => acked = {} /\ undeliverable = {}

\* A spooled record in _send is still in the spool, unchanged and on no list; a live
\* message finds the lists empty; what is to be discarded is still there.
InHand ==
  /\ env # NoEnvelope /\ env.backfill =>
       /\ env.seq \in Records \ (todo \cup acked \cup undeliverable)
       /\ env.covers = live[env.seq]
  /\ env # NoEnvelope /\ ~env.backfill => todo = {} /\ acked = {} /\ undeliverable = {}
  /\ undeliverable \subseteq Records

Typed == SpoolTyped /\ PolicyTyped /\ WireTyped /\ BatchTyped /\ InHand

\* The records of the batch that were taken from todo
Taken == acked \cup undeliverable \cup
           (IF env # NoEnvelope /\ env.backfill THEN {env.seq} ELSE {})

\* While records are sent, the batch is the head of the spool, taken in order.
HeadOfSpool ==
  pc \in {"loop", "judge", "send"} =>
    /\ \A s \in Taken \cup todo, r \in Records : r < s => r \in Taken \cup todo
    /\ \A s \in todo, r \in Taken : r < s

\* What was in force is not above the floor, until a write of the floor fails.
FloorHolds == enforced <= floor

\* What is about to be sent has just passed the bundle in force.
Judged ==
  pc = "send" => /\ active # NoBundle /\ enabled
                 /\ env.kind \in active.allows /\ env.version = active.version

\* Messages at T2 and rows of the log, of one record under one version
Sent(q, v) == {i \in DOMAIN t2 : t2[i].seq = q /\ t2[i].version = v}
Rows(q, v) == {i \in DOMAIN audit : audit[i] = [seq |-> q, version |-> v]}
OnItsWay(q, v) == IF pc = "send" /\ env.seq = q /\ env.version = v THEN 1 ELSE 0

\* The row that was glued to an unended one, if it is this one
Glued(q, v) == IF [seq |-> q, version |-> v] \in glued THEN 1 ELSE 0

\* The log, and the one row that was glued, are ahead of T2 by what is being sent.
LogLeads ==
  \A q, v \in Nat :
    Cardinality(Sent(q, v)) + OnItsWay(q, v) <= Cardinality(Rows(q, v)) + Glued(q, v)
GluedOnce == glued # {} => tail = "torn" /\ \E row \in glued : glued = {row}

\* The windows T2 has; nothing else is acked, and no other window is missing.
AtT2 == UNION {m.covers : m \in Received}
Accounted ==
  /\ 1..issued \subseteq In(Records) \cup AtT2 \cup given_up
  /\ pc # "discard" => \A s \in acked : live[s] \subseteq AtT2

----------------------------------------------------------------------------
(* Types *)

\* What one record counts has its type, and so has the envelope made of it.
LEMMA EnvelopeTyped ==
  ASSUME SpoolTyped, PolicyTyped, NEW s \in Records
  PROVE  /\ EnvelopeFor(s) \in Envelope /\ EnvelopeFor(s) # NoEnvelope
         /\ EnvelopeFor(s).seq = s /\ EnvelopeFor(s).covers = live[s]
         /\ EnvelopeFor(s).backfill
  <1> DEFINE version == IF active = NoBundle THEN 0 ELSE active.version
  <1>1. /\ s \in 0..MaxSeq /\ s \in 1..Len(kind) /\ live[s] \subseteq 1..MaxSeq
    BY DeliveryAssumption DEF SpoolTyped
  <1>2. kind[s] \in Kinds
    BY <1>1 DEF SpoolTyped
  <1>3. version \in {0} \cup {b.version : b \in Bundles}
    BY DEF PolicyTyped
  <1> HIDE DEF version
  <1>4. EnvelopeFor(s) = [seq |-> s, covers |-> live[s], kind |-> kind[s], backfill |-> TRUE,
                          version |-> version]
    BY DEF EnvelopeFor, version
  <1>5. EnvelopeFor(s) \in Envelope
    BY <1>1, <1>2, <1>3, <1>4 DEF Envelope
  <1>6. NoEnvelope \notin Envelope
    BY DeliveryAssumption
  <1>7. EnvelopeFor(s) # NoEnvelope
    BY <1>5, <1>6
  <1> QED BY <1>4, <1>5, <1>7

\* With the batch over, nothing is in hand.
LEMMA IdleTyped ==
  ASSUME pc' = "idle", env' = NoEnvelope, todo' = {}, acked' = {}, undeliverable' = {}
  PROVE  BatchTyped' /\ InHand'
  BY DEF BatchTyped, InHand

\* Between two batches that stays so.
LEMMA IdleStays ==
  ASSUME BatchTyped, pc = "idle", UNCHANGED batch
  PROVE  BatchTyped' /\ InHand'
  <1>1. /\ pc' = "idle" /\ env' = NoEnvelope /\ todo' = {} /\ acked' = {}
        /\ undeliverable' = {}
    BY DEF BatchTyped, batch
  <1> QED BY <1>1, IdleTyped

\* The initial states have their types.
LEMMA TypedInit == Init => Typed
  <1> SUFFICES ASSUME Init PROVE Typed
    OBVIOUS
  <1>0. /\ <<>> \in Seq(Kinds) /\ <<>> \in Seq(Envelope)
        /\ <<>> \in Seq([seq : 0..MaxSeq, version : Nat])
    OBVIOUS
  <1>1. SpoolTyped
    <2>1. issued = 0 /\ Records = {} /\ left = {} /\ given_up = {} /\ kind = <<>>
      BY DEF Init, Ledger!Init, Records
    <2> QED BY <1>0, <2>1, DeliveryAssumption DEF SpoolTyped
  <1>2. PolicyTyped /\ WireTyped
    <2>1. audit = <<>> /\ t2 = <<>> /\ tail = "none" /\ glued = {}
      BY DEF Init
    <2>2. WireTyped
      BY <1>0, <2>1 DEF WireTyped
    <2>3. active = NoBundle /\ enabled = FALSE /\ floor = 0 /\ enforced = 0 /\ faults = 0
      BY DEF Init
    <2>4. 0 \in 0..MaxFaults
      BY DeliveryAssumption
    <2>5. PolicyTyped
      BY <2>3, <2>4 DEF PolicyTyped
    <2> QED BY <2>2, <2>5
  <1>3. BatchTyped /\ InHand
    BY DEF Init, BatchTyped, InHand
  <1> QED BY <1>1, <1>2, <1>3 DEF Typed

\* Records that leave take their windows with them.
LEMMA LeaveTyped ==
  ASSUME SpoolTyped, NEW S \in SUBSET Records, Ledger!Leave(S), UNCHANGED kind,
         given_up' \subseteq given_up \cup In(S)
  PROVE  SpoolTyped' /\ Records' = Records \ S /\ \A r \in Records' : live'[r] = live[r]
  <1>1. /\ live' = [r \in Records \ S |-> live[r]] /\ issued' = issued
        /\ left' = left \cup Ledger!In(S)
    BY DEF Ledger!Leave, Ledger!Records, Records
  <1>2. Ledger!In(S) = In(S) /\ In(S) \subseteq 1..issued
    BY DEF Ledger!In, In, SpoolTyped
  <1>3. Records' = Records \ S /\ \A r \in Records' : live'[r] = live[r]
    BY <1>1 DEF Records
  <1> QED BY <1>1, <1>2, <1>3 DEF SpoolTyped

\* What is cut off the spool leaves the types of the rest.
LEMMA FewerTyped ==
  ASSUME SpoolTyped, NEW S, UNCHANGED <<issued, left, kind>>,
         live' = [r \in Records \ S |-> live[r]], given_up' \subseteq given_up \cup In(Records)
  PROVE  SpoolTyped'
  <1>1. Records' = Records \ S /\ \A r \in Records' : live'[r] = live[r]
    BY DEF Records
  <1>2. In(Records) \subseteq 1..issued
    BY DEF In, SpoolTyped
  <1> QED BY <1>1, <1>2 DEF SpoolTyped

\* Every step keeps the types of the spool.
LEMMA SpoolTypedNext == Typed /\ [Next]_vars => SpoolTyped'
  <1> SUFFICES ASSUME Typed, [Next]_vars PROVE SpoolTyped'
    OBVIOUS
  <1> USE DEF Typed
  <1>1. CASE UNCHANGED spool
    BY <1>1 DEF spool, SpoolTyped, Records
  <1>2. ASSUME NEW k \in Kinds, Enqueue(k) PROVE SpoolTyped'
    <2>1. /\ issued' = issued + 1 /\ issued < MaxSeq /\ kind' = Append(kind, k)
          /\ left' = left /\ given_up' = given_up
          /\ live' = [r \in Records \cup {issued + 1} |->
                        IF r = issued + 1 THEN {r} ELSE live[r]]
      BY <1>2 DEF Enqueue, Ledger!Admit, Ledger!Records, Records
    <2>2. issued \in Nat /\ issued' \in 0..MaxSeq /\ 1..issued \subseteq 1..issued'
      BY <2>1, DeliveryAssumption DEF SpoolTyped
    <2>3. kind' \in Seq(Kinds) /\ Len(kind') = issued'
      BY <2>1, AppendProperties DEF SpoolTyped
    <2>4. Records' = Records \cup {issued'} /\ issued' \in 1..issued'
      BY <2>1, <2>2 DEF Records
    <2>5. \A r \in Records' : live'[r] \subseteq 1..issued'
      BY <2>1, <2>2, <2>4 DEF SpoolTyped
    <2> QED BY <2>1, <2>2, <2>3, <2>4, <2>5 DEF SpoolTyped
  <1>3. ASSUME NEW S \in SUBSET Records, NEW head \in S, Coarsen(S, head) PROVE SpoolTyped'
    <2>1. /\ live' = [r \in (Records \ S) \cup {head} |-> IF r = head THEN In(S) ELSE live[r]]
          /\ UNCHANGED <<issued, left, kind, given_up>>
      BY <1>3 DEF Coarsen, Ledger!Fold, Ledger!Records, Ledger!In, Records, In
    <2>2. In(S) \subseteq 1..issued
      BY DEF In, SpoolTyped
    <2>3. Records' \subseteq Records /\ \A r \in Records' : live'[r] \subseteq 1..issued
      BY <2>1, <2>2 DEF Records, SpoolTyped
    <2> QED BY <2>1, <2>3 DEF SpoolTyped
  <1>4. ASSUME NEW S \in SUBSET Records, NEW head \in S, CoarsenCutShort(S, head)
        PROVE  SpoolTyped'
    <2>1. In(S \ {head}) \subseteq In(Records)
      BY DEF In
    <2> QED BY <1>4, <2>1, FewerTyped DEF CoarsenCutShort
  <1>5. ASSUME NEW s \in Records, Shed(s) PROVE SpoolTyped'
    <2>1. live[s] \subseteq In({s})
      BY DEF In
    <2> QED BY <1>5, <2>1, LeaveTyped DEF Shed
  <1>6. CASE Ack
    <2>1. acked \in SUBSET Records
      BY <1>6 DEF Ack, BatchTyped
    <2> QED BY <1>6, <2>1, LeaveTyped DEF Ack
  <1>7. CASE Discard
    BY <1>7, LeaveTyped DEF Discard, InHand
  <1>8. \/ UNCHANGED spool
        \/ \E k \in Kinds : Enqueue(k)
        \/ \E S \in SUBSET Records : \E head \in S : Coarsen(S, head) \/ CoarsenCutShort(S, head)
        \/ \E s \in Records : Shed(s)
        \/ Ack \/ Discard
    BY DEF Next, vars, SpoolStep, PolicyStep, LoadRefused, Load, LoadUnsaved, LoadCutShort, Publish,
           BeginBackfill, InBatch, Judge, TakeRecord, LoopEnds, Refuse, Accept, AcceptGlued,
           LogUnreadable, AppendRaises, WriteStops, SendStep, SendOK, SendFails, AcceptCutShort,
           PowerLoss
  <1> QED BY <1>1, <1>2, <1>3, <1>4, <1>5, <1>6, <1>7, <1>8

\* Every step keeps the types of the policy store and of the faults.
LEMMA PolicyTypedNext == Typed /\ [Next]_vars => PolicyTyped'
  <1> SUFFICES ASSUME Typed, [Next]_vars PROVE PolicyTyped'
    OBVIOUS
  <1> USE DEF Typed, PolicyTyped
  <1>1. CASE UNCHANGED policy /\ UNCHANGED faults
    BY <1>1 DEF policy
  <1>2. CASE Reboot /\ floor' \in {floor, 0} /\ enforced' \in {enforced, 0}
    <2>1. faults' \in 0..MaxFaults
      BY <1>2, DeliveryAssumption DEF Reboot
    <2>2. active' = NoBundle /\ enabled' = FALSE /\ floor' \in Nat /\ enforced' \in Nat
      BY <1>2 DEF Reboot
    <2>3. enabled' \in BOOLEAN
      BY <2>2
    <2> QED BY <2>1, <2>2, <2>3
  <1>3. ASSUME NEW b \in Bundles, Load(b) \/ LoadRefused(b) PROVE PolicyTyped'
    <2>1. b.version \in Nat
      BY DeliveryAssumption
    <2> QED BY <1>3, <2>1 DEF Load, LoadRefused, Highest
  <1>4. CASE SendFails \/ AppendRaises
    <2>1. faults' \in 0..MaxFaults /\ UNCHANGED policy
      BY <1>4, DeliveryAssumption DEF SendFails, AppendRaises
    <2> QED BY <2>1 DEF policy
  <1>6. ASSUME NEW b \in Bundles, LoadUnsaved(b) PROVE PolicyTyped'
    <2>1. faults' \in 0..MaxFaults
      BY <1>6, DeliveryAssumption DEF LoadUnsaved
    <2>2. active' = b /\ enabled' = TRUE /\ floor' \in {floor, 0} /\ enforced' = 0
      BY <1>6 DEF LoadUnsaved
    <2> QED BY <2>1, <2>2
  <1>5. \/ UNCHANGED policy /\ UNCHANGED faults
        \/ Reboot /\ floor' \in {floor, 0} /\ enforced' \in {enforced, 0}
        \/ \E b \in Bundles : Load(b) \/ LoadRefused(b)
        \/ \E b \in Bundles : LoadUnsaved(b)
        \/ SendFails \/ AppendRaises
    BY DEF Next, vars, SpoolStep, Enqueue, Coarsen, CoarsenCutShort, Shed, PolicyStep,
           LoadCutShort, Publish, BeginBackfill, InBatch, Judge, TakeRecord, LoopEnds, Refuse,
           Accept, AcceptGlued, LogUnreadable, SendStep, SendOK, Ack, Discard, AcceptCutShort,
           PowerLoss
  <1> QED BY <1>1, <1>2, <1>3, <1>4, <1>5, <1>6

\* A row of the log has its type.
LEMMA RowTyped ==
  ASSUME PolicyTyped, env \in Envelope
  PROVE  RowOf(env) \in [seq : 0..MaxSeq, version : Nat]
  <1>1. env.seq \in 0..MaxSeq /\ env.version \in Nat
    BY DeliveryAssumption DEF Envelope
  <1> QED BY <1>1 DEF RowOf

\* Every step keeps the types of the log and of what T2 has.
LEMMA WireTypedNext == Typed /\ [Next]_vars => WireTyped'
  <1> SUFFICES ASSUME Typed, [Next]_vars PROVE WireTyped'
    OBVIOUS
  <1> USE DEF Typed, WireTyped
  <1>1. CASE UNCHANGED t2 /\ UNCHANGED log
    BY <1>1 DEF log
  <1>2. CASE WriteStops /\ UNCHANGED t2
    BY <1>2 DEF WriteStops
  <1>6. CASE AcceptGlued
    <2>1. env \in Envelope
      BY <1>6 DEF AcceptGlued, BatchTyped
    <2>2. glued' \subseteq [seq : 0..MaxSeq, version : Nat]
      BY <1>6, <2>1, RowTyped DEF AcceptGlued
    <2> QED BY <1>6, <2>2 DEF AcceptGlued
  <1>3. CASE Accept
    <2>1. env \in Envelope
      BY <1>3 DEF Accept, BatchTyped
    <2>2. audit' \in Seq([seq : 0..MaxSeq, version : Nat])
      BY <1>3, <2>1, RowTyped, AppendProperties DEF Accept
    <2> QED BY <1>3, <2>2 DEF Accept
  <1>4. CASE SendStep
    <2>1. env \in Envelope
      BY <1>4 DEF SendStep, SendOK, SendFails, BatchTyped
    <2>2. t2' \in {t2, Append(t2, env)} /\ UNCHANGED log
      BY <1>4 DEF SendStep, SendOK, SendFails
    <2>3. Append(t2, env) \in Seq(Envelope)
      BY <2>1, AppendProperties
    <2>4. t2' \in Seq(Envelope)
      BY <2>2, <2>3
    <2> QED BY <2>2, <2>4 DEF log
  <1>5. \/ UNCHANGED t2 /\ UNCHANGED log
        \/ WriteStops /\ UNCHANGED t2
        \/ AcceptGlued \/ Accept \/ SendStep
    BY DEF Next, vars, SpoolStep, Enqueue, Coarsen, CoarsenCutShort, Shed, PolicyStep, LoadRefused,
           Load, LoadUnsaved, LoadCutShort, Publish, BeginBackfill, InBatch, Judge, TakeRecord,
           LoopEnds, Refuse, LogUnreadable, AppendRaises, Ack, Discard, AcceptCutShort, PowerLoss,
           Reboot
  <1> QED BY <1>1, <1>2, <1>3, <1>4, <1>5, <1>6

\* Every step keeps a batch in order: each record on one list, and in the spool.
LEMMA BatchTypedNext == Typed /\ [Next]_vars => BatchTyped' /\ InHand'
  <1> SUFFICES ASSUME Typed, [Next]_vars PROVE BatchTyped' /\ InHand'
    OBVIOUS
  <1> USE DEF Typed
  <1>1. CASE pc = "idle" /\ UNCHANGED batch
    BY <1>1, IdleStays
  <1>2. CASE Reboot
    BY <1>2, IdleTyped DEF Reboot
  <1>3. ASSUME NEW k \in Kinds, NEW b \in Bundles, Publish(k, b.version)
        PROVE  BatchTyped' /\ InHand'
    <2> DEFINE e == [seq |-> 0, covers |-> {}, kind |-> k, backfill |-> FALSE,
                     version |-> b.version]
    <2>1. e \in Envelope /\ e.backfill = FALSE
      BY DeliveryAssumption DEF Envelope
    <2>2. e # NoEnvelope
      BY <2>1, DeliveryAssumption
    <2>3. /\ env' = e /\ pc' = "judge" /\ pc = "idle"
          /\ UNCHANGED <<todo, acked, undeliverable>>
      BY <1>3 DEF Publish
    <2> HIDE DEF e
    <2> QED BY <2>1, <2>2, <2>3 DEF BatchTyped, InHand
  <1>4. CASE BeginBackfill
    <2>1. /\ todo' \subseteq Records /\ pc' = "loop" /\ pc = "idle"
          /\ UNCHANGED <<live, env, acked, undeliverable>>
      BY <1>4 DEF BeginBackfill, First, spool
    <2> QED BY <2>1 DEF BatchTyped, InHand, Records
  <1>5. CASE TakeRecord
    <2>1. PICK s \in Records : NextRecord(s) /\ env' = EnvelopeFor(s) /\ todo' = todo \ {s}
      BY <1>5 DEF TakeRecord
    <2>2. /\ env' \in Envelope /\ env' # NoEnvelope /\ env'.seq = s /\ env'.covers = live[s]
          /\ env'.backfill
      BY <2>1, EnvelopeTyped
    <2>3. pc = "loop" /\ pc' = "judge" /\ UNCHANGED <<live, acked, undeliverable>>
      BY <1>5 DEF TakeRecord, spool
    <2> QED BY <2>1, <2>2, <2>3 DEF BatchTyped, InHand, Records, NextRecord
  <1>6. CASE LoopEnds
    BY <1>6 DEF LoopEnds, spool, BatchTyped, InHand, Records
  <1>7. CASE Refuse
    <2>1. /\ pc = "judge" /\ env' = NoEnvelope /\ UNCHANGED <<live, todo, acked>>
          /\ pc' = IF env.backfill THEN "loop" ELSE "idle"
          /\ undeliverable' = IF env.backfill THEN undeliverable \cup {env.seq} ELSE undeliverable
      BY <1>7 DEF Refuse, Returned, spool
    <2> QED BY <2>1 DEF BatchTyped, InHand, Records
  <1>8. CASE Accept \/ AcceptGlued
    BY <1>8 DEF Accept, AcceptGlued, spool, BatchTyped, InHand, Records
  <1>9. CASE LogUnreadable \/ AppendRaises
    <2>1. /\ pc = "judge" /\ env' = NoEnvelope /\ todo' = {}
          /\ UNCHANGED <<live, acked, undeliverable>>
          /\ pc' = IF env.backfill THEN "ack" ELSE "idle"
      BY <1>9 DEF LogUnreadable, AppendRaises, WriteStops, Raised, spool
    <2> QED BY <2>1 DEF BatchTyped, InHand, Records
  <1>10. CASE SendOK
    <2>1. /\ pc = "send" /\ env' = NoEnvelope /\ UNCHANGED <<live, todo, undeliverable>>
          /\ pc' = IF env.backfill THEN "loop" ELSE "idle"
          /\ acked' = IF env.backfill THEN acked \cup {env.seq} ELSE acked
      BY <1>10 DEF SendOK, Returned, spool
    <2> QED BY <2>1 DEF BatchTyped, InHand, Records
  <1>11. CASE SendFails
    <2>1. /\ pc = "send" /\ env' = NoEnvelope /\ todo' = {}
          /\ UNCHANGED <<live, acked, undeliverable>>
          /\ pc' = IF env.backfill THEN "ack" ELSE "idle"
      BY <1>11 DEF SendFails, Raised, spool
    <2> QED BY <2>1 DEF BatchTyped, InHand, Records
  <1>12. CASE Ack
    <2>1. /\ pc = "ack" /\ pc' = "discard" /\ UNCHANGED <<env, todo, acked, undeliverable>>
          /\ Records' = Records \ acked
      BY <1>12 DEF Ack, Ledger!Leave, Ledger!Records, Records
    <2> QED BY <2>1 DEF BatchTyped, InHand
  <1>13. CASE Discard
    <2>1. /\ pc = "discard" /\ pc' = "idle" /\ acked' = {} /\ undeliverable' = {}
          /\ UNCHANGED <<env, todo>>
      BY <1>13 DEF Discard
    <2> QED BY <2>1, IdleTyped DEF BatchTyped
  <1>14. CASE UNCHANGED vars
    BY <1>14 DEF vars, spool, batch, BatchTyped, InHand, Records
  <1>15. \/ pc = "idle" /\ UNCHANGED batch
         \/ Reboot
         \/ \E k \in Kinds, b \in Bundles : Publish(k, b.version)
         \/ BeginBackfill \/ InBatch \/ UNCHANGED vars
    BY DEF Next, SpoolStep, Enqueue, Coarsen, CoarsenCutShort, Shed, PolicyStep, LoadRefused,
           Load, LoadUnsaved, LoadCutShort, AcceptCutShort, PowerLoss
  <1> QED BY <1>1, <1>2, <1>3, <1>4, <1>5, <1>6, <1>7, <1>8, <1>9, <1>10, <1>11, <1>12, <1>13,
             <1>14, <1>15 DEF InBatch, Judge, SendStep

\* Every step keeps the types.
LEMMA TypedNext == Typed /\ [Next]_vars => Typed'
  BY SpoolTypedNext, PolicyTypedNext, WireTypedNext, BatchTypedNext DEF Typed

\* Types; a record of a batch in progress is in the spool and on one list only.
THEOREM DeliveryTypes == Spec => []TypeOK
  <1>1. Typed => TypeOK
    BY DEF Typed, SpoolTyped, PolicyTyped, WireTyped, BatchTyped, TypeOK
  <1> QED BY <1>1, TypedInit, TypedNext, PTL DEF Spec

----------------------------------------------------------------------------
(* What is sent was judged *)

\* Every step leaves what is about to be sent judged by the bundle in force.
LEMMA JudgedNext == Typed /\ Judged /\ [Next]_vars => Judged'
  <1> SUFFICES ASSUME Typed, Judged, [Next]_vars, pc' = "send"
               PROVE  /\ active' # NoBundle /\ enabled'
                      /\ env'.kind \in active'.allows /\ env'.version = active'.version
    BY DEF Judged
  <1>1. CASE Accept \/ AcceptGlued
    BY <1>1 DEF Accept, AcceptGlued, Accepts, policy
  <1>2. CASE UNCHANGED vars
    BY <1>2 DEF vars, policy, batch, Judged
  <1>3. Accept \/ AcceptGlued \/ UNCHANGED vars
    BY DEF Next, SpoolStep, Enqueue, Coarsen, CoarsenCutShort, Shed, PolicyStep, LoadRefused, Load,
           LoadUnsaved, LoadCutShort, Publish, BeginBackfill, InBatch, Judge, TakeRecord, LoopEnds,
           Refuse, LogUnreadable, AppendRaises, WriteStops, SendStep, SendOK, SendFails, Ack,
           Discard, AcceptCutShort, PowerLoss, Reboot, Returned, Raised, batch
  <1> QED BY <1>1, <1>2, <1>3

\* The version in force stays within the floor.
LEMMA FloorHoldsNext == Typed /\ FloorHolds /\ [Next]_vars => FloorHolds'
  <1> SUFFICES ASSUME Typed, FloorHolds, [Next]_vars PROVE FloorHolds'
    OBVIOUS
  <1>0. floor \in Nat /\ enforced \in Nat /\ enforced <= floor
    BY DEF Typed, PolicyTyped, FloorHolds
  <1>1. CASE UNCHANGED <<floor, enforced>>
    BY <1>0, <1>1 DEF FloorHolds
  <1>2. CASE enforced' = 0 /\ floor' \in {floor, 0}
    BY <1>0, <1>2 DEF FloorHolds
  <1>3. ASSUME NEW b \in Bundles, Load(b) PROVE FloorHolds'
    <2>1. b.version \in Nat
      BY DeliveryAssumption
    <2> QED BY <1>0, <1>3, <2>1 DEF Load, Highest, FloorHolds
  <1>4. \/ UNCHANGED <<floor, enforced>>
        \/ enforced' = 0 /\ floor' \in {floor, 0}
        \/ \E b \in Bundles : Load(b)
    BY DEF Next, vars, SpoolStep, Enqueue, Coarsen, CoarsenCutShort, Shed, PolicyStep, LoadRefused,
           LoadUnsaved, LoadCutShort, Publish, BeginBackfill, InBatch, Judge, TakeRecord, LoopEnds,
           Refuse, Accept, AcceptGlued, LogUnreadable, AppendRaises, SendStep, SendOK, SendFails,
           Ack, Discard, AcceptCutShort, PowerLoss, policy
  <1> QED BY <1>1, <1>2, <1>3, <1>4

\* T2 receives only what the bundle in force lets out, under its version; only a verified
\* bundle comes into force, not below one in force before it; and what the floor remembers
\* of that is lost only in a failed write of it (egress_filter.py:evaluate, policy.py:load).
THEOREM PolicyGoverned == Spec => PolicyGoverns
  <1> DEFINE Governed ==
        /\ t2' # t2 => /\ active # NoBundle /\ enabled
                       /\ env.version = active.version /\ env.kind \in active.allows
        /\ active' # active /\ active' # NoBundle =>
             active'.valid /\ active'.version >= enforced
        /\ floor' < floor => \E b \in Bundles : LoadUnsaved(b) \/ LoadCutShort(b)
  <1>1. ASSUME Typed, Judged, FloorHolds, [Next]_vars PROVE [Governed]_vars
    <2> SUFFICES ASSUME Next PROVE Governed
      BY <1>1
    <2>1. ASSUME t2' # t2 PROVE pc = "send"
      BY <2>1 DEF Next, SpoolStep, Enqueue, Coarsen, CoarsenCutShort, Shed, PolicyStep,
             LoadRefused, Load, LoadUnsaved, LoadCutShort, Publish, BeginBackfill, InBatch, Judge,
             TakeRecord, LoopEnds, Refuse, Accept, AcceptGlued, LogUnreadable, AppendRaises,
             SendStep, SendOK, SendFails, Ack, Discard, AcceptCutShort, PowerLoss, Reboot
    <2>2. \/ UNCHANGED <<active, floor>>
          \/ active' = NoBundle /\ floor' = floor
          \/ \E b \in Bundles : LoadCutShort(b) \/ LoadUnsaved(b) \/ Load(b) \/ LoadRefused(b)
      BY DEF Next, SpoolStep, Enqueue, Coarsen, CoarsenCutShort, Shed, PolicyStep, Publish,
             BeginBackfill, InBatch, Judge, TakeRecord, LoopEnds, Refuse, Accept, AcceptGlued,
             LogUnreadable, AppendRaises, SendStep, SendOK, SendFails, Ack, Discard,
             AcceptCutShort, PowerLoss, Reboot, policy
    <2>3. floor \in Nat /\ enforced \in Nat /\ enforced <= floor
      BY <1>1 DEF Typed, PolicyTyped, FloorHolds
    <2>4. ASSUME NEW b \in Bundles, Load(b) \/ LoadUnsaved(b)
          PROVE  /\ active'.valid /\ active'.version >= enforced
                 /\ Load(b) => ~(floor' < floor)
      <3>1. b.version \in Nat
        BY DeliveryAssumption
      <3>2. active' = b /\ b.valid /\ b.version >= floor
        BY <2>4 DEF Load, LoadUnsaved, Verified
      <3>3. b.version >= enforced
        BY <2>3, <3>1, <3>2
      <3>4. Load(b) => floor' = Highest(floor, b.version)
        BY DEF Load
      <3>5. ~(Highest(floor, b.version) < floor)
        BY <2>3, <3>1 DEF Highest
      <3> QED BY <3>2, <3>3, <3>4, <3>5
    <2>5. ASSUME NEW b \in Bundles, LoadCutShort(b) \/ LoadRefused(b)
          PROVE  active' = NoBundle \/ active' = active
      BY <2>5 DEF LoadCutShort, LoadRefused, Reboot
    <2>6. ASSUME NEW b \in Bundles, LoadRefused(b) PROVE floor' = floor
      BY <2>6 DEF LoadRefused
    <2>7. active' # active /\ active' # NoBundle => active'.valid /\ active'.version >= enforced
      BY <2>2, <2>4, <2>5
    <2>8. floor' < floor => \E b \in Bundles : LoadUnsaved(b) \/ LoadCutShort(b)
      BY <2>2, <2>3, <2>4, <2>6
    <2> QED BY <1>1, <2>1, <2>7, <2>8 DEF Judged
  <1>2. Init => Judged /\ FloorHolds
    BY DEF Init, Judged, FloorHolds
  <1> QED BY <1>1, <1>2, TypedInit, TypedNext, JudgedNext, FloorHoldsNext, PTL
          DEF Spec, PolicyGoverns

----------------------------------------------------------------------------
(* The batch is the head of the spool *)

\* The first n of a set of sequence numbers: with each of them every smaller one.
LEMMA FirstIsAHead ==
  ASSUME NEW S \in SUBSET Nat, IsFiniteSet(S), NEW n \in Nat,
         NEW s \in First(S, n), NEW r \in S, r < s
  PROVE  r \in First(S, n)
  <1> DEFINE A == {t \in S : t < r}
             B == {t \in S : t < s}
  <1>1. A \in SUBSET B /\ B \in SUBSET S
    <2>1. s \in Nat /\ r \in Nat /\ \A t \in S : t \in Nat
      BY DEF First
    <2>2. \A t \in S : t < r => t < s
      BY <2>1
    <2> QED BY <2>2
  <1>2. s \in S /\ Cardinality(B) < n
    BY DEF First
  <1>3. r \in First(S, n) <=> Cardinality(A) < n
    BY DEF First
  <1> HIDE DEF A, B
  <1>4. IsFiniteSet(B)
    BY <1>1, FS_Subset
  <1>5. IsFiniteSet(A) /\ Cardinality(A) <= Cardinality(B)
    BY <1>1, <1>4, FS_Subset
  <1>6. Cardinality(A) \in Nat /\ Cardinality(B) \in Nat
    BY <1>4, <1>5, FS_CardinalityType
  <1> QED BY <1>2, <1>3, <1>5, <1>6

\* The spool is a finite set of sequence numbers.
LEMMA RecordsFinite == SpoolTyped => Records \in SUBSET Nat /\ IsFiniteSet(Records)
  <1> SUFFICES ASSUME SpoolTyped PROVE Records \in SUBSET Nat /\ IsFiniteSet(Records)
    OBVIOUS
  <1>1. issued \in Int /\ 1 \in Int /\ Records \in SUBSET (1..issued) /\ 1..issued \subseteq Nat
    BY DeliveryAssumption DEF SpoolTyped
  <1>2. IsFiniteSet(1..issued)
    BY <1>1, FS_Interval
  <1> QED BY <1>1, <1>2, FS_Subset

\* Every step of a batch takes the next record, or puts the one in hand on a list.
LEMMA HeadNext == Typed /\ HeadOfSpool /\ [Next]_vars => HeadOfSpool'
  <1> SUFFICES ASSUME Typed, HeadOfSpool, [Next]_vars, pc' \in {"loop", "judge", "send"}
               PROVE  /\ \A s \in (Taken \cup todo)', r \in Records' :
                           r < s => r \in (Taken \cup todo)'
                      /\ \A s \in todo', r \in Taken' : r < s
    BY DEF HeadOfSpool
  <1>0. Records \in SUBSET Nat
    BY RecordsFinite DEF Typed
  <1>1. CASE BeginBackfill
    <2>1. /\ todo' = First(Records, Batch) /\ Records' = Records /\ Taken' = {}
      BY <1>1 DEF BeginBackfill, spool, Records, Taken, Typed, BatchTyped
    <2>2. \A s \in todo', r \in Records' : r < s => r \in todo'
      BY <2>1, FirstIsAHead, RecordsFinite, DeliveryAssumption DEF Typed
    <2> QED BY <2>1, <2>2
  <1>2. CASE TakeRecord
    <2>1. PICK s \in Records : NextRecord(s) /\ env' = EnvelopeFor(s) /\ todo' = todo \ {s}
      BY <1>2 DEF TakeRecord
    <2>2. env' # NoEnvelope /\ env'.seq = s /\ env'.backfill
      BY <2>1, EnvelopeTyped DEF Typed
    <2>3. pc = "loop" /\ UNCHANGED <<live, acked, undeliverable>> /\ env = NoEnvelope
      BY <1>2 DEF TakeRecord, spool, Typed, BatchTyped
    <2>4. Taken' = Taken \cup {s} /\ s \in todo /\ Records' = Records
          /\ (\A t \in todo : s <= t) /\ todo \subseteq Records
      BY <2>1, <2>2, <2>3 DEF Taken, NextRecord, Records, Typed, BatchTyped
    <2>5. (Taken \cup todo)' = Taken \cup todo
      BY <2>1, <2>4
    <2>6. \A t \in todo' : s < t
      BY <1>0, <2>1, <2>4
    <2> QED BY <2>1, <2>3, <2>4, <2>5, <2>6 DEF HeadOfSpool
  <1>3. ASSUME pc \in {"judge", "send"}, env # NoEnvelope, env.backfill, env' = NoEnvelope,
               UNCHANGED <<live, todo>>,
               acked' \cup undeliverable' = acked \cup undeliverable \cup {env.seq}
        PROVE  Taken' = Taken /\ Records' = Records
    BY <1>3 DEF Taken, Records
  <1>4. CASE Refuse \/ SendOK
    <2>1. /\ pc \in {"judge", "send"} /\ env # NoEnvelope /\ env' = NoEnvelope
          /\ env.backfill /\ UNCHANGED <<live, todo>>
          /\ acked' \cup undeliverable' = acked \cup undeliverable \cup {env.seq}
      BY <1>4 DEF Refuse, SendOK, Returned, spool, Typed, BatchTyped
    <2>2. Taken' = Taken /\ Records' = Records
      BY <1>3, <2>1
    <2> QED BY <2>1, <2>2 DEF HeadOfSpool
  <1>5. CASE Accept \/ AcceptGlued
    BY <1>5 DEF Accept, AcceptGlued, spool, HeadOfSpool, Taken, Records
  <1>6. ASSUME NEW k \in Kinds, NEW b \in Bundles, Publish(k, b.version)
        PROVE  Taken' \cup todo' = {}
    <2>1. /\ env'.backfill = FALSE /\ pc = "idle"
          /\ UNCHANGED <<todo, acked, undeliverable>>
      BY <1>6 DEF Publish
    <2>2. todo = {} /\ acked = {} /\ undeliverable = {}
      BY <2>1 DEF Typed, BatchTyped
    <2> QED BY <2>1, <2>2 DEF Taken
  <1>7. CASE UNCHANGED vars
    BY <1>7 DEF vars, spool, batch, HeadOfSpool, Taken, Records
  <1>8. \/ BeginBackfill \/ TakeRecord \/ Refuse \/ SendOK \/ Accept \/ AcceptGlued
        \/ UNCHANGED vars
        \/ \E k \in Kinds, b \in Bundles : Publish(k, b.version)
    BY DEF Next, SpoolStep, Enqueue, Coarsen, CoarsenCutShort, Shed, PolicyStep, LoadRefused, Load,
           LoadUnsaved, LoadCutShort, InBatch, Judge, LoopEnds, LogUnreadable, AppendRaises,
           WriteStops, SendStep, SendFails, Ack, Discard, AcceptCutShort, PowerLoss, Reboot, Raised,
           batch
  <1> QED BY <1>1, <1>2, <1>4, <1>5, <1>6, <1>7, <1>8

\* A spooled record is sent only after every older one that is still in the spool.
THEOREM BatchNeverAhead == Spec => NeverAhead
  <1> DEFINE InTurn == t2' # t2 /\ env.backfill =>
                         \A r \in Records : r < env.seq => r \in acked \cup undeliverable
  <1>1. ASSUME Typed, HeadOfSpool, [Next]_vars PROVE [InTurn]_vars
    <2> SUFFICES ASSUME Next, t2' # t2, env.backfill, NEW r \in Records, r < env.seq
                 PROVE  r \in acked \cup undeliverable
      BY <1>1
    <2>1. pc = "send"
      BY DEF Next, SpoolStep, Enqueue, Coarsen, CoarsenCutShort, Shed, PolicyStep, LoadRefused,
             Load, LoadUnsaved, LoadCutShort, Publish, BeginBackfill, InBatch, Judge, TakeRecord,
             LoopEnds, Refuse, Accept, AcceptGlued, LogUnreadable, AppendRaises, WriteStops,
             SendStep, SendOK, SendFails, Ack, Discard, AcceptCutShort, PowerLoss, Reboot
    <2>2. env # NoEnvelope /\ env.seq \in Records /\ r \in Nat /\ env.seq \in Nat
      BY <1>1, <2>1, RecordsFinite DEF Typed, BatchTyped, InHand
    <2>3. env.seq \in Taken /\ Taken = acked \cup undeliverable \cup {env.seq}
      BY <2>2 DEF Taken
    <2>4. r \in Taken \cup todo
      BY <1>1, <2>1, <2>3 DEF HeadOfSpool
    <2>5. r \notin todo
      BY <1>1, <2>1, <2>2, <2>3 DEF HeadOfSpool
    <2> QED BY <2>2, <2>3, <2>4, <2>5
  <1>2. Init => HeadOfSpool
    BY DEF Init, HeadOfSpool
  <1> QED BY <1>1, <1>2, TypedInit, TypedNext, HeadNext, PTL DEF Spec, NeverAhead

----------------------------------------------------------------------------
(* Every message has its row *)

\* An envelope has numbers.
LEMMA EnvelopeNumbers ==
  \A e \in Envelope : e.seq \in 0..MaxSeq /\ e.seq \in Nat /\ e.version \in Nat
  <1> SUFFICES ASSUME NEW e \in Envelope
               PROVE  e.seq \in 0..MaxSeq /\ e.seq \in Nat /\ e.version \in Nat
    OBVIOUS
  <1>1. e.seq \in 0..MaxSeq /\ e.version \in {0} \cup {b.version : b \in Bundles}
    BY DEF Envelope
  <1>2. \A b \in Bundles : b.version \in Nat
    BY DeliveryAssumption
  <1> QED BY <1>1, <1>2, DeliveryAssumption

\* Messages and rows are counted, and there are finitely many.
LEMMA CountsFinite ==
  ASSUME WireTyped, NEW q, NEW v
  PROVE  /\ IsFiniteSet(Sent(q, v)) /\ Cardinality(Sent(q, v)) \in Nat
         /\ IsFiniteSet(Rows(q, v)) /\ Cardinality(Rows(q, v)) \in Nat
  <1>1. /\ Sent(q, v) \in SUBSET (1..Len(t2)) /\ Len(t2) \in Int /\ 1 \in Int
        /\ Rows(q, v) \in SUBSET (1..Len(audit)) /\ Len(audit) \in Int
    BY LenProperties DEF Sent, Rows, WireTyped
  <1>2. IsFiniteSet(1..Len(t2)) /\ IsFiniteSet(1..Len(audit))
    BY <1>1, FS_Interval
  <1>3. IsFiniteSet(Sent(q, v)) /\ IsFiniteSet(Rows(q, v))
    BY <1>1, <1>2, FS_Subset
  <1> QED BY <1>3, FS_CardinalityType

\* One more message is one more of its record and version.
LEMMA OneMoreSent ==
  ASSUME WireTyped, NEW e \in Envelope, t2' = Append(t2, e), NEW q, NEW v
  PROVE  Cardinality(Sent(q, v)') =
           Cardinality(Sent(q, v)) + (IF e.seq = q /\ e.version = v THEN 1 ELSE 0)
  <1> DEFINE n == Len(t2) + 1
  <1>1. t2 \in Seq(Envelope) /\ Len(t2) \in Nat
    BY LenProperties DEF WireTyped
  <1>2. /\ DOMAIN t2' = 1..n /\ DOMAIN t2 = 1..Len(t2)
        /\ t2'[n] = e /\ \A i \in 1..Len(t2) : t2'[i] = t2[i]
    BY <1>1, AppendProperties, LenProperties
  <1>3. n \notin Sent(q, v) /\ 1..n = 1..Len(t2) \cup {n}
    BY <1>1, <1>2 DEF Sent
  <1>4. IsFiniteSet(Sent(q, v)) /\ Cardinality(Sent(q, v)) \in Nat
    BY CountsFinite
  <1>5. CASE e.seq = q /\ e.version = v
    <2>1. Sent(q, v)' = Sent(q, v) \cup {n}
      BY <1>2, <1>3, <1>5 DEF Sent
    <2> HIDE DEF n
    <2>2. Cardinality(Sent(q, v) \cup {n}) = Cardinality(Sent(q, v)) + 1
      BY <1>3, <1>4, FS_AddElement
    <2> QED BY <1>5, <2>1, <2>2
  <1>6. CASE ~(e.seq = q /\ e.version = v)
    <2>1. Sent(q, v)' = Sent(q, v)
      BY <1>2, <1>3, <1>6 DEF Sent
    <2> QED BY <1>4, <1>6, <2>1
  <1> QED BY <1>5, <1>6

\* One more row is one more of its record and version.
LEMMA OneMoreRow ==
  ASSUME WireTyped, NEW x \in 0..MaxSeq, NEW y \in Nat, NEW q \in Nat, NEW v \in Nat,
         audit' = Append(audit, [seq |-> x, version |-> y])
  PROVE  Cardinality(Rows(q, v)') =
           Cardinality(Rows(q, v)) + (IF x = q /\ y = v THEN 1 ELSE 0)
  <1> DEFINE n == Len(audit) + 1
             row == [seq |-> x, version |-> y]
  <1>1. /\ audit \in Seq([seq : 0..MaxSeq, version : Nat]) /\ Len(audit) \in Nat
        /\ row \in [seq : 0..MaxSeq, version : Nat]
    BY LenProperties DEF WireTyped
  <1>2. row = [seq |-> q, version |-> v] <=> x = q /\ y = v
    OBVIOUS
  <1> HIDE DEF row
  <1>3. /\ DOMAIN audit' = 1..n /\ DOMAIN audit = 1..Len(audit)
        /\ audit'[n] = row /\ \A i \in 1..Len(audit) : audit'[i] = audit[i]
    BY <1>1, AppendProperties, LenProperties DEF row
  <1>4. n \notin Rows(q, v) /\ 1..n = 1..Len(audit) \cup {n}
    BY <1>1, <1>3 DEF Rows
  <1>5. IsFiniteSet(Rows(q, v)) /\ Cardinality(Rows(q, v)) \in Nat
    BY CountsFinite
  <1>6. CASE x = q /\ y = v
    <2>1. Rows(q, v)' = Rows(q, v) \cup {n}
      BY <1>2, <1>3, <1>4, <1>6 DEF Rows
    <2> HIDE DEF n
    <2> QED BY <1>4, <1>5, <1>6, <2>1, FS_AddElement
  <1>7. CASE ~(x = q /\ y = v)
    <2>1. Rows(q, v)' = Rows(q, v)
      BY <1>2, <1>3, <1>4, <1>7 DEF Rows
    <2> QED BY <1>5, <1>7, <2>1
  <1> QED BY <1>6, <1>7

\* One row at most is ever glued, for nothing is appended to a torn log.
LEMMA GluedOnceNext == GluedOnce /\ [Next]_vars => GluedOnce'
  <1> SUFFICES ASSUME GluedOnce, [Next]_vars PROVE GluedOnce'
    OBVIOUS
  <1>1. CASE UNCHANGED log
    BY <1>1 DEF log, GluedOnce
  <1>2. CASE AcceptGlued
    BY <1>2 DEF AcceptGlued, GluedOnce
  <1>3. CASE tail # "torn" /\ UNCHANGED glued
    BY <1>3 DEF GluedOnce
  <1>4. UNCHANGED log \/ AcceptGlued \/ (tail # "torn" /\ UNCHANGED glued)
    BY DEF Next, vars, SpoolStep, Enqueue, Coarsen, CoarsenCutShort, Shed, PolicyStep, LoadRefused,
           Load, LoadUnsaved, LoadCutShort, Publish, BeginBackfill, InBatch, Judge, TakeRecord,
           LoopEnds, Refuse, Accept, LogUnreadable, AppendRaises, WriteStops, SendStep, SendOK,
           SendFails, Ack, Discard, AcceptCutShort, PowerLoss
  <1> QED BY <1>1, <1>2, <1>3, <1>4

\* Every step leaves the log, with what was glued, ahead of T2 by what is being sent.
LEMMA LogLeadsNext == Typed /\ LogLeads /\ GluedOnce /\ [Next]_vars => LogLeads'
  <1> SUFFICES ASSUME Typed, LogLeads, GluedOnce, [Next]_vars, NEW q \in Nat, NEW v \in Nat
               PROVE  Cardinality(Sent(q, v)') + OnItsWay(q, v)' <=
                        Cardinality(Rows(q, v)') + Glued(q, v)'
    BY DEF LogLeads
  <1>0. /\ WireTyped /\ Cardinality(Sent(q, v)) \in Nat /\ Cardinality(Rows(q, v)) \in Nat
        /\ Glued(q, v) \in {0, 1}
        /\ Cardinality(Sent(q, v)) + OnItsWay(q, v) <= Cardinality(Rows(q, v)) + Glued(q, v)
    BY CountsFinite DEF Typed, LogLeads, Glued
  <1>1. CASE UNCHANGED <<t2, audit, glued>> /\ pc' # "send"
    <2>1. /\ Sent(q, v)' = Sent(q, v) /\ Rows(q, v)' = Rows(q, v) /\ OnItsWay(q, v)' = 0
          /\ Glued(q, v)' = Glued(q, v)
      BY <1>1 DEF Sent, Rows, OnItsWay, Glued
    <2>2. OnItsWay(q, v) \in {0, 1}
      BY DEF OnItsWay
    <2> QED BY <1>0, <2>1, <2>2
  <1>2. CASE UNCHANGED <<t2, audit, glued, pc, env>>
    BY <1>0, <1>2 DEF Sent, Rows, OnItsWay, Glued
  <1>3. CASE Accept \/ AcceptGlued
    <2> DEFINE here == IF env.seq = q /\ env.version = v THEN 1 ELSE 0
    <2>1. pc = "judge" /\ pc' = "send" /\ UNCHANGED <<t2, env>>
      BY <1>3 DEF Accept, AcceptGlued
    <2>2. env.seq \in 0..MaxSeq /\ env.version \in Nat
      BY <2>1, EnvelopeNumbers DEF Typed, BatchTyped
    <2>3. OnItsWay(q, v)' = here /\ OnItsWay(q, v) = 0 /\ Sent(q, v)' = Sent(q, v)
      BY <2>1 DEF OnItsWay, Sent
    <2>4. CASE Accept
      <3>1. audit' = Append(audit, [seq |-> env.seq, version |-> env.version])
            /\ UNCHANGED glued
        BY <2>4 DEF Accept, RowOf
      <3>2. Cardinality(Rows(q, v)') = Cardinality(Rows(q, v)) + here
        BY <1>0, <2>2, <3>1, OneMoreRow
      <3>3. Glued(q, v)' = Glued(q, v) /\ here \in {0, 1}
        BY <3>1 DEF Glued
      <3> HIDE DEF here
      <3> QED BY <1>0, <2>3, <3>2, <3>3
    <2>5. CASE AcceptGlued
      <3>1. /\ glued = {} /\ glued' = {[seq |-> env.seq, version |-> env.version]}
            /\ UNCHANGED audit
        BY <2>5 DEF AcceptGlued, GluedOnce, RowOf
      <3>2. Glued(q, v) = 0 /\ Glued(q, v)' = here /\ Rows(q, v)' = Rows(q, v)
        BY <3>1 DEF Glued, Rows
      <3>3. here \in {0, 1}
        OBVIOUS
      <3> HIDE DEF here
      <3> QED BY <1>0, <2>3, <3>2, <3>3
    <2> QED BY <1>3, <2>4, <2>5
  <1>4. CASE SendStep
    <2>1. /\ pc = "send" /\ pc' # "send" /\ UNCHANGED <<audit, glued>>
          /\ t2' \in {t2, Append(t2, env)}
      BY <1>4 DEF SendStep, SendOK, SendFails, Returned, Raised, log
    <2>2. env \in Envelope
      BY <2>1 DEF Typed, BatchTyped
    <2>3. CASE t2' = t2
      BY <1>1, <2>1, <2>3
    <2>4. CASE t2' = Append(t2, env)
      <3>1. Cardinality(Sent(q, v)') = Cardinality(Sent(q, v)) + OnItsWay(q, v)
        BY <1>0, <2>1, <2>2, <2>4, OneMoreSent DEF OnItsWay
      <3>2. Rows(q, v)' = Rows(q, v) /\ OnItsWay(q, v)' = 0 /\ Glued(q, v)' = Glued(q, v)
        BY <2>1 DEF Rows, OnItsWay, Glued
      <3>3. OnItsWay(q, v) \in {0, 1}
        BY DEF OnItsWay
      <3> QED BY <1>0, <3>1, <3>2, <3>3
    <2> QED BY <2>1, <2>3, <2>4
  <1>5. \/ UNCHANGED <<t2, audit, glued>> /\ pc' # "send"
        \/ UNCHANGED <<t2, audit, glued, pc, env>>
        \/ Accept \/ AcceptGlued \/ SendStep
    BY DEF Next, vars, SpoolStep, Enqueue, Coarsen, CoarsenCutShort, Shed, PolicyStep, LoadRefused,
           Load, LoadUnsaved, LoadCutShort, Publish, BeginBackfill, InBatch, Judge, TakeRecord,
           LoopEnds, Refuse, LogUnreadable, AppendRaises, WriteStops, Ack, Discard, AcceptCutShort,
           PowerLoss, Reboot, Returned, Raised, log, batch
  <1> QED BY <1>1, <1>2, <1>3, <1>4, <1>5

\* Each message T2 ever receives, retries and repeats included, has a row of its own in the
\* log, under the version it claims, for the row is appended before anything is sent; but for
\* one message, whose row was glued to a line without its newline.
THEOREM DeliveriesChained == Spec => []EveryDeliveryChained
  <1>1. Init => LogLeads /\ GluedOnce
    <2> SUFFICES ASSUME Init, NEW q \in Nat, NEW v \in Nat
                 PROVE  /\ Cardinality(Sent(q, v)) + OnItsWay(q, v) <=
                             Cardinality(Rows(q, v)) + Glued(q, v)
                        /\ glued = {}
      BY DEF LogLeads, GluedOnce, Init
    <2>1. /\ Sent(q, v) = {} /\ Rows(q, v) = {} /\ OnItsWay(q, v) = 0 /\ Glued(q, v) = 0
          /\ glued = {}
      BY DEF Init, Sent, Rows, OnItsWay, Glued
    <2> QED BY <2>1, FS_EmptySet
  <1>2. ASSUME Typed, LogLeads, GluedOnce PROVE EveryDeliveryChained
    <2>1. ASSUME NEW m \in Received
          PROVE  Cardinality({i \in DOMAIN t2 : RowOf(t2[i]) = RowOf(m)}) <=
                   Cardinality({i \in DOMAIN audit : audit[i] = RowOf(m)}) +
                     (IF RowOf(m) \in glued THEN 1 ELSE 0)
      <3>1. m \in Envelope
        BY <1>2, <2>1 DEF Typed, WireTyped, Received
      <3>2. m.seq \in Nat /\ m.version \in Nat
        BY <3>1, EnvelopeNumbers
      <3>3. /\ OnItsWay(m.seq, m.version) \in {0, 1} /\ Glued(m.seq, m.version) \in {0, 1}
        BY DEF OnItsWay, Glued
      <3>4. /\ Cardinality(Sent(m.seq, m.version)) \in Nat
            /\ Cardinality(Rows(m.seq, m.version)) \in Nat
        BY <1>2, CountsFinite DEF Typed
      <3>5. Cardinality(Sent(m.seq, m.version)) <=
              Cardinality(Rows(m.seq, m.version)) + Glued(m.seq, m.version)
        BY <1>2, <3>2, <3>3, <3>4 DEF LogLeads
      <3>6. {i \in DOMAIN t2 : RowOf(t2[i]) = RowOf(m)} = Sent(m.seq, m.version)
        BY DEF Sent, RowOf
      <3> QED BY <3>5, <3>6 DEF Rows, Glued, RowOf
    <2> QED BY <1>2, <2>1 DEF EveryDeliveryChained, GluedOnce
  <1> QED BY <1>1, <1>2, TypedInit, TypedNext, LogLeadsNext, GluedOnceNext, PTL DEF Spec

----------------------------------------------------------------------------
(* No window is lost in silence *)

\* What T2 has, it keeps; and one more message is what that one covers.
LEMMA AtT2Grows ==
  ASSUME WireTyped, NEW e \in Envelope, t2' \in {t2, Append(t2, e)}
  PROVE  AtT2 \subseteq AtT2' /\ (t2' = Append(t2, e) => e.covers \subseteq AtT2')
  <1>1. CASE t2' = t2 /\ t2' # Append(t2, e)
    BY <1>1 DEF AtT2, Received
  <1>2. CASE t2' = Append(t2, e)
    <2>1. t2 \in Seq(Envelope) /\ Len(t2) \in Nat
      BY LenProperties DEF WireTyped
    <2>2. /\ DOMAIN t2' = 1..(Len(t2) + 1) /\ DOMAIN t2 = 1..Len(t2)
          /\ t2'[Len(t2) + 1] = e /\ \A i \in 1..Len(t2) : t2'[i] = t2[i]
      BY <1>2, <2>1, AppendProperties, LenProperties
    <2>3. Received \subseteq Received' /\ e \in Received'
      BY <2>1, <2>2 DEF Received
    <2> QED BY <2>3 DEF AtT2
  <1> QED BY <1>1, <1>2

\* What a set of records that goes takes out of the spool is what they counted.
LEMMA WhatLeaves ==
  ASSUME NEW S, live' = [r \in Records \ S |-> live[r]]
  PROVE  In(Records) \subseteq In(Records)' \cup In(Records \cap S)
  <1>1. Records' = Records \ S /\ \A r \in Records' : live'[r] = live[r]
    BY DEF Records
  <1> QED BY <1>1 DEF In

\* Every step keeps every window accounted for.
LEMMA AccountedNext == Typed /\ Accounted /\ [Next]_vars => Accounted'
  <1> SUFFICES ASSUME Typed, Accounted, [Next]_vars PROVE Accounted'
    OBVIOUS
  <1>0. 1..issued \subseteq In(Records) \cup AtT2 \cup given_up
    BY DEF Accounted
  <1>1. ASSUME UNCHANGED spool, AtT2 \subseteq AtT2',
               pc' # "discard" => \A s \in acked' : live[s] \subseteq AtT2'
        PROVE  Accounted'
    <2>1. In(Records)' = In(Records)
      BY <1>1 DEF In, Records, spool
    <2> QED BY <1>0, <1>1, <2>1 DEF Accounted, spool
  <1>2. ASSUME UNCHANGED t2 PROVE AtT2' = AtT2
    BY <1>2 DEF AtT2, Received
  <1>3. ASSUME UNCHANGED <<issued, t2>>, pc' # "discard" => acked' = {},
               In(Records) \subseteq In(Records)' \cup AtT2 \cup given_up',
               given_up \subseteq given_up'
        PROVE  Accounted'
    BY <1>0, <1>2, <1>3 DEF Accounted
  <1>4. ASSUME NEW k \in Kinds, Enqueue(k) PROVE Accounted'
    <2>1. /\ issued' = issued + 1 /\ UNCHANGED <<t2, given_up, acked>> /\ pc = "idle"
          /\ live' = [r \in Records \cup {issued + 1} |->
                        IF r = issued + 1 THEN {r} ELSE live[r]]
      BY <1>4 DEF Enqueue, Ledger!Admit, Ledger!Records, Records, batch
    <2>2. /\ issued \in Nat /\ Records \subseteq 1..issued /\ acked = {}
      BY <2>1, DeliveryAssumption DEF Typed, SpoolTyped, BatchTyped
    <2>3. Records' = Records \cup {issued + 1} /\ issued + 1 \notin Records
      BY <2>1, <2>2 DEF Records
    <2>4. live'[issued + 1] = {issued + 1} /\ \A r \in Records : live'[r] = live[r]
      BY <2>1, <2>3
    <2>5. In(Records) \cup {issued + 1} \subseteq In(Records)'
      BY <2>3, <2>4 DEF In
    <2>6. 1..issued' = 1..issued \cup {issued + 1}
      BY <2>1, <2>2
    <2> QED BY <1>0, <1>2, <2>1, <2>2, <2>5, <2>6 DEF Accounted
  <1>5. ASSUME NEW S \in SUBSET Records, NEW head \in S, Coarsen(S, head) PROVE Accounted'
    <2>1. /\ live' = [r \in (Records \ S) \cup {head} |-> IF r = head THEN In(S) ELSE live[r]]
          /\ UNCHANGED <<issued, given_up, t2, acked>> /\ pc = "idle"
      BY <1>5 DEF Coarsen, Ledger!Fold, Ledger!Records, Ledger!In, Records, In, batch
    <2>2. Records' = (Records \ S) \cup {head}
      BY <2>1 DEF Records
    <2>3. live'[head] = In(S) /\ \A r \in Records \ S : live'[r] = live[r]
      BY <2>1
    <2>4. In(Records) \subseteq In(Records)'
      BY <2>2, <2>3 DEF In
    <2>5. acked' = {}
      BY <2>1 DEF Typed, BatchTyped
    <2> QED BY <1>3, <2>1, <2>4, <2>5
  <1>6. ASSUME NEW S \in SUBSET Records, NEW head \in S, CoarsenCutShort(S, head)
        PROVE  Accounted'
    <2>1. /\ live' = [r \in Records \ (S \ {head}) |-> live[r]]
          /\ given_up' = given_up \cup In(S \ {head}) /\ UNCHANGED <<issued, t2>> /\ acked' = {}
      BY <1>6 DEF CoarsenCutShort, Reboot
    <2>2. In(Records) \subseteq In(Records)' \cup In(Records \cap (S \ {head}))
      BY <2>1, WhatLeaves
    <2>3. Records \cap (S \ {head}) = S \ {head}
      OBVIOUS
    <2> QED BY <1>3, <2>1, <2>2, <2>3
  <1>7. ASSUME NEW s \in Records, Shed(s) PROVE Accounted'
    <2>1. /\ live' = [r \in Records \ {s} |-> live[r]] /\ given_up' = given_up \cup live[s]
          /\ UNCHANGED <<issued, t2, acked>> /\ pc = "idle"
      BY <1>7 DEF Shed, Ledger!Leave, Ledger!Records, Records, batch
    <2>2. In(Records) \subseteq In(Records)' \cup In(Records \cap {s})
      BY <2>1, WhatLeaves
    <2>3. In(Records \cap {s}) = live[s]
      BY DEF In
    <2>4. acked' = {}
      BY <2>1 DEF Typed, BatchTyped
    <2> QED BY <1>3, <2>1, <2>2, <2>3, <2>4
  <1>8. CASE Ack
    <2>1. /\ live' = [r \in Records \ acked |-> live[r]] /\ pc' = "discard" /\ pc = "ack"
          /\ UNCHANGED <<issued, given_up, t2>>
      BY <1>8 DEF Ack, Ledger!Leave, Ledger!Records, Records
    <2>2. In(Records) \subseteq In(Records)' \cup In(Records \cap acked)
      BY <2>1, WhatLeaves
    <2>3. In(Records \cap acked) \subseteq AtT2
      BY <2>1 DEF Accounted, In
    <2> QED BY <1>3, <2>1, <2>2, <2>3
  <1>9. CASE Discard
    <2>1. /\ live' = [r \in Records \ undeliverable |-> live[r]] /\ acked' = {}
          /\ given_up' = given_up \cup In(undeliverable) /\ UNCHANGED <<issued, t2>>
      BY <1>9 DEF Discard, Ledger!Leave, Ledger!Records, Records
    <2>2. In(Records) \subseteq In(Records)' \cup In(Records \cap undeliverable)
      BY <2>1, WhatLeaves
    <2>3. In(Records \cap undeliverable) \subseteq In(undeliverable)
      BY DEF In
    <2> QED BY <1>3, <2>1, <2>2, <2>3
  <1>10. CASE SendStep
    <2>1. /\ pc = "send" /\ UNCHANGED spool /\ t2' \in {t2, Append(t2, env)}
          /\ \/ acked' = acked
             \/ /\ env.backfill /\ acked' = acked \cup {env.seq}
                /\ t2' = Append(t2, env)
      BY <1>10 DEF SendStep, SendOK, SendFails
    <2>2. env \in Envelope /\ env # NoEnvelope
      BY <2>1 DEF Typed, BatchTyped
    <2>3. AtT2 \subseteq AtT2' /\ (t2' = Append(t2, env) => env.covers \subseteq AtT2')
      BY <2>1, <2>2, AtT2Grows DEF Typed
    <2>4. env.backfill => env.covers = live[env.seq]
      BY <2>2 DEF Typed, InHand
    <2>5. \A s \in acked' : live[s] \subseteq AtT2'
      BY <2>1, <2>3, <2>4 DEF Accounted
    <2> QED BY <1>1, <2>1, <2>3, <2>5
  <1>11. CASE UNCHANGED <<spool, t2>> /\ (acked' = {} \/ (UNCHANGED acked /\ pc # "discard"))
    BY <1>1, <1>2, <1>11 DEF Accounted
  <1>12. CASE UNCHANGED vars
    BY <1>0, <1>2, <1>12 DEF vars, spool, batch, Accounted, In, Records
  <1>13. \/ UNCHANGED <<spool, t2>> /\ (acked' = {} \/ (UNCHANGED acked /\ pc # "discard"))
         \/ UNCHANGED vars
         \/ \E k \in Kinds : Enqueue(k)
         \/ \E S \in SUBSET Records : \E head \in S : Coarsen(S, head) \/ CoarsenCutShort(S, head)
         \/ \E s \in Records : Shed(s)
         \/ Ack \/ Discard \/ SendStep
    <2> DEFINE Elsewhere ==
          UNCHANGED <<spool, t2>> /\ (acked' = {} \/ (UNCHANGED acked /\ pc # "discard"))
    <2>1. PolicyStep => Elsewhere
      BY DEF PolicyStep, LoadRefused, Load, LoadUnsaved, LoadCutShort, Reboot, batch
    <2>2. ASSUME NEW k \in Kinds, NEW b \in Bundles, Publish(k, b.version) PROVE Elsewhere
      BY <2>2 DEF Publish
    <2>3. BeginBackfill \/ AcceptCutShort \/ PowerLoss => Elsewhere
      BY DEF BeginBackfill, AcceptCutShort, WriteStops, PowerLoss, Reboot
    <2>4. TakeRecord \/ LoopEnds \/ Judge => Elsewhere
      BY DEF TakeRecord, LoopEnds, Judge, Refuse, Accept, AcceptGlued, LogUnreadable, AppendRaises,
             WriteStops
    <2> QED BY <2>1, <2>2, <2>3, <2>4 DEF Next, SpoolStep, InBatch
  <1> QED BY <1>4, <1>5, <1>6, <1>7, <1>8, <1>9, <1>10, <1>11, <1>12, <1>13

\* A window that is neither in the spool nor at T2 was shed, refused or lost in a merge:
\* only what T2 has received is acked, whatever fails between sending and acking.
THEOREM NothingLost == Spec => []NoSilentLoss
  <1>1. Init => Accounted
    <2> SUFFICES ASSUME Init PROVE Accounted
      OBVIOUS
    <2>1. issued = 0 /\ acked = {}
      BY DEF Init, Ledger!Init
    <2> QED BY <2>1 DEF Accounted
  <1>2. Accounted => NoSilentLoss
    BY DEF Accounted, AtT2, NoSilentLoss
  <1> QED BY <1>1, <1>2, TypedInit, TypedNext, AccountedNext, PTL DEF Spec

=============================================================================
