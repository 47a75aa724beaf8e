------------------------- MODULE CommissioningProofs -------------------------
(***************************************************************************)
(* Proofs about Commissioning, for any gate, any observations, any number  *)
(* of exceptions, restarts, failing writes and releases of the model.      *)
(***************************************************************************)
EXTENDS Commissioning, TLAPS

PassRow(item) == [kind |-> "commissioning_item", item |-> item, not_after |-> Never]
ExceptionRow(item, not_after) ==
  [kind |-> "exception_applied", item |-> item, not_after |-> not_after]

\* What the gate holds was written to the log, or its append raised or was glued.
Logged ==
  /\ \A item \in passed : PassRow(item) \in chain \cup unlogged
  /\ \A item \in Item :
       exceptions[item] # Never => ExceptionRow(item, exceptions[item]) \in chain \cup unlogged

\* No version that ran, and whose floor was written, is above the floor, in memory or on disk.
FloorKept ==
  \A v \in ran : /\ floor # None => v <= floor
                 /\ floor_file # Empty => v <= floor_file

\* Without a write that raised, there is no line to glue a row to, and none is missing.
Whole == raises = 0 => tail = "none" /\ unlogged = {}

GateInv == TypeOK /\ Logged /\ Whole /\ FloorKept

\* The items of the gate are those of its order.
LEMMA OrderIsItems ==
  /\ Item = {GATE_ORDER[i] : i \in DOMAIN GATE_ORDER}
  /\ \A i \in DOMAIN GATE_ORDER : GATE_ORDER[i] \in Item
  BY DEF Item, Range

\* A row for an item of the gate is evidence.
LEMMA RowsAreEvidence ==
  /\ \A item \in Item : PassRow(item) \in Evidence
  /\ \A item \in Item, t \in 0..MaxNow : ExceptionRow(item, t) \in Evidence
  BY CommissioningAssumption DEF Evidence, PassRow, ExceptionRow, Never

\* An append leaves its row, or makes it one that is excepted.
LEMMA RowIsKept ==
  ASSUME TypeOK, Whole, NEW row \in Evidence \cup Completion, Log(row)
  PROVE  /\ row \in chain' \cup unlogged' /\ chain \cup unlogged \subseteq chain' \cup unlogged'
         /\ chain' \subseteq chain \cup {row} /\ unlogged' \subseteq unlogged \cup {row}
         /\ tail' \in {"none", "unended", "torn"} /\ raises' \in 0..MaxRaises
         /\ Whole'
  <1>1. /\ raises \in Nat /\ raises <= MaxRaises /\ tail \in {"none", "unended", "torn"}
        /\ MaxRaises \in Nat
    BY CommissioningAssumption DEF TypeOK
  <1>2. CASE Appended(row)
    BY <1>1, <1>2 DEF Appended, Unlogged, Whole
  <1>3. CASE AppendRaises /\ Unlogged(row)
    BY <1>1, <1>3 DEF AppendRaises, WriteRaises, Unlogged, Whole
  <1>4. CASE tail = "torn" /\ Unlogged(row) /\ UNCHANGED <<chain, tail, raises>>
    BY <1>1, <1>4 DEF Unlogged, Whole
  <1> QED BY <1>2, <1>3, <1>4 DEF Log

\* An append that raises, of a row nothing reads.
LEMMA TailIsKept ==
  ASSUME TypeOK, Whole, AppendRaises, unlogged' = unlogged
  PROVE  /\ chain' = chain /\ tail' \in {"none", "unended", "torn"} /\ raises' \in 0..MaxRaises
         /\ Whole'
  <1>1. /\ raises \in Nat /\ raises <= MaxRaises /\ tail \in {"none", "unended", "torn"}
        /\ MaxRaises \in Nat
    BY CommissioningAssumption DEF TypeOK
  <1> QED BY <1>1 DEF AppendRaises, WriteRaises, Whole

----------------------------------------------------------------------------
(* The store *)

\* A new store has its types, and nothing has run on it.
LEMMA StoreStarts == StoreInit => ModelTyped /\ FloorKept
  BY DEF StoreInit, ModelTyped, FloorKept

\* A bundle that is installed, its floor written or not, keeps the floor.
LEMMA InstallKeeps ==
  ASSUME ModelTyped, FloorKept, NEW candidate \in Candidate,
         InstallModel(candidate) \/ InstallUnsaved(candidate)
  PROVE  ModelTyped' /\ FloorKept' /\ \A v \in ran : active_model' >= v
  <1> DEFINE w == candidate.version
  <1>1. w \in Version /\ w \in Nat
    BY ModelStoreAssumption DEF Candidate, Version
  <1>2. floor # None /\ floor \in Nat /\ w >= floor /\ active_model' = w /\ floor' = w
    BY ModelStoreAssumption
    DEF ModelTyped, Version, InstallModel, InstallUnsaved, Install, Verified
  <1>3. \A v \in ran : v \in Nat /\ v <= w
    BY <1>1, <1>2 DEF FloorKept, ModelTyped, Version
  <1>4. CASE InstallModel(candidate)
    <2>1. floor_file' = w /\ ran' = ran \cup {w}
      BY <1>4 DEF InstallModel
    <2>2. ModelTyped'
      BY <1>1, <1>2, <2>1 DEF ModelTyped
    <2>3. FloorKept'
      BY <1>1, <1>2, <1>3, <2>1 DEF FloorKept
    <2> QED BY <1>1, <1>2, <1>3, <2>2, <2>3
  <1>5. CASE InstallUnsaved(candidate)
    <2>1. floor_file' \in {floor_file, Empty} /\ ran' = ran
      BY <1>5 DEF InstallUnsaved
    <2>2. ModelTyped'
      BY <1>1, <1>2, <2>1 DEF ModelTyped
    <2>3. FloorKept'
      BY <1>1, <1>2, <1>3, <2>1 DEF FloorKept
    <2> QED BY <1>1, <1>2, <1>3, <2>2, <2>3
  <1> QED BY <1>4, <1>5

\* A process that starts takes the floor from the disk.
LEMMA ReopenKeeps ==
  ASSUME ModelTyped, FloorKept, Reopen
  PROVE  ModelTyped' /\ FloorKept'
  <1>1. /\ active_model' = None /\ floor' = IF floor_file = Empty THEN None ELSE floor_file
        /\ floor_file' = floor_file /\ ran' = ran
    BY DEF Reopen, FloorOnDisk
  <1>2. ModelTyped'
    BY <1>1 DEF ModelTyped
  <1>3. FloorKept'
    BY <1>1 DEF FloorKept
  <1> QED BY <1>2, <1>3

\* What leaves the store alone leaves this alone.
LEMMA StoreUntouched ==
  ASSUME ModelTyped, FloorKept, UNCHANGED model_vars
  PROVE  ModelTyped' /\ FloorKept'
  BY DEF ModelTyped, FloorKept, model_vars

----------------------------------------------------------------------------
(* The gate *)

\* The initial states have the invariant.
LEMMA GateInit == Init => GateInv
  <1> SUFFICES ASSUME Init PROVE GateInv
    OBVIOUS
  <1>1. ModelTyped /\ FloorKept
    BY StoreStarts DEF Init
  <1>2. TypeOK
    BY <1>1, CommissioningAssumption DEF Init, TypeOK, Never
  <1>3. Logged /\ Whole
    BY DEF Init, Logged, Whole
  <1> QED BY <1>1, <1>2, <1>3 DEF GateInv

\* A pass leaves its row, or a row that could not be appended.
LEMMA PassKeeps == ASSUME GateInv, Pass PROVE GateInv'
  <1> DEFINE item == bench.item
             row == PassRow(item)
  <1>1. /\ item \in Item /\ bench' = None
        /\ UNCHANGED <<profile, now, restarts, exceptions, state>> /\ UNCHANGED model_vars
        /\ passed' = passed \cup {item}
    BY DEF Pass, RecordPass, GateInv, TypeOK
  <1>2. row \in Evidence
    BY <1>1, RowsAreEvidence
  <1>3. /\ row \in chain' \cup unlogged' /\ chain \cup unlogged \subseteq chain' \cup unlogged'
        /\ chain' \subseteq chain \cup {row} /\ unlogged' \subseteq unlogged \cup {row}
        /\ tail' \in {"none", "unended", "torn"} /\ raises' \in 0..MaxRaises
        /\ Whole'
    <2>1. Log(row)
      BY DEF Pass, RecordPass, PassRow
    <2> HIDE DEF row
    <2> QED BY <1>2, <2>1, RowIsKept DEF GateInv
  <1> HIDE DEF row, item
  <1>4. ModelTyped' /\ FloorKept'
    BY <1>1, StoreUntouched DEF GateInv, TypeOK
  <1>5. TypeOK'
    BY <1>1, <1>2, <1>3, <1>4 DEF GateInv, TypeOK
  <1>6. row \in chain' \cup unlogged' /\ chain \cup unlogged \subseteq chain' \cup unlogged'
    BY <1>3
  <1>7. Logged'
    <2>1. ASSUME NEW i \in passed' PROVE PassRow(i) \in chain' \cup unlogged'
      BY <1>1, <1>6, <2>1 DEF GateInv, Logged, row
    <2>2. ASSUME NEW i \in Item, exceptions'[i] # Never
          PROVE  ExceptionRow(i, exceptions'[i]) \in chain' \cup unlogged'
      BY <1>1, <1>6, <2>2 DEF GateInv, Logged
    <2> QED BY <2>1, <2>2 DEF Logged
  <1> QED BY <1>3, <1>4, <1>5, <1>7 DEF GateInv

\* So does an exception.
LEMMA ExceptionKeeps ==
  ASSUME GateInv, NEW exc \in Exception, ApplyException(exc) PROVE GateInv'
  <1> DEFINE row == ExceptionRow(exc.item, exc.not_after)
  <1>1. /\ exc.item \in Item /\ exc.not_after \in 1..MaxNow
        /\ UNCHANGED <<profile, passed, state, bench, now, restarts>> /\ UNCHANGED model_vars
        /\ exceptions' = [exceptions EXCEPT ![exc.item] = exc.not_after]
    BY CommissioningAssumption DEF ApplyException, Exception
  <1>2. row \in Evidence
    BY <1>1, RowsAreEvidence
  <1>3. /\ row \in chain' \cup unlogged' /\ chain \cup unlogged \subseteq chain' \cup unlogged'
        /\ chain' \subseteq chain \cup {row} /\ unlogged' \subseteq unlogged \cup {row}
        /\ tail' \in {"none", "unended", "torn"} /\ raises' \in 0..MaxRaises
        /\ Whole'
    <2>1. Log(row)
      BY DEF ApplyException, ExceptionRow
    <2> HIDE DEF row
    <2> QED BY <1>2, <2>1, RowIsKept DEF GateInv
  <1> HIDE DEF row
  <1>4. ModelTyped' /\ FloorKept'
    BY <1>1, StoreUntouched DEF GateInv, TypeOK
  <1>5. TypeOK'
    <2>1. exceptions' \in [Item -> Never..MaxNow]
      BY <1>1 DEF GateInv, TypeOK, Never
    <2> QED BY <1>1, <1>2, <1>3, <1>4, <2>1 DEF GateInv, TypeOK
  <1>6. row \in chain' \cup unlogged' /\ chain \cup unlogged \subseteq chain' \cup unlogged'
    BY <1>3
  <1>7. Logged'
    <2>1. ASSUME NEW i \in passed' PROVE PassRow(i) \in chain' \cup unlogged'
      BY <1>1, <1>6, <2>1 DEF GateInv, Logged
    <2>2. ASSUME NEW i \in Item, exceptions'[i] # Never
          PROVE  ExceptionRow(i, exceptions'[i]) \in chain' \cup unlogged'
      <3>1. CASE i = exc.item
        <4>1. exceptions'[i] = exc.not_after
          BY <1>1, <3>1 DEF GateInv, TypeOK
        <4> QED BY <1>6, <3>1, <4>1 DEF row
      <3>2. CASE i # exc.item
        <4>1. exceptions'[i] = exceptions[i]
          BY <1>1, <3>2 DEF GateInv, TypeOK
        <4> QED BY <1>6, <2>2, <4>1 DEF GateInv, Logged
      <3> QED BY <3>1, <3>2
    <2> QED BY <2>1, <2>2 DEF Logged
  <1> QED BY <1>3, <1>4, <1>5, <1>7 DEF GateInv

\* What changes neither the gate nor the log keeps what is logged.
LEMMA LoggedUntouched ==
  ASSUME Logged, Whole, UNCHANGED <<passed, exceptions, unlogged, tail>>,
         raises' = raises \/ raises' # 0, chain \subseteq chain'
  PROVE  Logged' /\ Whole'
  BY DEF Logged, Whole

\* Every step keeps the invariant.
LEMMA GateStep == GateInv /\ [Next]_vars => GateInv'
  <1> SUFFICES ASSUME GateInv, [Next]_vars PROVE GateInv'
    OBVIOUS
  <1>0. ModelTyped /\ FloorKept /\ Logged /\ Whole /\ TypeOK
    BY DEF GateInv, TypeOK
  <1>1. ASSUME Look PROVE GateInv'
    <2>1. PICK i \in Blockers : \E found : bench' = [item |-> GATE_ORDER[i], found |-> found]
      BY <1>1 DEF Look
    <2>2. GATE_ORDER[i] \in Item
      BY OrderIsItems DEF Blockers
    <2>3. /\ UNCHANGED model_vars
          /\ UNCHANGED <<profile, passed, exceptions, state, unlogged, tail, chain, now, restarts,
                         raises>>
      BY <1>1 DEF Look, gate
    <2>4. ModelTyped' /\ FloorKept' /\ Logged' /\ Whole'
      BY <1>0, <2>3, StoreUntouched, LoggedUntouched
    <2>5. TypeOK'
      BY <1>0, <2>1, <2>2, <2>3, <2>4 DEF TypeOK
    <2> QED BY <2>4, <2>5 DEF GateInv
  <1>2. ASSUME Remedy PROVE GateInv'
    <2>1. PICK found : bench' = [item |-> bench.item, found |-> found]
      BY <1>2 DEF Remedy
    <2>2. bench.item \in Item
      BY <1>0, <1>2 DEF Remedy, TypeOK
    <2>3. /\ UNCHANGED model_vars
          /\ UNCHANGED <<profile, passed, exceptions, state, unlogged, tail, chain, now, restarts,
                         raises>>
      BY <1>2 DEF Remedy, gate
    <2>4. ModelTyped' /\ FloorKept' /\ Logged' /\ Whole'
      BY <1>0, <2>3, StoreUntouched, LoggedUntouched
    <2>5. TypeOK'
      BY <1>0, <2>1, <2>2, <2>3, <2>4 DEF TypeOK
    <2> QED BY <2>4, <2>5 DEF GateInv
  <1>3. ASSUME Activate PROVE GateInv'
    <2> DEFINE row == [kind |-> "commissioning_complete"]
    <2>1. /\ Appended(row) /\ state' = "ACTIVE"
          /\ UNCHANGED <<profile, passed, exceptions, bench, now, restarts>>
          /\ UNCHANGED model_vars
      BY <1>3 DEF Activate
    <2>2. row \in Evidence \cup Completion
      BY DEF Completion
    <2> HIDE DEF row
    <2>3. /\ chain \cup unlogged \subseteq chain' \cup unlogged'
          /\ chain' \subseteq chain \cup {row} /\ unlogged' \subseteq unlogged \cup {row}
          /\ tail' \in {"none", "unended", "torn"} /\ raises' \in 0..MaxRaises
          /\ Whole'
      BY <1>0, <2>1, <2>2, RowIsKept DEF Log
    <2>4. ModelTyped' /\ FloorKept'
      BY <1>0, <2>1, StoreUntouched
    <2>5. Logged'
      BY <1>0, <2>1, <2>3 DEF Logged
    <2>6. TypeOK'
      BY <1>0, <2>1, <2>2, <2>3, <2>4 DEF TypeOK
    <2> QED BY <2>3, <2>4, <2>5, <2>6 DEF GateInv
  <1>4. ASSUME ActivateRaises \/ OthersAppend PROVE GateInv'
    <2>1. /\ UNCHANGED <<profile, passed, exceptions, state, unlogged, bench, now, restarts>>
          /\ UNCHANGED model_vars
          /\ \/ AppendRaises
             \/ tail = "unended" /\ tail' = "torn" /\ UNCHANGED <<chain, raises>>
      BY <1>4 DEF ActivateRaises, OthersAppend, gate
    <2>2. chain' = chain /\ tail' \in {"none", "unended", "torn"} /\ raises' \in 0..MaxRaises
          /\ Whole'
      <3>1. CASE AppendRaises
        BY <1>0, <2>1, <3>1, TailIsKept
      <3>2. CASE tail = "unended" /\ tail' = "torn" /\ UNCHANGED <<chain, raises>>
        BY <1>0, <2>1, <3>2 DEF TypeOK, Whole
      <3> QED BY <2>1, <3>1, <3>2
    <2>3. ModelTyped' /\ FloorKept'
      BY <1>0, <2>1, StoreUntouched
    <2>4. Logged'
      BY <1>0, <2>1, <2>2 DEF Logged
    <2>5. TypeOK'
      BY <1>0, <2>1, <2>2, <2>3 DEF TypeOK
    <2> QED BY <2>2, <2>3, <2>4, <2>5 DEF GateInv
  <1>5. ASSUME NEW candidate \in Candidate, Deploy(candidate) \/ DeployUnsaved(candidate)
        PROVE  GateInv'
    <2>1. /\ UNCHANGED <<profile, passed, exceptions, state, unlogged, tail, chain, bench, now,
                         restarts>>
          /\ \/ raises' = raises
             \/ raises < MaxRaises /\ raises' = raises + 1
          /\ InstallModel(candidate) \/ InstallUnsaved(candidate)
      BY <1>5 DEF Deploy, DeployUnsaved, BundleOffered, WriteRaises, gate
    <2>2. ModelTyped' /\ FloorKept'
      BY <1>0, <2>1, InstallKeeps
    <2>3. Logged' /\ Whole'
      <3>1. raises' = raises \/ raises' # 0
        BY <1>0, <2>1, CommissioningAssumption DEF TypeOK
      <3> QED BY <1>0, <2>1, <3>1, LoggedUntouched
    <2>4. TypeOK'
      BY <1>0, <2>1, <2>2, CommissioningAssumption DEF TypeOK
    <2> QED BY <2>2, <2>3, <2>4 DEF GateInv
  <1>6. ASSUME Tick PROVE GateInv'
    <2>1. /\ now < MaxNow /\ now' = now + 1 /\ UNCHANGED model_vars
          /\ UNCHANGED <<profile, passed, exceptions, state, unlogged, tail, chain, bench, restarts,
                         raises>>
      BY <1>6 DEF Tick, gate
    <2>2. ModelTyped' /\ FloorKept' /\ Logged' /\ Whole'
      BY <1>0, <2>1, StoreUntouched, LoggedUntouched
    <2>3. TypeOK'
      BY <1>0, <2>1, <2>2, CommissioningAssumption DEF TypeOK
    <2> QED BY <2>2, <2>3 DEF GateInv
  <1>7. ASSUME Restart PROVE GateInv'
    <2>1. /\ restarts < MaxRestarts /\ restarts' = restarts + 1
          /\ passed' = {} /\ exceptions' = [i \in Item |-> Never] /\ state' = "COMMISSIONING"
          /\ bench' = None /\ chain' = {} /\ unlogged' = {}
          /\ UNCHANGED <<profile, tail, now, raises>>
          /\ Reopen
      BY <1>7 DEF Restart
    <2>2. ModelTyped' /\ FloorKept'
      BY <1>0, <2>1, ReopenKeeps
    <2>3. Logged' /\ Whole'
      BY <1>0, <2>1 DEF Logged, Whole
    <2>4. TypeOK'
      BY <1>0, <2>1, <2>2, CommissioningAssumption DEF TypeOK, Never
    <2> QED BY <2>2, <2>3, <2>4 DEF GateInv
  <1>8. ASSUME UNCHANGED vars PROVE GateInv'
    <2>1. /\ UNCHANGED model_vars
          /\ UNCHANGED <<profile, passed, exceptions, state, unlogged, tail, chain, bench, now>>
          /\ UNCHANGED <<restarts, raises>>
      BY <1>8 DEF vars, gate
    <2>2. ModelTyped' /\ FloorKept' /\ Logged' /\ Whole'
      BY <1>0, <2>1, StoreUntouched, LoggedUntouched
    <2>3. TypeOK'
      BY <1>0, <2>1, <2>2 DEF TypeOK
    <2> QED BY <2>2, <2>3 DEF GateInv
  <1> QED BY <1>1, <1>2, <1>3, <1>4, <1>5, <1>6, <1>7, <1>8, PassKeeps, ExceptionKeeps DEF Next

\* Gate, visit and store have their types.
THEOREM GateTypes == Spec => []TypeOK
  <1>1. Spec => []GateInv
    BY GateInit, GateStep, PTL DEF Spec
  <1>2. GateInv => TypeOK
    BY DEF GateInv
  <1> QED BY <1>1, <1>2, PTL

----------------------------------------------------------------------------
(* What a step may not do *)

\* Only Activate makes a device ACTIVE, and it does so over an empty list of blockers.
LEMMA ActivationIsEvidenced ==
  ASSUME GateInv, [Next]_vars, state # "ACTIVE", state' = "ACTIVE"
  PROVE  /\ \A item \in Item : \E row \in (chain \cup Excepted) \cap Evidence :
              row.item = item /\ (row.kind = "commissioning_item" \/ now < row.not_after)
         /\ \/ \E row \in chain' : row.kind = "commissioning_complete"
            \/ tail = "unended" /\ raises > 0
  <1>1. Activate
    BY DEF Next, Look, Remedy, Pass, RecordPass, ActivateRaises, ApplyException, Deploy,
           DeployUnsaved, BundleOffered, OthersAppend, Tick, Restart, vars, gate
  <1>0. Excepted = unlogged /\ (tail = "unended" => raises > 0) /\ TypeOK
    BY DEF Excepted, GateInv, Whole, TypeOK
  <1>2. [kind |-> "commissioning_complete"] \in chain' \/ (tail = "unended" /\ raises > 0)
    BY <1>0, <1>1 DEF Activate, Appended
  <1>3. ASSUME NEW item \in Item
        PROVE  \E row \in (chain \cup unlogged) \cap Evidence :
                 row.item = item /\ (row.kind = "commissioning_item" \/ now < row.not_after)
    <2>1. PICK i \in DOMAIN GATE_ORDER : item = GATE_ORDER[i]
      BY OrderIsItems
    <2>2. item \in passed \/ now < exceptions[item]
      BY <1>1, <2>1 DEF Activate, Blockers, Satisfied
    <2>3. CASE item \in passed
      <3>1. PassRow(item) \in (chain \cup unlogged) \cap Evidence
        BY <2>3, RowsAreEvidence DEF GateInv, Logged
      <3> QED BY <3>1 DEF PassRow
    <2>4. CASE now < exceptions[item]
      <3>1. exceptions[item] \in 0..MaxNow /\ exceptions[item] # Never
        BY <2>4, CommissioningAssumption DEF GateInv, TypeOK, Never
      <3>2. ExceptionRow(item, exceptions[item]) \in (chain \cup unlogged) \cap Evidence
        BY <3>1, RowsAreEvidence DEF GateInv, Logged
      <3> QED BY <2>4, <3>2 DEF ExceptionRow
    <2> QED BY <2>2, <2>3, <2>4
  <1> QED BY <1>0, <1>2, <1>3

\* Only a bundle that is deployed becomes the active one, and it is not below the floor.
LEMMA DeploymentIsForward ==
  ASSUME GateInv, [Next]_vars, active_model' \notin {active_model, None}
  PROVE  \A v \in ran : active_model' >= v
  <1>1. PICK candidate \in Candidate : Deploy(candidate) \/ DeployUnsaved(candidate)
    BY DEF Next, Look, Remedy, Pass, Activate, ActivateRaises, ApplyException, OthersAppend,
           Tick, Restart, Reopen, vars, model_vars
  <1>2. ModelTyped /\ FloorKept
    BY DEF GateInv, TypeOK
  <1> QED BY <1>1, <1>2, InstallKeeps DEF Deploy, DeployUnsaved

\* A device becomes ACTIVE over a log that says why, whatever order the visit, the exceptions,
\* the failures and the restarts come in, but for the rows that EvidenceAtActivation excepts
\* once a write has raised.
THEOREM ActivationHasEvidence == Spec => EvidenceAtActivation
  <1>1. Spec => []GateInv
    BY GateInit, GateStep, PTL DEF Spec
  <1>2. GateInv /\ [Next]_vars =>
          [state # "ACTIVE" /\ state' = "ACTIVE" =>
             /\ \A item \in Item : \E row \in (chain \cup Excepted) \cap Evidence :
                  row.item = item /\ (row.kind = "commissioning_item" \/ now < row.not_after)
             /\ \/ \E row \in chain' : row.kind = "commissioning_complete"
                \/ tail = "unended" /\ raises > 0]_vars
    BY ActivationIsEvidenced
  <1> QED BY <1>1, <1>2, PTL DEF Spec, EvidenceAtActivation

\* No bundle below one that ran becomes active, over any restarts and any failing writes.
THEOREM ModelsGoForward == Spec => NoModelDowngrade
  <1>1. Spec => []GateInv
    BY GateInit, GateStep, PTL DEF Spec
  <1>2. GateInv /\ [Next]_vars =>
          [active_model' \notin {active_model, None} =>
             \A v \in ran : active_model' >= v]_model_vars
    BY DeploymentIsForward
  <1> QED BY <1>1, <1>2, PTL DEF Spec, NoModelDowngrade

----------------------------------------------------------------------------
(* The checks of a visit *)

\* A host that qualifies has been looked at: what nobody measured is no advice.
LEMMA QualifiedIsMeasured ==
  ASSUME NEW host \in Host, Failing(QualifyHost(host)) = {},
         NEW late \in Answered(host.answers)
  PROVE  late = host.answers
  <1>1. host.answers \in [HostCheck -> Answer]
        /\ \A c \in HostCheck \ Measurable : host.answers[c] # "none"
    BY DEF Host
  <1>2. \A c \in Measurable : FindingIfUnmeasured[c] \notin ADVISORY
    BY DEF Measurable, FindingIfUnmeasured, ADVISORY
  <1>3. ASSUME NEW c \in Measurable, host.answers[c] = "none" PROVE FALSE
    <2>1. FindingIfUnmeasured[c] \in HostFindings(host)
      BY <1>3 DEF HostFindings
    <2>2. FindingIfUnmeasured[c] \in Failing(QualifyHost(host))
      BY <1>2, <2>1 DEF Failing, QualifyHost
    <2> QED BY <2>2
  <1>4. {q \in DOMAIN host.answers : host.answers[q] = "none"} = {}
    BY <1>1, <1>3
  <1>5. PICK f \in [{} -> {"yes", "no"}] : late = Changed(host.answers, f)
    BY <1>4 DEF Answered
  <1>6. late = [x \in DOMAIN host.answers |-> host.answers[x]]
    BY <1>5 DEF Changed
  <1> QED BY <1>1, <1>6

\* What it takes that nothing is found on the path to an endpoint.
Clear(e, path) ==
  /\ path.answers["resolves"] = "yes" /\ path.answers["tcp_open"] = "yes"
  /\ path.answers["proxy_requires_auth"] # "none"
  /\ path.answers["proxy_requires_auth"] = "yes" => path.proxy_credentials
  /\ path.answers["pinned_root"] = "yes"
  /\ e = MQTT => path.answers["alpn"] = "yes"

LEMMA ClearPath ==
  ASSUME NEW e, NEW path \in Path
  PROVE  EndpointFindings(e, path) = {} <=> Clear(e, path)
  <1> DEFINE a == path.answers
             dialled == a["resolves"] = "yes" /\ a["tcp_open"] = "yes"
             spoken == dialled /\ ~(a["proxy_requires_auth"] = "none")
             unv == \/ a["resolves"] = "none"
                    \/ a["resolves"] = "yes" /\ a["tcp_open"] = "none"
                    \/ dialled /\ a["proxy_requires_auth"] = "none"
                    \/ spoken /\ a["pinned_root"] = "none"
             dns == a["resolves"] = "no"
             tcp == a["resolves"] = "yes" /\ a["tcp_open"] = "no"
             auth == spoken /\ a["proxy_requires_auth"] = "yes" /\ ~path.proxy_credentials
             tls == spoken /\ a["pinned_root"] = "no"
             alpn == spoken /\ e = MQTT /\ ~(a["alpn"] = "yes")
  <1>1. EndpointFindings(e, path) =
          Named([unverified |-> unv, dns_unresolved |-> dns, tcp_blocked |-> tcp,
                 proxy_auth_missing |-> auth, tls_intercepted |-> tls, alpn_stripped |-> alpn])
    BY DEF EndpointFindings
  <1>2. /\ a["resolves"] \in Answer /\ a["tcp_open"] \in Answer
        /\ a["proxy_requires_auth"] \in Answer /\ a["pinned_root"] \in Answer
        /\ a["alpn"] \in Answer /\ path.proxy_credentials \in BOOLEAN
    BY DEF Path, PathQuestion
  <1>3. ~(unv \/ dns \/ tcp \/ auth \/ tls \/ alpn) <=> Clear(e, path)
    BY <1>2 DEF Clear, Answer
  <1> HIDE DEF unv, dns, tcp, auth, tls, alpn
  <1>4. Named([unverified |-> unv, dns_unresolved |-> dns, tcp_blocked |-> tcp,
               proxy_auth_missing |-> auth, tls_intercepted |-> tls, alpn_stripped |-> alpn])
          = {} <=> ~(unv \/ dns \/ tcp \/ auth \/ tls \/ alpn)
    BY DEF Named
  <1> QED BY <1>1, <1>3, <1>4

\* The answers to what nobody had asked complete the answers there were.
LEMMA LateAnswers ==
  ASSUME NEW path \in Path, NEW late \in Answered(path.answers)
  PROVE  /\ [path EXCEPT !.answers = late] \in Path
         /\ \A q \in PathQuestion : path.answers[q] # "none" => late[q] = path.answers[q]
  <1> DEFINE a == path.answers
             open == {q \in DOMAIN a : a[q] = "none"}
  <1>1. a \in [PathQuestion -> Answer]
    BY DEF Path
  <1>2. PICK f \in [open -> {"yes", "no"}] : late = Changed(a, f)
    BY DEF Answered
  <1>3. late = [q \in PathQuestion |-> IF q \in open THEN f[q] ELSE a[q]]
    BY <1>1, <1>2 DEF Changed
  <1>4. /\ late \in [PathQuestion -> Answer]
        /\ \A q \in PathQuestion : a[q] # "none" => late[q] = a[q]
    BY <1>1, <1>3 DEF Answer
  <1> QED BY <1>4 DEF Path

\* A clear path stays clear whatever the questions nobody asked turn out to be.
LEMMA ClearStaysClear ==
  ASSUME NEW e, NEW path \in Path, EndpointFindings(e, path) = {},
         NEW late \in Answered(path.answers)
  PROVE  EndpointFindings(e, [path EXCEPT !.answers = late]) = {}
  <1> DEFINE then == [path EXCEPT !.answers = late]
  <1>1. then.answers = late /\ then.proxy_credentials = path.proxy_credentials
    BY DEF Path
  <1>2. /\ then \in Path
        /\ \A q \in PathQuestion : path.answers[q] # "none" => then.answers[q] = path.answers[q]
    BY <1>1, LateAnswers
  <1> HIDE DEF then
  <1>3. Clear(e, path)
    BY ClearPath
  <1>4. Clear(e, then)
    BY <1>1, <1>2, <1>3 DEF Clear, PathQuestion
  <1> QED BY <1>2, <1>4, ClearPath DEF then

\* The penalty of an issue that was found is at most its share, and no penalty adds anything.
LEMMA PenaltyLowers ==
  ASSUME NEW issues, NEW i \in DOMAIN ISSUE_PENALTY, NEW total \in Nat
  PROVE  /\ Penalised(issues, i, total) \in Nat /\ Penalised(issues, i, total) <= total
         /\ i \in issues => Penalised(issues, i, total) <= (total * ISSUE_PENALTY[i]) \div 10
  <1>1. ISSUE_PENALTY[i] \in {5, 6, 7, 8}
    BY DEF ISSUE_PENALTY
  <1>2. /\ (total * 5) \div 10 \in 0..total /\ (total * 6) \div 10 \in 0..total
        /\ (total * 7) \div 10 \in 0..total /\ (total * 8) \div 10 \in 0..total
    OBVIOUS
  <1> QED BY <1>1, <1>2 DEF Penalised

\* A number that is a fraction, in millionths.
Fraction(v) == v \in Nat /\ v <= 1000000

\* Each component is a fraction.
LEMMA Fractions ==
  ASSUME NEW s \in Stream
  PROVE  /\ Fraction(Components(s).angle) /\ Fraction(Components(s).resolution)
         /\ Fraction(Components(s).lighting) /\ Fraction(Components(s).occlusion)
         /\ Fraction(Components(s).fps)
         /\ s.depression_degrees < 20 => Components(s).angle <= 430000
         /\ s.height_px < 720 => Components(s).resolution <= 670000
         /\ s.occlusion > 30 => Components(s).occlusion <= 690000
         /\ s.achieved_fps < 5 => Components(s).fps <= 400000
  <1>1. ASSUME NEW v \in Int
        PROVE  Fraction(Clamp(v)) /\ (v >= 0 => Clamp(v) <= v) /\ (v < 0 => Clamp(v) = 0)
    <2>1. CASE v < 0
      BY SMT, <2>1 DEF Clamp, Fraction
    <2>2. CASE v > 1000000
      BY SMT, <2>2 DEF Clamp, Fraction
    <2>3. CASE Fraction(v)
      BY SMT, <2>3 DEF Clamp, Fraction
    <2> QED BY SMT, <2>1, <2>2, <2>3 DEF Fraction
  <1>2. /\ s.depression_degrees \in Int /\ s.height_px \in Nat /\ s.occlusion \in Nat
        /\ s.achieved_fps \in Nat /\ s.lens_clarity \in Nat
        /\ s.backlit \in BOOLEAN /\ s.ir_glare \in BOOLEAN
    BY SMT DEF Stream
  <1> DEFINE angle == (s.depression_degrees * 1000000) \div 45
             resolution == (s.height_px * 100000) \div 108
             lighting == s.lens_clarity * 10000 - Off(s.backlit, 350000) - Off(s.ir_glare, 250000)
             occlusion == 1000000 - s.occlusion * 10000
             fps == s.achieved_fps * 100000
  <1>3. angle \in Int /\ (s.depression_degrees < 20 => angle <= 430000)
    BY SMT, <1>2
  <1>4. resolution \in Int /\ (s.height_px < 720 => resolution <= 670000)
    BY SMT, <1>2
  <1>5. lighting \in Int
    <2>1. Off(s.backlit, 350000) \in Int /\ Off(s.ir_glare, 250000) \in Int
      BY SMT DEF Off
    <2> QED BY SMT, <1>2, <2>1
  <1>6. occlusion \in Int /\ (s.occlusion > 30 => occlusion <= 690000)
    BY SMT, <1>2
  <1>7. fps \in Int /\ (s.achieved_fps < 5 => fps <= 400000)
    BY SMT, <1>2
  <1>8. Components(s) = [angle |-> Clamp(angle), resolution |-> Clamp(resolution),
                         lighting |-> Clamp(lighting), occlusion |-> Clamp(occlusion),
                         fps |-> Clamp(fps)]
    BY SMT DEF Components
  <1> HIDE DEF angle, resolution, lighting, occlusion, fps
  <1>9. /\ Components(s).angle = Clamp(angle) /\ Components(s).resolution = Clamp(resolution)
        /\ Components(s).lighting = Clamp(lighting) /\ Components(s).occlusion = Clamp(occlusion)
        /\ Components(s).fps = Clamp(fps)
    BY SMT, <1>8
  <1>10. /\ Fraction(Clamp(angle)) /\ Fraction(Clamp(resolution)) /\ Fraction(Clamp(lighting))
         /\ Fraction(Clamp(occlusion)) /\ Fraction(Clamp(fps))
    BY SMT, <1>1, <1>3, <1>4, <1>5, <1>6, <1>7
  <1>11. ASSUME NEW v \in Int, NEW bound \in Nat, v <= bound
         PROVE  Clamp(v) <= bound
    BY SMT, <1>1, <1>11 DEF Fraction
  <1> HIDE DEF Fraction
  <1>12. /\ s.depression_degrees < 20 => Clamp(angle) <= 430000
         /\ s.height_px < 720 => Clamp(resolution) <= 670000
    BY SMT, <1>3, <1>4, <1>11
  <1>13. /\ s.occlusion > 30 => Clamp(occlusion) <= 690000
         /\ s.achieved_fps < 5 => Clamp(fps) <= 400000
    BY SMT, <1>6, <1>7, <1>11
  <1> QED BY SMT, <1>9, <1>10, <1>12, <1>13

\* The weighted sum of the fractions, and what a fault leaves of it.
LEMMA WeightedSum ==
  ASSUME NEW s \in Stream
  PROVE  /\ Weighted(s) \in Nat
         /\ s.depression_degrees < 20 => Weighted(s) <= 1000000
         /\ s.height_px < 720 => Weighted(s) <= 940000
         /\ s.occlusion > 30 => Weighted(s) <= 940000
         /\ s.achieved_fps < 5 => Weighted(s) <= 1000000
  <1> DEFINE c == Components(s)
  <1>1. /\ Fraction(c.angle) /\ Fraction(c.resolution) /\ Fraction(c.lighting)
        /\ Fraction(c.occlusion) /\ Fraction(c.fps)
        /\ s.height_px < 720 => c.resolution <= 670000
        /\ s.occlusion > 30 => c.occlusion <= 690000
    BY SMT, Fractions
  <1>2. Weighted(s) = (30 * c.angle + 20 * c.resolution + 15 * c.lighting + 20 * c.occlusion
                       + 15 * c.fps) \div 100
    BY SMT DEF Weighted, WEIGHTS
  <1> HIDE DEF c
  <1> QED BY SMT, <1>1, <1>2 DEF Fraction

\* One fault of geometry, resolution, rate or occlusion keeps the score under the threshold,
\* whatever else there is to see.
LEMMA FaultSinks ==
  ASSUME NEW s \in Stream, Suitable(s)
  PROVE  StreamIssues(s) \subseteq {"backlit", "lens_dirty", "ir_glare"}
  <1> DEFINE found == StreamIssues(s)
             p1 == Penalised(found, "angle_too_shallow", Weighted(s))
             p2 == Penalised(found, "backlit", p1)
             p3 == Penalised(found, "occluded", p2)
             p4 == Penalised(found, "low_resolution", p3)
             p5 == Penalised(found, "fps_below_min", p4)
             p6 == Penalised(found, "lens_dirty", p5)
             p7 == Penalised(found, "ir_glare", p6)
  <1>1. Score(s) = (p7 + 5000) \div 10000
    BY SMT DEF Score
  <1>2. /\ ISSUE_PENALTY["angle_too_shallow"] = 5 /\ ISSUE_PENALTY["occluded"] = 6
        /\ ISSUE_PENALTY["low_resolution"] = 6 /\ ISSUE_PENALTY["fps_below_min"] = 5
        /\ DOMAIN ISSUE_PENALTY = {"angle_too_shallow", "backlit", "occluded", "low_resolution",
                                   "fps_below_min", "lens_dirty", "ir_glare"}
    BY DEF ISSUE_PENALTY
  <1>3. Weighted(s) \in Nat
    BY WeightedSum
  <1>4. /\ p1 \in Nat /\ p1 <= Weighted(s)
        /\ "angle_too_shallow" \in found => p1 <= (Weighted(s) * 5) \div 10
    BY <1>2, <1>3, PenaltyLowers
  <1> HIDE DEF found, p1
  <1>5. p2 \in Nat /\ p2 <= p1
    BY <1>2, <1>4, PenaltyLowers
  <1> HIDE DEF p2
  <1>6. p3 \in Nat /\ p3 <= p2 /\ ("occluded" \in found => p3 <= (p2 * 6) \div 10)
    BY <1>2, <1>5, PenaltyLowers
  <1> HIDE DEF p3
  <1>7. p4 \in Nat /\ p4 <= p3 /\ ("low_resolution" \in found => p4 <= (p3 * 6) \div 10)
    BY <1>2, <1>6, PenaltyLowers
  <1> HIDE DEF p4
  <1>8. p5 \in Nat /\ p5 <= p4 /\ ("fps_below_min" \in found => p5 <= (p4 * 5) \div 10)
    BY <1>2, <1>7, PenaltyLowers
  <1> HIDE DEF p5
  <1>9. p6 \in Nat /\ p6 <= p5
    BY <1>2, <1>8, PenaltyLowers
  <1> HIDE DEF p6
  <1>10. p7 \in Nat /\ p7 <= p6
    BY <1>2, <1>9, PenaltyLowers
  <1> HIDE DEF p7
  <1>11. p7 >= 595000
    BY SMT, <1>1, <1>10 DEF Suitable, COUNTING_THRESHOLD
  <1>12. /\ "angle_too_shallow" \in found => s.depression_degrees < 20
         /\ "occluded" \in found => s.occlusion > 30
         /\ "low_resolution" \in found => s.height_px < 720
         /\ "fps_below_min" \in found => s.achieved_fps < 5
         /\ found \subseteq {"angle_too_shallow", "backlit", "occluded", "low_resolution",
                             "fps_below_min", "lens_dirty", "ir_glare"}
    BY DEF found, StreamIssues, Named
  <1>13. "angle_too_shallow" \notin found
    <2>1. p7 <= p1
      BY <1>4, <1>5, <1>6, <1>7, <1>8, <1>9, <1>10
    <2> QED BY SMT, <1>3, <1>4, <1>10, <1>11, <1>12, <2>1, WeightedSum
  <1>14. "occluded" \notin found
    <2>1. p7 <= p3 /\ p2 <= Weighted(s)
      BY <1>3, <1>4, <1>5, <1>6, <1>7, <1>8, <1>9, <1>10
    <2> QED BY SMT, <1>3, <1>5, <1>6, <1>10, <1>11, <1>12, <2>1, WeightedSum
  <1>15. "low_resolution" \notin found
    <2>1. p7 <= p4 /\ p3 <= Weighted(s)
      BY <1>3, <1>4, <1>5, <1>6, <1>7, <1>8, <1>9, <1>10
    <2> QED BY SMT, <1>3, <1>6, <1>7, <1>10, <1>11, <1>12, <2>1, WeightedSum
  <1>16. "fps_below_min" \notin found
    <2>1. p7 <= p5 /\ p4 <= Weighted(s)
      BY <1>3, <1>4, <1>5, <1>6, <1>7, <1>8, <1>9, <1>10
    <2> QED BY SMT, <1>3, <1>7, <1>8, <1>10, <1>11, <1>12, <2>1, WeightedSum
  <1> QED BY <1>12, <1>13, <1>14, <1>15, <1>16 DEF found

----------------------------------------------------------------------------
(* What is on the bench *)

\* A host that is remedied is a host.
LEMMA HostAfterIsHost ==
  ASSUME NEW host \in Host, NEW finding, NEW later \in HostAfter(host, finding)
  PROVE  later \in Host
  <1>1. /\ host \in [usable_ram_mb : Nat, answers : [HostCheck -> Answer]]
        /\ \A c \in HostCheck \ Measurable : host.answers[c] # "none"
    BY DEF Host
  <1>2. ASSUME later = [host EXCEPT !.usable_ram_mb = 3338]
        PROVE  later \in Host
    BY SMT, <1>1, <1>2 DEF Host
  <1>3. ASSUME NEW c \in HostCheck, NEW a \in {"yes", "no"},
               later = [host EXCEPT !.answers[c] = a]
        PROVE  later \in Host
    <2>1. [host.answers EXCEPT ![c] = a] \in [HostCheck -> Answer]
      BY <1>1 DEF Answer
    <2>2. /\ later \in [usable_ram_mb : Nat, answers : [HostCheck -> Answer]]
          /\ later.answers = [host.answers EXCEPT ![c] = a]
      BY <1>1, <1>3, <2>1
    <2>3. \A d \in HostCheck \ Measurable : later.answers[d] # "none"
      BY <1>1, <2>2
    <2> QED BY <2>2, <2>3 DEF Host
  <1>4. Measurable \subseteq HostCheck
    BY DEF Measurable, HostCheck, FindingIfNot, FindingIfUnmeasured
  <1> QED BY <1>2, <1>3, <1>4 DEF HostAfter

\* A network that is remedied is a network.
LEMMA NetworkAfterIsNetwork ==
  ASSUME NEW network \in Network, NEW finding, NEW later \in NetworkAfter(network, finding)
  PROVE  later \in Network
  <1>1. network.paths \in [Endpoint -> Path] /\ network.inbound_rule_offered \in BOOLEAN
    BY DEF Network
  <1>2. ASSUME NEW e \in Endpoint, NEW path \in Path, later = [network EXCEPT !.paths[e] = path]
        PROVE  later \in Network
    <2>1. [network.paths EXCEPT ![e] = path] \in [Endpoint -> Path]
      BY <1>1
    <2> QED BY <1>2, <2>1 DEF Network
  <1>3. CASE finding = "inbound_rule_offered"
    <2>1. later = [network EXCEPT !.inbound_rule_offered = FALSE]
      BY <1>3 DEF NetworkAfter
    <2> QED BY <2>1 DEF Network
  <1>4. ASSUME finding # "inbound_rule_offered" PROVE later \in Network
    <2>1. PICK e \in Endpoint :
            \/ \E late \in Answered(network.paths[e].answers) :
                 later = [network EXCEPT
                            !.paths[e] = [network.paths[e] EXCEPT !.answers = late]]
            \/ later = [network EXCEPT
                          !.paths[e] = [network.paths[e] EXCEPT !.proxy_credentials = TRUE]]
            \/ later = [network EXCEPT
                          !.paths[e] = [network.paths[e] EXCEPT
                                          !.answers[PathRepair[finding]] = "yes"]]
      BY <1>4 DEF NetworkAfter
    <2> DEFINE before == network.paths[e]
    <2>2. before \in Path
      BY <1>1
    <2>3. ASSUME NEW late \in Answered(before.answers)
          PROVE  [before EXCEPT !.answers = late] \in Path
      BY <2>2, LateAnswers
    <2>4. [before EXCEPT !.proxy_credentials = TRUE] \in Path
      BY <2>2 DEF Path
    <2>5. ASSUME NEW q PROVE [before EXCEPT !.answers[q] = "yes"] \in Path
      <3>1. before.answers \in [PathQuestion -> Answer]
        BY <2>2 DEF Path
      <3>2. [before.answers EXCEPT ![q] = "yes"] \in [PathQuestion -> Answer]
        BY <3>1 DEF Answer
      <3> QED BY <2>2, <3>2 DEF Path
    <2> QED BY <1>2, <2>1, <2>3, <2>4, <2>5
  <1> QED BY <1>3, <1>4

\* A stream that is remedied is a stream.
LEMMA RepairedIsStream ==
  ASSUME NEW s \in Stream, NEW i \in StreamIssues(s)
  PROVE  Changed(s, StreamRepair[i]) \in Stream
  <1>1. i \in {"angle_too_shallow", "backlit", "occluded", "low_resolution", "fps_below_min",
               "lens_dirty", "ir_glare"}
    BY DEF StreamIssues, Named
  <1>2. s = [depression_degrees |-> s.depression_degrees, height_px |-> s.height_px,
             achieved_fps |-> s.achieved_fps, occlusion |-> s.occlusion,
             lens_clarity |-> s.lens_clarity, backlit |-> s.backlit, ir_glare |-> s.ir_glare]
    BY DEF Stream
  <1>3. CASE i = "angle_too_shallow"
    <2>1. Changed(s, StreamRepair[i]) = [s EXCEPT !.depression_degrees = 45]
      BY <1>2, <1>3 DEF Changed, StreamRepair
    <2> QED BY <2>1 DEF Stream
  <1>4. CASE i = "backlit"
    <2>1. StreamRepair[i] = [backlit |-> FALSE]
      BY <1>4 DEF StreamRepair
    <2> DEFINE off == FALSE
    <2>2. StreamRepair[i] = [backlit |-> off] /\ off \in BOOLEAN
      BY <2>1
    <2> HIDE DEF off
    <2>3. Changed(s, StreamRepair[i]) = [s EXCEPT !.backlit = off]
      BY <1>2, <2>2 DEF Changed
    <2> QED BY <2>2, <2>3 DEF Stream
  <1>5. CASE i = "occluded"
    <2>1. Changed(s, StreamRepair[i]) = [s EXCEPT !.occlusion = 0]
      BY <1>2, <1>5 DEF Changed, StreamRepair
    <2> QED BY <2>1 DEF Stream
  <1>6. CASE i = "low_resolution"
    <2>1. Changed(s, StreamRepair[i]) = [s EXCEPT !.height_px = 1080]
      BY <1>2, <1>6 DEF Changed, StreamRepair
    <2> QED BY <2>1 DEF Stream
  <1>7. CASE i = "fps_below_min"
    <2>1. Changed(s, StreamRepair[i]) = [s EXCEPT !.achieved_fps = 10]
      BY <1>2, <1>7 DEF Changed, StreamRepair
    <2> QED BY <2>1 DEF Stream
  <1>8. CASE i = "lens_dirty"
    <2>1. Changed(s, StreamRepair[i]) = [s EXCEPT !.lens_clarity = 100]
      BY <1>2, <1>8 DEF Changed, StreamRepair
    <2> QED BY <2>1 DEF Stream
  <1>9. CASE i = "ir_glare"
    <2>1. StreamRepair[i] = [ir_glare |-> FALSE]
      BY <1>9 DEF StreamRepair
    <2> DEFINE off == FALSE
    <2>2. StreamRepair[i] = [ir_glare |-> off] /\ off \in BOOLEAN
      BY <2>1
    <2> HIDE DEF off
    <2>3. Changed(s, StreamRepair[i]) = [s EXCEPT !.ir_glare = off]
      BY <1>2, <2>2 DEF Changed
    <2> QED BY <2>2, <2>3 DEF Stream
  <1> QED BY <1>1, <1>3, <1>4, <1>5, <1>6, <1>7, <1>8, <1>9

\* The cameras of a site that are remedied, or excluded, are its cameras.
LEMMA CamerasAfterAreCameras ==
  ASSUME NEW found, AreCameras(found), NEW later \in CamerasAfter(found)
  PROVE  AreCameras(later)
  <1> DEFINE kept == found.excluded \cap DOMAIN found.streams
             low == {c \in DOMAIN found.streams \ kept : ~Suitable(found.streams[c])}
  <1>1. /\ found = [streams |-> found.streams, excluded |-> found.excluded]
        /\ found.streams \in [DOMAIN found.streams -> Stream]
    BY DEF AreCameras
  <1>2. CASE later = [found EXCEPT !.excluded = kept \cup low]
    <2>1. later = [streams |-> found.streams, excluded |-> kept \cup low]
      BY <1>1, <1>2
    <2> QED BY <1>1, <2>1 DEF AreCameras
  <1>3. ASSUME NEW c \in low, NEW i \in StreamIssues(found.streams[c]),
               later = [found EXCEPT
                          !.streams[c] = Changed(found.streams[c], StreamRepair[i])]
        PROVE  AreCameras(later)
    <2> DEFINE repaired == Changed(found.streams[c], StreamRepair[i])
    <2>1. found.streams[c] \in Stream
      BY <1>1
    <2>2. repaired \in Stream
      BY <2>1, RepairedIsStream
    <2> HIDE DEF repaired
    <2>3. later = [streams |-> [found.streams EXCEPT ![c] = repaired],
                   excluded |-> found.excluded]
      BY <1>1, <1>3 DEF repaired
    <2>4. [found.streams EXCEPT ![c] = repaired] \in [DOMAIN found.streams -> Stream]
      BY <1>1, <2>2
    <2> QED BY <2>3, <2>4 DEF AreCameras
  <1>4. \/ later = [found EXCEPT !.excluded = kept \cup low]
        \/ \E c \in low : \E i \in StreamIssues(found.streams[c]) :
             later = [found EXCEPT !.streams[c] = Changed(found.streams[c], StreamRepair[i])]
    BY DEF CamerasAfter
  <1> QED BY <1>2, <1>3, <1>4

\* What is on the bench is what the survey of the item asks for.
Surveyed ==
  bench # None =>
    /\ bench.item = "preflight" /\ profile = "L1" => bench.found \in Host
    /\ bench.item = "identity" => bench.found \in Network
    /\ bench.item = "camera_assessment" => AreCameras(bench.found)

\* Whatever is seen and done on a visit, and whatever else happens, the survey stays one.
LEMMA SurveyStep == TypeOK /\ Surveyed /\ [Next]_vars => Surveyed'
  <1> SUFFICES ASSUME TypeOK, Surveyed, [Next]_vars PROVE Surveyed'
    OBVIOUS
  <1>1. ASSUME Look PROVE Surveyed'
    <2>1. /\ profile' = profile /\ profile \in {"L1", "L2"}
          /\ \E i \in Blockers : \E found \in Observations(GATE_ORDER[i], profile) :
               bench' = [item |-> GATE_ORDER[i], found |-> found]
      BY <1>1 DEF Look, TypeOK
    <2>2. PICK i \in Blockers : \E found \in Observations(GATE_ORDER[i], profile) :
            bench' = [item |-> GATE_ORDER[i], found |-> found]
      BY <2>1
    <2>3. PICK found \in Observations(GATE_ORDER[i], profile) :
            bench' = [item |-> GATE_ORDER[i], found |-> found]
      BY <2>2
    <2>4. bench'.item = GATE_ORDER[i] /\ bench'.found = found
      BY <2>3
    <2> QED BY <2>1, <2>3, <2>4, ObservationsAssumption DEF Surveyed
  <1>2. ASSUME Remedy PROVE Surveyed'
    <2>1. /\ profile' = profile /\ bench # None
          /\ \E finding : \E found \in AfterRemedy(bench.item, bench.found, finding) :
               bench' = [item |-> bench.item, found |-> found]
      BY <1>2 DEF Remedy
    <2>2. PICK finding, found :
            /\ found \in AfterRemedy(bench.item, bench.found, finding)
            /\ bench' = [item |-> bench.item, found |-> found]
      BY <2>1
    <2>3. bench'.item = bench.item /\ bench'.found = found
      BY <2>2
    <2>4. ASSUME bench.item = "preflight", profile = "L1" PROVE found \in Host
      <3>1. bench.found \in Host /\ found \in HostAfter(bench.found, finding)
        BY <2>1, <2>2, <2>4 DEF AfterRemedy, Surveyed
      <3> QED BY <3>1, HostAfterIsHost
    <2>5. ASSUME bench.item = "identity" PROVE found \in Network
      <3>1. bench.found \in Network /\ found \in NetworkAfter(bench.found, finding)
        BY <2>1, <2>2, <2>5 DEF AfterRemedy, Surveyed
      <3> QED BY <3>1, NetworkAfterIsNetwork
    <2>6. ASSUME bench.item = "camera_assessment" PROVE AreCameras(found)
      <3>1. AreCameras(bench.found) /\ found \in CamerasAfter(bench.found)
        BY <2>1, <2>2, <2>6 DEF AfterRemedy, Surveyed
      <3> QED BY <3>1, CamerasAfterAreCameras
    <2> QED BY <2>1, <2>3, <2>4, <2>5, <2>6 DEF Surveyed
  <1>3. ASSUME Pass \/ Restart PROVE Surveyed'
    BY <1>3 DEF Pass, Restart, Surveyed
  <1>4. ASSUME UNCHANGED <<profile, bench>> PROVE Surveyed'
    BY <1>4 DEF Surveyed
  <1> QED BY <1>1, <1>2, <1>3, <1>4
      DEF Next, Activate, ActivateRaises, ApplyException, Deploy, DeployUnsaved, BundleOffered,
          OthersAppend, Tick, vars

\* A survey is on the bench in every state.
LEMMA AlwaysSurveyed == Spec => [](TypeOK /\ Surveyed)
  <1>1. Init => Surveyed
    BY DEF Init, Surveyed
  <1>2. Spec => []TypeOK
    BY GateTypes
  <1> QED BY <1>1, <1>2, SurveyStep, PTL DEF Spec

----------------------------------------------------------------------------
(* What passes *)

\* A network that admits an enrolment has a clear path to each endpoint enrolment needs.
LEMMA EnrolmentNeedsClearPaths ==
  ASSUME NEW network \in Network, EnrolmentPossible(network), NEW e \in REQUIRED_FOR_ENROLMENT
  PROVE  e \in Endpoint /\ EndpointFindings(e, network.paths[e]) = {}
  <1>1. e \in Endpoint
    BY SurveyAssumption
  <1>2. CASE Posture(network) = "online"
    <2>1. NetworkFindings(network) = {}
      BY <1>2 DEF Posture
    <2> QED BY <1>1, <2>1 DEF NetworkFindings
  <1>3. CASE \A d \in REQUIRED_FOR_ENROLMENT : EndpointFindings(d, network.paths[d]) = {}
    BY <1>1, <1>3
  <1> QED BY <1>2, <1>3 DEF EnrolmentPossible

\* An enrolment stays possible whatever the questions nobody asked turn out to be.
LEMMA EnrolmentStaysPossible ==
  ASSUME NEW network \in Network, EnrolmentPossible(network),
         NEW e \in REQUIRED_FOR_ENROLMENT, NEW late \in Answered(network.paths[e].answers)
  PROVE  EnrolmentPossible([network EXCEPT !.paths[e].answers = late])
  <1> DEFINE path == [network.paths[e] EXCEPT !.answers = late]
             then == [network EXCEPT !.paths[e].answers = late]
  <1>1. /\ network.paths \in [Endpoint -> Path] /\ network.inbound_rule_offered \in BOOLEAN
        /\ e \in Endpoint /\ network.paths[e] \in Path
        /\ EndpointFindings(e, network.paths[e]) = {}
    BY EnrolmentNeedsClearPaths DEF Network
  <1>2. EndpointFindings(e, path) = {}
    BY <1>1, ClearStaysClear
  <1>3. /\ then.paths = [network.paths EXCEPT ![e] = path]
        /\ then.inbound_rule_offered = network.inbound_rule_offered
    BY DEF Network
  <1> HIDE DEF path, then
  <1>4. \A d \in Endpoint :
          EndpointFindings(d, then.paths[d]) = EndpointFindings(d, network.paths[d])
    <2> TAKE d \in Endpoint
    <2>1. CASE d = e
      BY <1>1, <1>2, <1>3, <2>1
    <2>2. CASE d # e
      <3>1. then.paths[d] = network.paths[d]
        BY <1>1, <1>3, <2>2
      <3> QED BY <3>1
    <2> QED BY <2>1, <2>2
  <1>5. NetworkFindings(then) = NetworkFindings(network)
    BY <1>4 DEF NetworkFindings
  <1>6. Posture(then) = Posture(network)
    BY <1>3, <1>5 DEF Posture
  <1>7. \A d \in REQUIRED_FOR_ENROLMENT :
          EndpointFindings(d, then.paths[d]) = EndpointFindings(d, network.paths[d])
    BY <1>4, SurveyAssumption
  <1>8. EnrolmentPossible(then)
    BY <1>6, <1>7 DEF EnrolmentPossible
  <1> QED BY <1>8 DEF then

\* No item is passed on the strength of a question nobody asked, whatever a survey may find:
\* a host with one is not qualified, a site with no camera to expect neither, and a path that
\* is clear leaves no question open that could close it.
THEOREM NobodyLookedNothingPasses == Spec => []NobodyLookedNeverPasses
  <1>1. ASSUME TypeOK, Surveyed PROVE NobodyLookedNeverPasses
    <2> SUFFICES ASSUME bench # None, Hard(bench.item, bench.found) = {}
                 PROVE  /\ bench.item = "preflight" /\ profile = "L1" =>
                            \A late \in Answered(bench.found.answers) :
                              Hard("preflight", [bench.found EXCEPT !.answers = late]) = {}
                        /\ bench.item = "preflight" /\ profile # "L1" =>
                             bench.found.expected # {}
                        /\ bench.item = "identity" =>
                             \A e \in REQUIRED_FOR_ENROLMENT :
                               \A late \in Answered(bench.found.paths[e].answers) :
                                 EnrolmentPossible([bench.found EXCEPT !.paths[e].answers = late])
      BY DEF NobodyLookedNeverPasses
    <2>1. ASSUME bench.item = "preflight", profile = "L1",
                 NEW late \in Answered(bench.found.answers)
          PROVE  Hard("preflight", [bench.found EXCEPT !.answers = late]) = {}
      <3>1. bench.found \in Host /\ Failing(QualifyHost(bench.found)) = {}
        BY <1>1, <2>1 DEF Surveyed, Hard
      <3>2. [bench.found EXCEPT !.answers = late] = bench.found
        BY <2>1, <3>1, QualifiedIsMeasured DEF Host
      <3> QED BY <2>1, <3>1, <3>2
    <2>2. ASSUME bench.item = "preflight", profile # "L1" PROVE bench.found.expected # {}
      <3>1. Failing(QualifySite(bench.found)) = {}
        BY <2>2 DEF Hard
      <3>2. "site_cameras_unverified" \notin QualifySite(bench.found)
        BY <3>1 DEF Failing, ADVISORY
      <3> QED BY <3>2 DEF QualifySite, Named
    <2>3. ASSUME bench.item = "identity", NEW e \in REQUIRED_FOR_ENROLMENT,
                 NEW late \in Answered(bench.found.paths[e].answers)
          PROVE  EnrolmentPossible([bench.found EXCEPT !.paths[e].answers = late])
      <3>1. bench.found \in Network
        BY <1>1, <2>3 DEF Surveyed
      <3>2. EnrolmentPossible(bench.found)
        <4>1. \/ EnrolmentPossible(bench.found)
              \/ /\ NetworkFindings(bench.found) = {}
                 /\ Named([inbound_rule_offered |-> bench.found.inbound_rule_offered]) = {}
          BY <2>3 DEF Hard
        <4>2. Named([inbound_rule_offered |-> bench.found.inbound_rule_offered]) = {} =>
                ~bench.found.inbound_rule_offered
          BY DEF Named
        <4> QED BY <4>1, <4>2 DEF EnrolmentPossible, Posture
      <3> QED BY <2>3, <3>1, <3>2, EnrolmentStaysPossible
    <2> QED BY <2>1, <2>2, <2>3
  <1> QED BY <1>1, AlwaysSurveyed, PTL

\* What a commitment covers has no fault of geometry, resolution, rate or occlusion, whatever
\* the cameras of a site are like: with the code's weights and penalties, each alone sinks the
\* best stream.
THEOREM CommitmentRestsOnTheSuitable == Spec => []CommitmentRests
  <1>1. ASSUME TypeOK, Surveyed PROVE CommitmentRests
    <2> SUFFICES ASSUME bench # None, bench.item = "camera_assessment",
                        Hard(bench.item, bench.found) = {},
                        NEW c \in DOMAIN bench.found.streams \ bench.found.excluded
                 PROVE  StreamIssues(bench.found.streams[c])
                          \subseteq {"backlit", "lens_dirty", "ir_glare"}
      BY DEF CommitmentRests
    <2>1. CommitmentRefusals(bench.found.streams, bench.found.excluded) = {}
      BY DEF Hard
    <2>2. Suitable(bench.found.streams[c])
      <3> DEFINE low == \E d \in DOMAIN bench.found.streams \ bench.found.excluded :
                          ~Suitable(bench.found.streams[d])
      <3>1. Named([unresolved_low_score_stream |-> low]) = {}
        BY <2>1 DEF CommitmentRefusals
      <3>2. ~low
        <4> HIDE DEF low
        <4> QED BY <3>1 DEF Named
      <3> QED BY <3>2
    <2>3. bench.found.streams[c] \in Stream
      BY <1>1 DEF Surveyed, AreCameras
    <2> QED BY <2>2, <2>3, FaultSinks
  <1> QED BY <1>1, AlwaysSurveyed, PTL

=============================================================================
