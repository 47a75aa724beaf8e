--------------------------- MODULE PlatformProofs ---------------------------
(***************************************************************************)
(* Proofs about the host platform.  Boot: any limit on failed health       *)
(* checks, whatever each boot stage is handed; that there are exactly two  *)
(* slots is used: with three, "the other slot" would not be the one that   *)
(* was left.  Supervisor: any finite set of units and any dependencies     *)
(* between them, cyclic ones included.                                     *)
(***************************************************************************)
EXTENDS Boot, Supervisor, FiniteSetTheorems, TLAPS

----------------------------------------------------------------------------
(* Boot *)

\* The other slot is the other one of the two, whichever this one is.
LEMMA OtherIsTheOther ==
  ASSUME NEW s \in Slot
  PROVE  Other(s) \in Slot /\ Other(s) # s /\ Slot = {s, Other(s)}
  <1>1. PICK a \in Slot, b \in Slot : a # b /\ Slot = {a, b}
    BY BootAssumption
  <1>2. \E t \in Slot : t # s
    BY <1>1
  <1>3. Other(s) \in Slot /\ Other(s) # s
    BY <1>2 DEF Other
  <1> QED BY <1>1, <1>3

----------------------------------------------------------------------------
(* A slot is left at the third failure in a row, and never runs again *)

Slots == active \in Slot /\ left \subseteq Slot /\ failed \in [Slot -> Nat]

\* Why it does not return: its counter stays at the limit, since only the active
\* slot's counter moves, and a roll back wants the other counter below the limit.
LeftStaysLeft ==
  /\ active \notin left
  /\ \A s \in left : failed[s] >= MAX_FAILED_HEALTH_CHECKS

\* Why the counter is the run of failures: a slot starts with its counter at zero,
\* because it has never run before.
CountsTheRun ==
  /\ failed[active] = streak
  /\ \A s \in Slot \ {active} : s \notin left => failed[s] = 0
  /\ streak >= MAX_FAILED_HEALTH_CHECKS => left # {}

RollsBackInv == Slots /\ LeftStaysLeft /\ CountsTheRun

\* What a step may do to the slot that runs.
Leaves ==
  /\ active' # active => active' \notin left /\ streak + 1 = MAX_FAILED_HEALTH_CHECKS
  /\ streak' >= MAX_FAILED_HEALTH_CHECKS => left' # {}

\* The initial states have the invariant.
LEMMA RollsBackInit == Init => RollsBackInv
  BY BootAssumption DEF Init, RollsBackInv, Slots, LeftStaysLeft, CountsTheRun

\* A failed health check keeps the invariant, and leaves a slot only as it should.
LEMMA RollsBackReportFailed ==
  ASSUME RollsBackInv, ReportFailed
  PROVE  RollsBackInv' /\ Leaves
  <1> DEFINE count == failed[active] + 1
  <1> USE DEF RollsBackInv, Slots, LeftStaysLeft, CountsTheRun
  <1>0. MAX_FAILED_HEALTH_CHECKS \in Nat \ {0} /\ count \in Nat /\ count = streak + 1
    BY BootAssumption
  <1>1. failed' = [failed EXCEPT ![active] = count]
    BY DEF ReportFailed
  <1>2. \A s \in Slot : s # active => failed'[s] = failed[s]
    BY <1>1
  <1>3. failed' \in [Slot -> Nat] /\ failed'[active] = count
    BY <1>0, <1>1
  <1>4. CASE RollsBack(count)
    <2>1. active' = Other(active) /\ left' = left \cup {active} /\ streak' = 0
      BY <1>4 DEF ReportFailed
    <2>2. Other(active) \in Slot /\ Other(active) # active /\ Slot = {active, Other(active)}
      BY OtherIsTheOther
    <2>3. count >= MAX_FAILED_HEALTH_CHECKS
          /\ ~(failed[Other(active)] >= MAX_FAILED_HEALTH_CHECKS)
      BY <1>0, <1>4, <2>2 DEF RollsBack
    <2>4. Other(active) \notin left /\ failed[Other(active)] = 0
      BY <2>2, <2>3
    <2>5. left = {}
      BY <2>2, <2>4
    <2>6. streak + 1 = MAX_FAILED_HEALTH_CHECKS
      BY <1>0, <2>3, <2>5
    <2>7. RollsBackInv'
      BY <1>0, <1>2, <1>3, <2>1, <2>2, <2>3, <2>4
    <2> QED BY <1>0, <2>1, <2>4, <2>6, <2>7 DEF Leaves
  <1>5. CASE ~RollsBack(count)
    <2>1. active' = active /\ left' = left /\ streak' = streak + 1
      BY <1>5 DEF ReportFailed
    <2>2. Other(active) \in Slot /\ Other(active) # active /\ Slot = {active, Other(active)}
      BY OtherIsTheOther
    <2>3. count >= MAX_FAILED_HEALTH_CHECKS => left # {}
      <3>1. SUFFICES ASSUME count >= MAX_FAILED_HEALTH_CHECKS PROVE left # {}
        OBVIOUS
      <3>2. ~(failed[Other(active)] < MAX_FAILED_HEALTH_CHECKS)
        BY <1>5, <3>1 DEF RollsBack
      <3> QED BY <1>0, <2>2, <3>2
    <2> QED BY <1>0, <1>2, <1>3, <2>1, <2>3 DEF Leaves
  <1> QED BY <1>4, <1>5

\* Every step keeps the invariant, and leaves a slot only as it should.
LEMMA RollsBackNext ==
  ASSUME RollsBackInv, [Next]_vars
  PROVE  RollsBackInv' /\ Leaves
  <1> USE DEF RollsBackInv, Slots, LeftStaysLeft, CountsTheRun, Leaves
  <1>1. CASE UNCHANGED <<active, failed, streak, left>>
    BY <1>1
  <1>2. CASE ReportHealthy
    BY <1>2, BootAssumption DEF ReportHealthy
  <1>3. CASE ReportFailed
    BY <1>3, RollsBackReportFailed
  <1>4. ASSUME NEW stage, NEW found, NEW good, Complete(stage, found, good)
        PROVE  UNCHANGED <<active, failed, streak, left>>
    BY <1>4 DEF Complete
  <1> QED BY <1>1, <1>2, <1>3, <1>4
          DEF Next, vars, VerifyChain, MountAudit, VerifyPrivacySet, Plain, StartContainers

\* Two bad releases end on the second, each at its third failure in a row.
THEOREM NoPingPong == Spec => RollsBackOnce
  <1>1. Init => RollsBackInv
    BY RollsBackInit
  <1>2. RollsBackInv /\ [Next]_vars => RollsBackInv'
    BY RollsBackNext
  <1>3. RollsBackInv /\ [Next]_vars =>
          [/\ active' # active => active' \notin left /\ streak + 1 = MAX_FAILED_HEALTH_CHECKS
           /\ streak' >= MAX_FAILED_HEALTH_CHECKS => left' # {}]_vars
    BY RollsBackNext DEF Leaves
  <1> QED BY <1>1, <1>2, <1>3, PTL DEF Spec, RollsBackOnce

----------------------------------------------------------------------------
(* Containers run only after the privacy set verified *)

\* From the stage that checks the privacy set on, the mode tells its verdict.
VerdictKept ==
  /\ completed \in 0..6
  /\ completed >= 5 /\ mode = "normal" => "verify_privacy_set" \in passed
  /\ completed = 6 => mode = "normal"

\* The six stages by number.
LEMMA Stages ==
  /\ Len(SEQUENCE) = 6
  /\ SEQUENCE[1] = "verify_chain" /\ SEQUENCE[2] = "unlock_data"
  /\ SEQUENCE[3] = "mount_audit" /\ SEQUENCE[4] = "start_services"
  /\ SEQUENCE[5] = "verify_privacy_set" /\ SEQUENCE[6] = "start_containers"
  BY DEF SEQUENCE

\* Every step keeps the verdict with the mode.
LEMMA VerdictNext ==
  ASSUME VerdictKept, [Next]_vars
  PROVE  VerdictKept'
  <1> USE DEF VerdictKept
  <1>1. ASSUME NEW stage, NEW found, NEW good, Complete(stage, found, good)
        PROVE  /\ completed \in 0..5 /\ completed' = completed + 1
               /\ stage = SEQUENCE[completed + 1]
               /\ passed' = IF good THEN passed \cup {stage} ELSE passed
    BY <1>1, Stages DEF Complete
  <1>2. CASE \E signed \in BOOLEAN : VerifyChain(signed)
    BY <1>1, <1>2, Stages DEF VerifyChain
  <1>3. CASE \E layout \in Layout : MountAudit(layout)
    BY <1>1, <1>3, Stages DEF MountAudit
  <1>4. CASE \E ok \in BOOLEAN : VerifyPrivacySet(ok)
    BY <1>1, <1>4, Stages DEF VerifyPrivacySet
  <1>5. CASE \E stage \in {"unlock_data", "start_services"} : Plain(stage)
    <2>1. PICK stage \in {"unlock_data", "start_services"} : Plain(stage)
      BY <1>5
    <2>2. Complete(stage, {}, TRUE) /\ mode' = mode
      BY <2>1 DEF Plain
    <2>3. completed \in 0..5 /\ completed' = completed + 1 /\ stage = SEQUENCE[completed + 1]
      BY <1>1, <2>2
    <2>4. completed \in {1, 3}
      BY <2>1, <2>3, Stages
    <2> QED BY <2>2, <2>3, <2>4
  <1>6. CASE StartContainers
    <2>1. Complete("start_containers", {}, TRUE) /\ mode' = mode /\ mode = "normal"
      BY <1>6 DEF StartContainers
    <2>2. /\ completed \in 0..5 /\ completed' = completed + 1
          /\ SEQUENCE[completed + 1] = "start_containers"
          /\ passed' = passed \cup {"start_containers"}
      BY <1>1, <2>1
    <2>3. completed = 5
      BY <2>2, Stages
    <2> QED BY <2>1, <2>2, <2>3
  <1>7. CASE ReportHealthy
    BY <1>7 DEF ReportHealthy
  <1>8. CASE ReportFailed
    <2> DEFINE count == failed[active] + 1
    <2>1. \/ completed' = 0
          \/ completed' = completed /\ passed' = passed
      BY <1>8 DEF ReportFailed, StagesAfter
    <2>2. mode' = mode
      BY <1>8 DEF ReportFailed
    <2> QED BY <2>1, <2>2
  <1>9. CASE UNCHANGED vars
    BY <1>9 DEF vars
  <1> QED BY <1>2, <1>3, <1>4, <1>5, <1>6, <1>7, <1>8, <1>9 DEF Next

\* R4: whatever verdicts, layouts and health reports come, containers have started
\* only when the privacy set of the running slot verified.
THEOREM PrivacySetFirst == Spec => []ContainersOnlyAfterPrivacy
  <1>1. Init => VerdictKept
    BY DEF Init, VerdictKept
  <1>2. VerdictKept /\ [Next]_vars => VerdictKept'
    BY VerdictNext
  <1>3. VerdictKept => ContainersOnlyAfterPrivacy
    <2> SUFFICES ASSUME VerdictKept, Done("start_containers")
                 PROVE  mode = "normal" /\ "verify_privacy_set" \in passed
      BY DEF ContainersOnlyAfterPrivacy
    <2>1. PICK i \in 1..completed : SEQUENCE[i] = "start_containers"
      BY DEF Done
    <2>2. i \in 1..6 /\ completed >= i
      BY <2>1 DEF VerdictKept
    <2>3. i = 6
      BY <2>1, <2>2, Stages
    <2> QED BY <2>2, <2>3 DEF VerdictKept
  <1> QED BY <1>1, <1>2, <1>3, PTL DEF Spec

----------------------------------------------------------------------------
(* Types *)

\* The initial states have their types.
LEMMA BootTypesInit == Init => TypeOK
  BY BootAssumption, Stages DEF Init, TypeOK

\* Completing a stage keeps the types, and adds the stage at most to those passed.
LEMMA CompleteTyped ==
  ASSUME TypeOK, NEW stage, NEW found \in SUBSET BootFinding, NEW good, Complete(stage, found, good)
  PROVE  /\ UNCHANGED <<active, failed, streak, left>>
         /\ completed' \in 0..Len(SEQUENCE) /\ findings' = findings \cup found
         /\ findings' \subseteq BootFinding
         /\ passed' \subseteq {SEQUENCE[i] : i \in 1..completed'}
  <1>1. completed \in 0..5 /\ completed' = completed + 1 /\ stage = SEQUENCE[completed']
    BY Stages DEF TypeOK, Complete
  <1>2. passed' \subseteq passed \cup {stage}
    BY DEF Complete
  <1>3. {SEQUENCE[i] : i \in 1..completed} \cup {stage}
          \subseteq {SEQUENCE[i] : i \in 1..completed'}
    BY <1>1
  <1>4. passed \subseteq {SEQUENCE[i] : i \in 1..completed}
    BY DEF TypeOK
  <1>5. passed' \subseteq {SEQUENCE[i] : i \in 1..completed'}
    BY <1>2, <1>3, <1>4
  <1>6. completed' \in 0..Len(SEQUENCE)
    BY <1>1, Stages
  <1>7. findings' = findings \cup found /\ UNCHANGED <<active, failed, streak, left>>
    BY DEF Complete
  <1>8. findings' \subseteq BootFinding
    BY <1>7 DEF TypeOK
  <1> QED BY <1>5, <1>6, <1>7, <1>8

\* Every step keeps the types.
LEMMA BootTypesNext == TypeOK /\ [Next]_vars => TypeOK'
  <1> SUFFICES ASSUME TypeOK, [Next]_vars PROVE TypeOK'
    OBVIOUS
  <1>1. ASSUME NEW signed \in BOOLEAN, VerifyChain(signed) PROVE TypeOK'
    <2> DEFINE found == IF signed THEN {} ELSE {"chain_unsigned"}
    <2>1. found \in SUBSET BootFinding /\ Complete("verify_chain", found, signed) /\ mode' = mode
      BY <1>1 DEF VerifyChain, BootFinding
    <2> HIDE DEF found
    <2> QED BY <2>1, CompleteTyped DEF TypeOK
  <1>2. ASSUME NEW layout \in Layout, MountAudit(layout) PROVE TypeOK'
    <2> DEFINE found == {f \in {"layout_invalid", "audit_not_mounted"} :
                 layout # "valid" /\ (f = "audit_not_mounted" => layout = "without_audit")}
    <2>1. /\ found \in SUBSET BootFinding /\ mode' = mode
          /\ Complete("mount_audit", found, layout # "without_audit")
      BY <1>2 DEF MountAudit, BootFinding
    <2> HIDE DEF found
    <2> QED BY <2>1, CompleteTyped DEF TypeOK
  <1>3. ASSUME NEW ok \in BOOLEAN, VerifyPrivacySet(ok) PROVE TypeOK'
    <2> DEFINE found == IF ok THEN {} ELSE {"privacy_set_unverified"}
    <2>1. /\ found \in SUBSET BootFinding /\ mode' = IF ok THEN mode ELSE "ingest_only"
          /\ Complete("verify_privacy_set", found, ok)
          /\ ~ok => "privacy_set_unverified" \in found
      BY <1>3 DEF VerifyPrivacySet, BootFinding
    <2> HIDE DEF found
    <2>2. /\ UNCHANGED <<active, failed, streak, left>>
          /\ completed' \in 0..Len(SEQUENCE) /\ findings' = findings \cup found
          /\ findings' \subseteq BootFinding
          /\ passed' \subseteq {SEQUENCE[i] : i \in 1..completed'}
      BY <2>1, CompleteTyped
    <2>3. mode' \in {"normal", "ingest_only"}
      BY <2>1 DEF TypeOK
    <2>4. mode' = "ingest_only" => "privacy_set_unverified" \in findings'
      <3>1. CASE ok
        BY <2>1, <2>2, <3>1 DEF TypeOK
      <3>2. CASE ~ok
        BY <2>1, <2>2, <3>2
      <3> QED BY <3>1, <3>2
    <2> QED BY <2>2, <2>3, <2>4 DEF TypeOK
  <1>4. ASSUME NEW stage, Plain(stage) PROVE TypeOK'
    BY <1>4, CompleteTyped DEF Plain, TypeOK
  <1>5. ASSUME StartContainers PROVE TypeOK'
    BY <1>5, CompleteTyped DEF StartContainers, TypeOK
  <1>6. ASSUME ReportHealthy PROVE TypeOK'
    BY <1>6 DEF ReportHealthy, TypeOK
  <1>7. ASSUME ReportFailed PROVE TypeOK'
    <2> DEFINE count == failed[active] + 1
    <2>1. count \in Nat /\ Other(active) \in Slot
      BY OtherIsTheOther DEF TypeOK
    <2> HIDE DEF count
    <2>2. FailureNamed(count) \subseteq BootFinding
      BY DEF FailureNamed, BootFinding
    <2>3. /\ failed' = [failed EXCEPT ![active] = count] /\ mode' = mode
          /\ findings' = findings \cup FailureNamed(count)
          /\ active' \in Slot /\ streak' \in Nat /\ left' \subseteq Slot
      BY <1>7, <2>1 DEF ReportFailed, TypeOK, count
    <2>4. \/ completed' = 0 /\ passed' = {}
          \/ completed' = completed /\ passed' = passed
      BY <1>7 DEF ReportFailed, StagesAfter, count
    <2>5. /\ completed' \in 0..Len(SEQUENCE)
          /\ passed' \subseteq {SEQUENCE[i] : i \in 1..completed'}
      BY <2>4, Stages DEF TypeOK
    <2>6. findings' \subseteq BootFinding /\ (mode' = "ingest_only" =>
                                               "privacy_set_unverified" \in findings')
      BY <2>2, <2>3 DEF TypeOK
    <2>7. failed' \in [Slot -> Nat]
      BY <2>1, <2>3 DEF TypeOK
    <2>8. mode' \in {"normal", "ingest_only"}
      BY <2>3 DEF TypeOK
    <2> QED BY <2>3, <2>5, <2>6, <2>7, <2>8 DEF TypeOK
  <1>8. CASE UNCHANGED vars
    BY <1>8 DEF vars, TypeOK
  <1> QED BY <1>1, <1>2, <1>3, <1>4, <1>5, <1>6, <1>7, <1>8 DEF Next

\* Slots, counters and stages have their types, and a device that only ingests has the
\* finding that says why, through every rollback.
THEOREM BootTypes == Spec => []TypeOK
  BY BootTypesInit, BootTypesNext, PTL DEF Spec


----------------------------------------------------------------------------
(* Supervisor *)

\* The units _stop_orphans keeps are closed under dependencies, and a unit it does
\* not keep needs one it does not keep.
LEMMA KeptIsClosed ==
  ASSUME NEW R \in SUBSET Unit
  PROVE  /\ Kept(R) \subseteq R
         /\ Closed(Kept(R))
         /\ \A u \in R : DEPENDENCIES[u] \subseteq Kept(R) => u \in Kept(R)
  <1>1. Kept(R) \subseteq R /\ Closed(Kept(R))
    BY DEF Kept, Closed
  <1>2. ASSUME NEW u \in R, DEPENDENCIES[u] \subseteq Kept(R)
        PROVE  u \in Kept(R)
    <2>1. Kept(R) \cup {u} \in SUBSET R /\ Closed(Kept(R) \cup {u})
      BY <1>1, <1>2 DEF Closed
    <2> QED BY <2>1 DEF Kept
  <1> QED BY <1>1, <1>2

\* After _stop_orphans exactly the kept units run.
LEMMA StopOrphansKeeps ==
  ASSUME NEW us \in [Unit -> Status]
  PROVE  /\ StopOrphans(us) \in [Unit -> Status]
         /\ RunningIn(StopOrphans(us)) = Kept(RunningIn(us))
         /\ \A u \in Unit : \/ StopOrphans(us)[u] = us[u]
                            \/ /\ us[u].state = "running"
                               /\ StopOrphans(us)[u] =
                                    [state |-> "stopped", finding |-> "dependency_lost"]
                               /\ u \notin Kept(RunningIn(us))
  <1> DEFINE R == RunningIn(us)
  <1>1. R \in SUBSET Unit
    BY DEF RunningIn
  <1>2. Kept(R) \subseteq R
    BY <1>1, KeptIsClosed
  <1>3. [state |-> "stopped", finding |-> "dependency_lost"] \in Status
    BY DEF Status
  <1>4. \A u \in Unit : StopOrphans(us)[u] =
           IF u \in R \ Kept(R) THEN [state |-> "stopped", finding |-> "dependency_lost"]
           ELSE us[u]
    BY DEF StopOrphans
  <1>5. StopOrphans(us) \in [Unit -> Status]
    BY <1>3 DEF StopOrphans
  <1>6. \A u \in Unit : StopOrphans(us)[u].state = "running" <=> u \in Kept(R)
    BY <1>2, <1>4 DEF RunningIn
  <1>7. RunningIn(StopOrphans(us)) = Kept(R)
    BY <1>1, <1>2, <1>6 DEF RunningIn
  <1> QED BY <1>4, <1>5, <1>7 DEF RunningIn

\* Any transition, as one status replaced and the orphans stopped.
LEMMA NextReplacesOne ==
  ASSUME UnitsNext
  PROVE  \E u \in Unit, status \in Status :
           /\ With(u, status)
           /\ status.state = "running" => status.finding = None
           /\ status.state = "refused" <=> status.finding \in ActivationFinding
           /\ status.state = "failed" <=> status.finding = "health_lost"
  <1>1. ASSUME NEW u \in Unit, NEW offer \in Offer, Activate(u, offer)
        PROVE  \E status \in Status :
                 /\ With(u, status)
                 /\ status.state = "running" => status.finding = None
                 /\ status.state = "refused" <=> status.finding \in ActivationFinding
                 /\ status.state = "failed" <=> status.finding = "health_lost"
    <2> DEFINE finding == Refusal(u, offer)
               status == [state |-> IF finding = None THEN "running" ELSE "refused",
                          finding |-> finding]
    <2>1. finding \in ActivationFinding \cup {None}
      BY DEF Refusal, ActivationFinding
    <2>2. /\ None \notin ActivationFinding /\ None # "health_lost"
          /\ "health_lost" \notin ActivationFinding
      BY DEF None, ActivationFinding
    <2>3. With(u, status)
      BY <1>1 DEF Activate
    <2>4. status \in Status
      BY <2>1 DEF Status
    <2> QED BY <2>1, <2>2, <2>3, <2>4
  <1>2. ASSUME NEW u \in Unit, LoseHealth(u)
        PROVE  \E status \in Status :
                 /\ With(u, status)
                 /\ status.state = "running" => status.finding = None
                 /\ status.state = "refused" <=> status.finding \in ActivationFinding
                 /\ status.state = "failed" <=> status.finding = "health_lost"
    <2>1. [state |-> "failed", finding |-> "health_lost"] \in Status
          /\ "health_lost" \notin ActivationFinding
      BY DEF Status, ActivationFinding
    <2> QED BY <1>2, <2>1 DEF LoseHealth
  <1> QED BY <1>1, <1>2 DEF UnitsNext

\* Types: every unit that is down says why.
THEOREM UnitsTyped == UnitsSpec => []UnitsTypeOK
  <1>1. UnitsInit => UnitsTypeOK
    BY DEF UnitsInit, UnitsTypeOK, Status, ActivationFinding, None
  <1>2. ASSUME UnitsTypeOK, [UnitsNext]_units PROVE UnitsTypeOK'
    <2>1. CASE UNCHANGED units
      BY <1>2, <2>1 DEF UnitsTypeOK
    <2>2. CASE UnitsNext
      <3>1. PICK u \in Unit, status \in Status :
              /\ With(u, status)
              /\ status.state = "running" => status.finding = None
              /\ status.state = "refused" <=> status.finding \in ActivationFinding
              /\ status.state = "failed" <=> status.finding = "health_lost"
        BY <2>2, NextReplacesOne
      <3> DEFINE us == [units EXCEPT ![u] = status]
      <3>2. us \in [Unit -> Status] /\ units' = StopOrphans(us)
        BY <1>2, <3>1 DEF UnitsTypeOK, With
      <3>3. \A v \in Unit : /\ us[v].state = "running" => us[v].finding = None
                            /\ us[v].state = "refused" <=> us[v].finding \in ActivationFinding
                            /\ us[v].state = "failed" <=> us[v].finding = "health_lost"
        BY <1>2, <3>1 DEF UnitsTypeOK
      <3>4. "dependency_lost" \notin ActivationFinding
        BY DEF ActivationFinding
      <3> HIDE DEF us
      <3>5. units' \in [Unit -> Status]
        BY <3>2, StopOrphansKeeps
      <3>6. \A v \in Unit : \/ units'[v] = us[v]
                            \/ units'[v] = [state |-> "stopped", finding |-> "dependency_lost"]
        BY <3>2, StopOrphansKeeps
      <3> QED BY <3>3, <3>4, <3>5, <3>6 DEF UnitsTypeOK
    <2> QED BY <1>2, <2>1, <2>2
  <1> QED BY <1>1, <1>2, PTL DEF UnitsSpec

\* A unit runs only while all it depends on runs.  Nothing has to be known of the
\* state before: one pass of _stop_orphans establishes it.
THEOREM NeverFailsOpen == UnitsSpec => []DependenciesRun
  <1>1. UnitsInit => DependenciesRun
    BY DEF UnitsInit, DependenciesRun, Closed, Running, RunningIn
  <1>2. ASSUME UnitsTypeOK, DependenciesRun, [UnitsNext]_units PROVE DependenciesRun'
    <2>1. CASE UNCHANGED units
      BY <1>2, <2>1 DEF DependenciesRun, Closed, Running, RunningIn
    <2>2. CASE UnitsNext
      <3>1. PICK u \in Unit, status \in Status : With(u, status)
        BY <2>2, NextReplacesOne
      <3> DEFINE us == [units EXCEPT ![u] = status]
      <3>2. us \in [Unit -> Status] /\ units' = StopOrphans(us)
        BY <1>2, <3>1 DEF UnitsTypeOK, With
      <3> HIDE DEF us
      <3>3. RunningIn(units') = Kept(RunningIn(us)) /\ RunningIn(us) \in SUBSET Unit
        BY <3>2, StopOrphansKeeps DEF RunningIn
      <3>4. Closed(RunningIn(units'))
        BY <3>3, KeptIsClosed
      <3> QED BY <3>4 DEF DependenciesRun, Closed, Running, RunningIn
    <2> QED BY <1>2, <2>1, <2>2
  <1> QED BY <1>1, <1>2, UnitsTyped, PTL DEF UnitsSpec

\* Besides the unit a transition is about, it stops only units that have lost a
\* dependency.
THEOREM LossesAreContained == UnitsSpec => OnlyDependentsFollow
  <1>1. ASSUME UnitsTypeOK, [UnitsNext]_units
        PROVE  [\E u \in Unit : \A v \in Unit \ {u} :
                  units'[v] # units[v] =>
                    /\ units[v].state = "running"
                    /\ units'[v] = [state |-> "stopped", finding |-> "dependency_lost"]
                    /\ ~(DEPENDENCIES[v] \subseteq Running')]_units
    <2> SUFFICES ASSUME UnitsNext
                 PROVE  \E u \in Unit : \A v \in Unit \ {u} :
                          units'[v] # units[v] =>
                            /\ units[v].state = "running"
                            /\ units'[v] = [state |-> "stopped", finding |-> "dependency_lost"]
                            /\ ~(DEPENDENCIES[v] \subseteq Running')
      BY <1>1
    <2>1. PICK u \in Unit, status \in Status : With(u, status)
      BY NextReplacesOne
    <2> DEFINE us == [units EXCEPT ![u] = status]
    <2>2. us \in [Unit -> Status] /\ units' = StopOrphans(us)
          /\ \A v \in Unit \ {u} : us[v] = units[v]
      BY <1>1, <2>1 DEF UnitsTypeOK, With
    <2> HIDE DEF us
    <2>3. Running' = Kept(RunningIn(us)) /\ RunningIn(us) \in SUBSET Unit
      BY <2>2, StopOrphansKeeps DEF Running, RunningIn
    <2>4. ASSUME NEW v \in Unit \ {u}, units'[v] # units[v]
          PROVE  /\ units[v].state = "running"
                 /\ units'[v] = [state |-> "stopped", finding |-> "dependency_lost"]
                 /\ ~(DEPENDENCIES[v] \subseteq Running')
      <3>1. /\ us[v].state = "running" /\ v \notin Kept(RunningIn(us))
            /\ units'[v] = [state |-> "stopped", finding |-> "dependency_lost"]
        BY <2>2, <2>4, StopOrphansKeeps
      <3>2. v \in RunningIn(us)
        BY <3>1 DEF RunningIn
      <3> QED BY <2>2, <2>3, <3>1, <3>2, KeptIsClosed
    <2> QED BY <2>4
  <1> QED BY <1>1, UnitsTyped, PTL DEF UnitsSpec, OnlyDependentsFollow

\* A round of the loop drops nothing that will be kept, and something while there are orphans.
LEMMA RoundKeepsKept ==
  ASSUME NEW R \in SUBSET Unit
  PROVE  /\ Kept(R \ Orphans(R)) = Kept(R)
         /\ Orphans(R) = {} => Kept(R) = R
  <1>1. ASSUME NEW S \in SUBSET R, Closed(S)
        PROVE  S \subseteq R \ Orphans(R)
    BY <1>1 DEF Closed, Orphans
  <1>2. Kept(R) \subseteq Kept(R \ Orphans(R))
    BY <1>1 DEF Kept
  <1>3. Kept(R \ Orphans(R)) \subseteq Kept(R)
    BY DEF Kept
  <1>4. ASSUME Orphans(R) = {} PROVE Kept(R) = R
    <2>1. Closed(R)
      BY <1>4 DEF Orphans, Closed
    <2> QED BY <2>1 DEF Kept
  <1> QED BY <1>2, <1>3, <1>4

\* The loop is well defined: what is kept solves its equation.
LEMMA RoundsEquation ==
  ASSUME NEW R \in SUBSET Unit
  PROVE  Rounds[R] = IF Orphans(R) = {} THEN R ELSE Rounds[R \ Orphans(R)]
  <1> DEFINE Solves(f) ==
        f = [S \in SUBSET Unit |-> IF Orphans(S) = {} THEN S ELSE f[S \ Orphans(S)]]
  <1> DEFINE kept == [S \in SUBSET Unit |-> Kept(S)]
  <1>1. \A S \in SUBSET Unit :
          kept[S] = IF Orphans(S) = {} THEN S ELSE kept[S \ Orphans(S)]
    <2> SUFFICES ASSUME NEW S \in SUBSET Unit
                 PROVE  kept[S] = IF Orphans(S) = {} THEN S ELSE kept[S \ Orphans(S)]
      OBVIOUS
    <2>1. S \ Orphans(S) \in SUBSET Unit
      OBVIOUS
    <2>2. kept[S] = Kept(S) /\ kept[S \ Orphans(S)] = Kept(S \ Orphans(S))
      BY <2>1
    <2> QED BY <2>2, RoundKeepsKept
  <1>2. Solves(kept)
    BY <1>1
  <1>3. Rounds = CHOOSE f : Solves(f)
    BY DEF Rounds
  <1> HIDE DEF kept
  <1>4. Solves(Rounds)
    <2> HIDE DEF Solves
    <2> QED BY <1>2, <1>3
  <1> QED BY <1>4

\* The loop ends, with what is kept: of the sets for which it did not, one would be
\* smallest; but a round makes it smaller.
LEMMA LoopEndsWithKept ==
  \A R \in SUBSET Unit : Rounds[R] = Kept(R)
  <1> DEFINE Bad == {R \in SUBSET Unit : Rounds[R] # Kept(R)}
  <1> DEFINE Smaller == StrictSubsetOrdering(Unit)
  <1> SUFFICES ASSUME Bad # {} PROVE FALSE
    OBVIOUS
  <1>1. IsWellFoundedOn(Smaller, SUBSET Unit)
    BY SupervisorAssumption, FS_StrictSubsetOrderingWellFounded, FS_FiniteSubsetsOfFinite
  <1>2. Bad \subseteq SUBSET Unit
    OBVIOUS
  <1> HIDE DEF Smaller, Bad
  <1>3. PICK R \in Bad : \A S \in Bad : <<S, R>> \notin Smaller
    BY <1>1, <1>2, WFMin
  <1>4. R \in SUBSET Unit /\ Rounds[R] # Kept(R)
    BY DEF Bad
  <1>5. Rounds[R] = IF Orphans(R) = {} THEN R ELSE Rounds[R \ Orphans(R)]
    BY <1>4, RoundsEquation
  <1>6. CASE Orphans(R) = {}
    BY <1>4, <1>5, <1>6, RoundKeepsKept
  <1>7. CASE Orphans(R) # {}
    <2>1. R \ Orphans(R) \in SUBSET R /\ R \ Orphans(R) # R
      BY <1>7 DEF Orphans
    <2>2. <<R \ Orphans(R), R>> \in Smaller
      BY <1>4, <2>1 DEF Smaller, StrictSubsetOrdering
    <2>3. R \ Orphans(R) \notin Bad
      BY <1>3, <2>2
    <2>4. Rounds[R \ Orphans(R)] = Kept(R \ Orphans(R))
      BY <1>4, <2>1, <2>3 DEF Bad
    <2> QED BY <1>4, <1>5, <1>7, <2>4, RoundKeepsKept
  <1> QED BY <1>6, <1>7

\* However the units depend on each other, and whichever is lost, the rounds of
\* _stop_orphans end with the largest set of the others that needs nothing outside it
\* (supervisor.py:246-257).
THEOREM OrphansAreFound == UnitsSpec => []LoopKeepsTheMost
  <1>1. LoopKeepsTheMost
    <2>1. \A u \in Running : Running \ {u} \in SUBSET Unit
      BY DEF Running, RunningIn
    <2> QED BY <2>1, LoopEndsWithKept DEF LoopKeepsTheMost, AfterLoop
  <1> QED BY <1>1, PTL

=============================================================================
