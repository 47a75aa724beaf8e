-------------------------------- MODULE Boot --------------------------------
(***************************************************************************)
(* The boot chain and the A/B root slots (t1/platform/boot.py): BootState  *)
(* is immutable, step_boot and report_health return the next one, and the  *)
(* variables are the latest.  Health reports come at any time, between two *)
(* stages as well.  A stage asked for out of order raises BootOrderError   *)
(* and changes nothing, so only the expected stage is an action.  findings *)
(* is the set of what was found.  What each stage is handed (signature of  *)
(* the chain, disk layout, verdict on the privacy set) is its input.       *)
(* A definition named for a fault is the wrong form of the one after it.   *)
(***************************************************************************)
EXTENDS Naturals, Sequences

CONSTANTS
  Slot,                       \* the two root slots
  MAX_FAILED_HEALTH_CHECKS,   \* consecutive failures that roll a slot back
  MaxFailed                   \* bound of the model: failures counted per slot

ASSUME BootAssumption ==
  /\ \E a, b \in Slot : a # b /\ Slot = {a, b}
  /\ MAX_FAILED_HEALTH_CHECKS \in Nat \ {0}
  /\ MaxFailed \in Nat

SEQUENCE == <<"verify_chain", "unlock_data", "mount_audit", "start_services",
              "verify_privacy_set", "start_containers">>
BootFinding == {"chain_unsigned", "layout_invalid", "audit_not_mounted", "stage_out_of_order",
                "privacy_set_unverified", "health_check_failed", "rolled_back",
                "no_healthy_slot"}
\* What layout validate_layout is given: without an audit volume (or none at all),
\* invalid in another way, or valid
Layout == {"without_audit", "invalid", "valid"}

VARIABLES
  active,      \* the slot that runs
  failed,      \* slot -> failed_health_checks
  mode,        \* Mode
  completed,   \* how many stages of SEQUENCE have completed
  findings,
  \* history, read by no action
  streak,      \* failed checks of the active slot since its last success or start
  left,        \* the slots that were rolled back
  passed       \* stages at which the active slot was given what it should be

state == <<active, failed, mode, completed, findings>>
vars == <<active, failed, mode, completed, findings, streak, left, passed>>

Other(slot) == CHOOSE s \in Slot : s # slot
Done(stage) == \E i \in 1..completed : SEQUENCE[i] = stage

Init ==
  /\ active \in Slot
  /\ failed = [s \in Slot |-> 0]
  /\ mode = "normal"
  /\ completed = 0
  /\ findings = {}
  /\ streak = 0 /\ left = {} /\ passed = {}

----------------------------------------------------------------------------
(* step_boot: one action for a stage that acts on its input, each completing *)

Complete(stage, found, good) ==
  /\ completed < Len(SEQUENCE) /\ SEQUENCE[completed + 1] = stage
  /\ completed' = completed + 1
  /\ findings' = findings \cup found
  /\ passed' = IF good THEN passed \cup {stage} ELSE passed
  /\ UNCHANGED <<active, failed, streak, left>>

VerifyChain(signed) ==
  /\ Complete("verify_chain", IF signed THEN {} ELSE {"chain_unsigned"}, signed)
  /\ UNCHANGED mode

MountAudit(layout) ==
  /\ Complete("mount_audit",
              {f \in {"layout_invalid", "audit_not_mounted"} :
                 layout # "valid" /\ (f = "audit_not_mounted" => layout = "without_audit")},
              layout # "without_audit")
  /\ UNCHANGED mode

VerifyPrivacySet(ok) ==
  /\ Complete("verify_privacy_set", IF ok THEN {} ELSE {"privacy_set_unverified"}, ok)
  /\ mode' = IF ok THEN mode ELSE "ingest_only"

\* unlock_data and start_services: nothing to find.  The check of start_services for
\* an audit volume not mounted looks for the stage, which has completed by then.
Plain(stage) == stage \in {"unlock_data", "start_services"} /\ Complete(stage, {}, TRUE)
                /\ UNCHANGED mode

\* In ingest-only mode the stage returns without completing
StartContainers ==
  mode = "normal" /\ Complete("start_containers", {}, TRUE) /\ UNCHANGED mode

----------------------------------------------------------------------------
(* report_health *)

ReportHealthyKeepingCount ==
  /\ streak' = 0
  /\ UNCHANGED <<state, left, passed>>
ReportHealthy ==
  /\ failed' = [failed EXCEPT ![active] = 0]
  /\ streak' = 0
  /\ UNCHANGED <<active, mode, completed, findings, left, passed>>

RollsBack(count) == /\ count >= MAX_FAILED_HEALTH_CHECKS
                    /\ failed[Other(active)] < MAX_FAILED_HEALTH_CHECKS

FailureNamed(count) ==
  {"health_check_failed"} \cup
  (IF RollsBack(count) THEN {"rolled_back"}
   ELSE IF count >= MAX_FAILED_HEALTH_CHECKS THEN {"no_healthy_slot"} ELSE {})

StagesKept(count) == completed
StagesAfter(count) == IF RollsBack(count) THEN 0 ELSE completed

ReportFailed ==
  LET count == failed[active] + 1 IN
  /\ failed[active] < MaxFailed
  /\ failed' = [failed EXCEPT ![active] = count]
  /\ findings' = findings \cup FailureNamed(count)
  /\ completed' = StagesAfter(count)
  /\ active' = IF RollsBack(count) THEN Other(active) ELSE active
  /\ streak' = IF RollsBack(count) THEN 0 ELSE streak + 1
  /\ left' = IF RollsBack(count) THEN left \cup {active} ELSE left
  /\ passed' = IF RollsBack(count) THEN {} ELSE passed
  /\ UNCHANGED mode

Next ==
  \/ \E signed \in BOOLEAN : VerifyChain(signed)
  \/ \E layout \in Layout : MountAudit(layout)
  \/ \E ok \in BOOLEAN : VerifyPrivacySet(ok)
  \/ \E stage \in {"unlock_data", "start_services"} : Plain(stage)
  \/ StartContainers
  \/ ReportHealthy
  \/ ReportFailed

Spec == Init /\ [][Next]_vars

----------------------------------------------------------------------------
(***************************************************************************)
(* Properties                                                              *)
(***************************************************************************)

\* Slots, counters and stages have their types, and ingest-only is always explained
\* by the finding that the privacy set did not verify.
TypeOK ==
  /\ active \in Slot /\ left \subseteq Slot
  /\ failed \in [Slot -> Nat] /\ streak \in Nat
  /\ mode \in {"normal", "ingest_only"}
  /\ completed \in 0..Len(SEQUENCE)
  /\ findings \subseteq BootFinding
  /\ passed \subseteq {SEQUENCE[i] : i \in 1..completed}
  /\ mode = "ingest_only" => "privacy_set_unverified" \in findings

\* R4: containers run only when the privacy set of the slot that is running now has
\* verified; the verdict on the slot before a rollback does not count.
ContainersOnlyAfterPrivacy ==
  Done("start_containers") => mode = "normal" /\ "verify_privacy_set" \in passed

\* R3: a slot is left at exactly the third failed check in a row, never for failures
\* with a success between them or those of the other slot, and always at the third
\* unless the other slot was left before it: two bad releases end on the second, they
\* do not take turns (test_both_slots_failing_is_named_rather_than_looping).
RollsBackOnce ==
  [][/\ active' # active => active' \notin left /\ streak + 1 = MAX_FAILED_HEALTH_CHECKS
     /\ streak' >= MAX_FAILED_HEALTH_CHECKS => left' # {}]_vars

=============================================================================
