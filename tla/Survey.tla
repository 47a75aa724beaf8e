------------------------------- MODULE Survey -------------------------------
(***************************************************************************)
(* What the checks of a site visit say: host and site pre-flight           *)
(* (t1/platform/qualification.py), the reach of T2 (platform/              *)
(* reachability.py), the score of each camera (devices/assessment.py), and *)
(* the accounts a profile admits (devices/discovery.py).                   *)
(* No state.  An observation answers each question "yes", "no" or "none",  *)
(* that is, nobody looked; which threshold a number met is its answer,     *)
(* except where numbers are added up: RAM and the scores of cameras.       *)
(* A definition named for a fault is the wrong form of the one after it.   *)
(***************************************************************************)
EXTENDS Integers, FiniteSets, FiniteSetsExt

CONSTANTS
  Endpoint,                 \* the hosts of T2
  MQTT,                     \* the one that speaks x-amzn-mqtt-ca
  REQUIRED_FOR_ENROLMENT    \* ENROL and PKI

ASSUME SurveyAssumption ==
  /\ MQTT \in Endpoint /\ REQUIRED_FOR_ENROLMENT \subseteq Endpoint

Answer == {"yes", "no", "none"}
\* f, where `changes` does not say otherwise
Changed(f, changes) == [x \in DOMAIN f |-> IF x \in DOMAIN changes THEN changes[x] ELSE f[x]]
\* What the answers may turn out to be once everything is looked at
Answered(answers) ==
  {Changed(answers, late) :
     late \in [{q \in DOMAIN answers : answers[q] = "none"} -> {"yes", "no"}]}

\* Of a record of conditions, those that hold
Named(conditions) == {name \in DOMAIN conditions : conditions[name]}

----------------------------------------------------------------------------
(* Host and site pre-flight *)

\* What is said of a host that does not have a property, and of one where nobody looked
FindingIfNot ==
  [arch |-> "arch_unsupported", avx2 |-> "avx2_missing", cores |-> "cores_insufficient",
   nic_present |-> "nic_missing", usb3_port_present |-> "usb3_missing",
   t1_media_link |-> "t1_media_link_degraded", t1_media |-> "t1_media_too_small",
   uefi |-> "boot_mode_legacy", virtualisation_enabled |-> "virtualisation_disabled",
   sleep_disabled |-> "sleep_enabled", dedicated |-> "host_not_dedicated",
   in_time |-> "preflight_timeout", accelerator_present |-> "accelerator_absent",
   bare_metal |-> "virtualised_host"]
FindingIfUnmeasured ==
  [t1_media_link |-> "t1_media_link_unverified", sleep_disabled |-> "sleep_policy_unverified",
   dedicated |-> "host_dedication_unverified"]

HostCheck == DOMAIN FindingIfNot
Measurable == DOMAIN FindingIfUnmeasured
Host == {host \in [usable_ram_mb : Nat, answers : [HostCheck -> Answer]] :
           \A c \in HostCheck \ Measurable : host.answers[c] # "none"}

ADVISORY == {"add_ram_for_third_adapter", "accelerator_absent", "virtualised_host"}

\* What fails a pre-flight
Failing(findings) == findings \ ADVISORY

\* l1_vector: the first threshold the usable RAM meets
ADAPTER_CAP_THRESHOLDS == {[usable_ram_mb |-> 3481, adapters |-> 3],
                           [usable_ram_mb |-> 3338, adapters |-> 2]}
AdapterCap(ram) ==
  Max({0} \cup {t.adapters : t \in {u \in ADAPTER_CAP_THRESHOLDS : ram >= u.usable_ram_mb}})

HostFindingsMeasured(host) ==
  {FindingIfNot[c] : c \in {d \in HostCheck : host.answers[d] = "no"}}
HostFindings(host) ==
  {FindingIfNot[c] : c \in {d \in HostCheck : host.answers[d] = "no"}}
  \cup {FindingIfUnmeasured[c] : c \in {d \in Measurable : host.answers[d] = "none"}}

QualifyHost(host) ==
  HostFindings(host) \cup Named(
    [ram_insufficient |-> AdapterCap(host.usable_ram_mb) = 0,
     add_ram_for_third_adapter |-> AdapterCap(host.usable_ram_mb) \in 1..2])

\* L2 and L3: nothing of any PC is looked at
QualifySite(site) ==
  Named([site_power_unstable |-> ~site.power_stable,
         site_network_unreachable |-> ~site.network_reachable,
         site_cameras_unverified |-> site.expected = {},
         site_camera_unreachable |-> ~(site.expected \subseteq site.reachable),
         site_mounting_unsuitable |-> ~site.mounting_suitable,
         preflight_timeout |-> ~site.in_time])

----------------------------------------------------------------------------
(* Reachability of T2 *)

\* pinned_root and alpn: whether what was negotiated is what the device wants
PathQuestion == {"resolves", "tcp_open", "proxy_requires_auth", "pinned_root", "alpn"}
Path == [answers : [PathQuestion -> Answer], proxy_credentials : BOOLEAN]

\* findings(): the checks up to the proxy end at the first that is not answered well
EndpointFindings(e, path) ==
  LET says(q, a) == path.answers[q] = a
      dialled    == says("resolves", "yes") /\ says("tcp_open", "yes")
      spoken     == dialled /\ ~says("proxy_requires_auth", "none")
  IN Named([unverified |-> \/ says("resolves", "none")
                           \/ says("resolves", "yes") /\ says("tcp_open", "none")
                           \/ dialled /\ says("proxy_requires_auth", "none")
                           \/ spoken /\ says("pinned_root", "none"),
            dns_unresolved |-> says("resolves", "no"),
            tcp_blocked |-> says("resolves", "yes") /\ says("tcp_open", "no"),
            proxy_auth_missing |-> /\ spoken /\ says("proxy_requires_auth", "yes")
                                   /\ ~path.proxy_credentials,
            tls_intercepted |-> spoken /\ says("pinned_root", "no"),
            alpn_stripped |-> spoken /\ e = MQTT /\ ~says("alpn", "yes")])

REFUSING == {"tls_intercepted", "alpn_stripped", "inbound_rule_offered"}

\* A network: the path to each endpoint and whether an inbound rule is offered
Network == [paths : [Endpoint -> Path], inbound_rule_offered : BOOLEAN]
NetworkFindings(network) ==
  UNION {EndpointFindings(e, network.paths[e]) : e \in Endpoint}
Posture(network) ==
  IF network.inbound_rule_offered \/ NetworkFindings(network) \cap REFUSING # {} THEN "refused"
  ELSE IF NetworkFindings(network) = {} THEN "online"
  ELSE "offline_local_only"
EnrolmentPossible(network) ==
  \/ Posture(network) = "online"
  \/ /\ Posture(network) = "offline_local_only"
     /\ \A e \in REQUIRED_FOR_ENROLMENT : EndpointFindings(e, network.paths[e]) = {}

----------------------------------------------------------------------------
(* Camera assessment: fractions in percent, scores in millionths *)

Stream == [depression_degrees : Int, height_px : Nat, achieved_fps : Nat, occlusion : Nat,
           lens_clarity : Nat, backlit : BOOLEAN, ir_glare : BOOLEAN]

StreamIssues(s) ==
  Named([angle_too_shallow |-> s.depression_degrees < 20, backlit |-> s.backlit,
         occluded |-> s.occlusion > 30, low_resolution |-> s.height_px < 720,
         fps_below_min |-> s.achieved_fps < 5, lens_dirty |-> s.lens_clarity < 70,
         ir_glare |-> s.ir_glare])

Clamp(value) == IF value < 0 THEN 0 ELSE IF value > 1000000 THEN 1000000 ELSE value
Off(flag, millionths) == IF flag THEN millionths ELSE 0
Components(s) ==
  [angle |-> Clamp((s.depression_degrees * 1000000) \div 45),
   resolution |-> Clamp((s.height_px * 100000) \div 108),
   lighting |-> Clamp(s.lens_clarity * 10000 - Off(s.backlit, 350000) - Off(s.ir_glare, 250000)),
   occlusion |-> Clamp(1000000 - s.occlusion * 10000),
   fps |-> Clamp(s.achieved_fps * 100000)]
\* In percent, and in tenths
WEIGHTS == [angle |-> 30, resolution |-> 20, lighting |-> 15, occlusion |-> 20, fps |-> 15]
ISSUE_PENALTY == [angle_too_shallow |-> 5, backlit |-> 7, occluded |-> 6, low_resolution |-> 6,
                  fps_below_min |-> 5, lens_dirty |-> 8, ir_glare |-> 8]

Weighted(s) ==
  LET c == Components(s)
  IN (WEIGHTS.angle * c.angle + WEIGHTS.resolution * c.resolution + WEIGHTS.lighting * c.lighting
      + WEIGHTS.occlusion * c.occlusion + WEIGHTS.fps * c.fps) \div 100
\* counting_score, rounded to two places: in percent
ScoreUnpenalised(s) == (Weighted(s) + 5000) \div 10000
Penalised(issues, i, total) ==
  IF i \in issues THEN (total * ISSUE_PENALTY[i]) \div 10 ELSE total
Score(s) ==
  LET found == StreamIssues(s)
      view  == Penalised(found, "backlit", Penalised(found, "angle_too_shallow", Weighted(s)))
      size  == Penalised(found, "low_resolution", Penalised(found, "occluded", view))
      lens  == Penalised(found, "lens_dirty", Penalised(found, "fps_below_min", size))
  IN (Penalised(found, "ir_glare", lens) + 5000) \div 10000

COUNTING_THRESHOLD == 60
Suitable(s) == Score(s) >= COUNTING_THRESHOLD

\* The cameras of a site, as far as they are assessed, and those left out by name
AreCameras(found) ==
  /\ found = [streams |-> found.streams, excluded |-> found.excluded]
  /\ found.streams \in [DOMAIN found.streams -> Stream]

\* commit: what keeps the streams assessed from becoming an accuracy commitment
CommitmentRefusalsOfAll(streams, excluded) ==
  IF ~(excluded \subseteq DOMAIN streams) THEN {"excluded_stream_not_assessed"}
  ELSE Named([unresolved_low_score_stream |-> \E c \in DOMAIN streams : ~Suitable(streams[c])])
CommitmentRefusals(streams, excluded) ==
  IF ~(excluded \subseteq DOMAIN streams) THEN {"excluded_stream_not_assessed"}
  ELSE Named([unresolved_low_score_stream |->
                \E c \in DOMAIN streams \ excluded : ~Suitable(streams[c])])

----------------------------------------------------------------------------
(* Accounts *)

\* Vault.store; read_only is about what the account may do
StoreRefusals(capabilities, profile) ==
  Named([rw_credential_forbidden_l1 |->
           profile = "L1" /\ ~(capabilities \subseteq {"read", "stream"})])

=============================================================================
