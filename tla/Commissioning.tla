---------------------------- MODULE Commissioning ----------------------------
(***************************************************************************)
(* The commissioning gate (t1/control/commissioning.py) and the visit it   *)
(* refuses until everything is done.  A Field Engineer works on the first  *)
(* item that blocks: looks, does what the findings name, looks again, and  *)
(* records a pass.  T2 may issue exceptions, which expire.  The gate is    *)
(* memory; the audit chain is a file.  An append to it may raise with      *)
(* nothing written, with a part of its line, or with all but the newline:  *)
(* the next append is then glued to that line, and one that finds a line   *)
(* it cannot read raises, as does every append after it.                   *)
(* A refused attempt (activate with an item open, an exception that is not *)
(* valid, a waiver asked for in the field, a pass without an actor or a    *)
(* notice without its photograph) appends a row at most, which nothing     *)
(* reads, and changes nothing else: it is one of OthersAppend.             *)
(* A definition named for a fault is the wrong form of the one after it.   *)
(***************************************************************************)
EXTENDS Survey, ModelStore, Sequences, Functions

CONSTANTS
  GATE_ORDER,         \* the items, as the Field Engineer works the site
  Approver,           \* people who can sign an exception
  Observations(_, _), \* what the engineer may find: of an item, at a site of a profile
  MaxNow,             \* bound of the model: when the clock stops
  Waivable,           \* bound of the model: items T2 issues exceptions for
  MaxRestarts,        \* bound of the model
  MaxRaises           \* bound of the model: writes that raise

Item == Range(GATE_ORDER)
Never == 0   \* the not_after of an exception that was not issued

ASSUME CommissioningAssumption ==
  /\ GATE_ORDER \in Seq(Item) /\ IsInjective(GATE_ORDER)
  /\ Waivable \subseteq Item /\ MaxNow \in Nat /\ MaxRestarts \in Nat /\ MaxRaises \in Nat

\* A survey answers the questions of its form
ASSUME ObservationsAssumption ==
  /\ Observations("preflight", "L1") \subseteq Host
  /\ \A site_of \in {"L1", "L2"} :
       /\ Observations("identity", site_of) \subseteq Network
       /\ \A found \in Observations("camera_assessment", site_of) : AreCameras(found)

Exception == [item : Waivable, approvers : SUBSET Approver, not_after : 1..MaxNow,
              flaw : {"wrong_signing_domain", "exception_invalid", None}]
Evidence == [kind : {"commissioning_item", "exception_applied"}, item : Item, not_after : 0..MaxNow]
Completion == [kind : {"commissioning_complete"}]

VARIABLES
  profile,      \* "L1", or "L2"
  passed,       \* _passed: the items somebody has put a name to
  exceptions,   \* _exceptions: item -> not_after, or Never
  state,        \* "COMMISSIONING" or "ACTIVE"
  chain,        \* rows of the audit chain on lines of their own, of this life of the gate
  tail,         \* after them: "none", a line "unended" by a newline, or "torn", no record
  bench,        \* [item, found] the engineer is at, or None
  now,
  restarts, raises,
  \* history, read by no action
  unlogged      \* rows whose append raised or was glued to a line, in this life of the gate

gate == <<passed, exceptions, state, unlogged>>
vars == <<profile, gate, chain, tail, bench, now, restarts, raises, model_vars>>

Init ==
  /\ profile \in {"L1", "L2"}
  /\ passed = {} /\ exceptions = [i \in Item |-> Never] /\ state = "COMMISSIONING"
  /\ chain = {} /\ tail = "none" /\ bench = None /\ now = 0
  /\ restarts = 0 /\ raises = 0 /\ unlogged = {}
  /\ StoreInit

WriteRaises == raises < MaxRaises /\ raises' = raises + 1
Unlogged(row) == unlogged' = unlogged \cup {row}

\* chain.append returns; glued to a line without its newline, neither can be read
Appended(row) ==
  /\ \/ tail = "none" /\ chain' = chain \cup {row} /\ UNCHANGED <<tail, unlogged>>
     \/ tail = "unended" /\ tail' = "torn" /\ Unlogged(row) /\ UNCHANGED chain
  /\ UNCHANGED raises

\* chain.append raises, in its write
AppendRaises ==
  /\ tail # "torn" /\ WriteRaises
  /\ tail' \in {tail, "torn"} \cup (IF tail = "none" THEN {"unended"} ELSE {})
  /\ UNCHANGED chain

----------------------------------------------------------------------------
(* The gate *)

SatisfiedByAny(item) == item \in passed \/ exceptions[item] # Never
Satisfied(item) == item \in passed \/ now < exceptions[item]
Blockers == {i \in DOMAIN GATE_ORDER : ~Satisfied(GATE_ORDER[i])}

\* What record_pass and apply_exception do last; the gate has changed before
Log(row) ==
  \/ Appended(row)
  \/ AppendRaises /\ Unlogged(row)
  \/ tail = "torn" /\ Unlogged(row) /\ UNCHANGED <<chain, tail, raises>>

RecordPass(item) ==
  /\ passed' = passed \cup {item}
  /\ Log([kind |-> "commissioning_item", item |-> item, not_after |-> Never])
  /\ UNCHANGED <<exceptions, state>>

Valid(exc) ==
  exc.flaw = None /\ Cardinality(exc.approvers) >= 2 /\ now < exc.not_after

ApplyException(exc) ==
  /\ Valid(exc)
  /\ exceptions' = [exceptions EXCEPT ![exc.item] = exc.not_after]
  /\ Log([kind |-> "exception_applied", item |-> exc.item, not_after |-> exc.not_after])
  /\ UNCHANGED <<profile, passed, state, bench, now, restarts, model_vars>>

\* activate: the row comes first, so that an append that raises means no ACTIVE
Activate ==
  /\ Blockers = {}
  /\ Appended([kind |-> "commissioning_complete"])
  /\ state' = "ACTIVE"
  /\ UNCHANGED <<profile, passed, exceptions, bench, now, restarts, model_vars>>
ActivateRaises ==
  /\ Blockers = {} /\ AppendRaises
  /\ UNCHANGED <<profile, gate, bench, now, restarts, model_vars>>

\* The row of a refused attempt, or of another unit of the device
OthersAppend ==
  /\ \/ tail = "unended" /\ tail' = "torn" /\ UNCHANGED <<chain, raises>>
     \/ AppendRaises
  /\ UNCHANGED <<profile, gate, bench, now, restarts, model_vars>>

----------------------------------------------------------------------------
(* The visit *)

\* What keeps the engineer from recording a pass; items without a check have nothing
Hard(item, found) ==
  CASE item = "preflight" ->
         Failing(IF profile = "L1" THEN QualifyHost(found) ELSE QualifySite(found))
    [] item = "camera_assessment" -> CommitmentRefusals(found.streams, found.excluded)
    [] item = "identity" -> IF EnrolmentPossible(found) THEN {} ELSE NetworkFindings(found)
                              \cup Named([inbound_rule_offered |-> found.inbound_rule_offered])
    [] item = "age_gate" -> Named([no_active_bundle |-> active_model = None])
    [] item = "notice" -> Named([notice_missing |-> ~found.photo])
    [] item = "credentials" -> StoreRefusals(found.capabilities, profile)
    [] OTHER -> {}

Look ==
  /\ state = "COMMISSIONING" /\ bench = None
  /\ \E i \in Blockers :
       /\ \A j \in Blockers : i <= j
       /\ \E found \in Observations(GATE_ORDER[i], profile) :
            bench' = [item |-> GATE_ORDER[i], found |-> found]
  /\ UNCHANGED <<profile, gate, chain, tail, now, restarts, raises, model_vars>>

\* The engineer acts on a finding.  What a question nobody had asked turns out to be
\* is open; RAM comes in bars; a camera with no issue to name can only be excluded.
StreamRepair ==
  [angle_too_shallow |-> [depression_degrees |-> 45], backlit |-> [backlit |-> FALSE],
   occluded |-> [occlusion |-> 0], low_resolution |-> [height_px |-> 1080],
   fps_below_min |-> [achieved_fps |-> 10], lens_dirty |-> [lens_clarity |-> 100],
   ir_glare |-> [ir_glare |-> FALSE]]
PathRepair ==
  [dns_unresolved |-> "resolves", tcp_blocked |-> "tcp_open", tls_intercepted |-> "pinned_root",
   alpn_stripped |-> "alpn"]

HostAfter(host, finding) ==
  IF finding = "ram_insufficient" THEN {[host EXCEPT !.usable_ram_mb = 3338]}
  ELSE {[host EXCEPT !.answers[c] = "yes"] :
          c \in {d \in HostCheck : FindingIfNot[d] = finding}}
       \cup {[host EXCEPT !.answers[c] = a] : a \in {"yes", "no"},
               c \in {d \in Measurable : FindingIfUnmeasured[d] = finding}}
SiteAfter(site, finding) ==
  {[site EXCEPT !.power_stable = @ \/ finding = "site_power_unstable",
                !.network_reachable = @ \/ finding = "site_network_unreachable",
                !.expected = IF finding = "site_cameras_unverified" THEN site.reachable ELSE @,
                !.reachable = IF finding = "site_camera_unreachable" THEN site.expected ELSE @,
                !.mounting_suitable = @ \/ finding = "site_mounting_unsuitable",
                !.in_time = @ \/ finding = "preflight_timeout"]}
CamerasAfter(found) ==
  LET kept == found.excluded \cap DOMAIN found.streams
      low  == {c \in DOMAIN found.streams \ kept : ~Suitable(found.streams[c])}
  IN {[found EXCEPT !.excluded = kept \cup low]}
     \cup UNION {{[found EXCEPT !.streams[c] = Changed(@, StreamRepair[i])] :
                    i \in StreamIssues(found.streams[c])} : c \in low}
NetworkAfter(network, finding) ==
  IF finding = "inbound_rule_offered" THEN {[network EXCEPT !.inbound_rule_offered = FALSE]}
  ELSE UNION {
    {[network EXCEPT !.paths[e] = path] :
       path \in CASE finding = "unverified" ->
                       {[network.paths[e] EXCEPT !.answers = late] :
                          late \in Answered(network.paths[e].answers)}
                  [] finding = "proxy_auth_missing" ->
                       {[network.paths[e] EXCEPT !.proxy_credentials = TRUE]}
                  [] OTHER -> {[network.paths[e] EXCEPT !.answers[PathRepair[finding]] = "yes"]}} :
    e \in {d \in Endpoint : finding \in EndpointFindings(d, network.paths[d])}}

AfterRemedy(item, found, finding) ==
  CASE item = "preflight" ->
         IF profile = "L1" THEN HostAfter(found, finding) ELSE SiteAfter(found, finding)
    [] item = "camera_assessment" -> CamerasAfter(found)
    [] item = "identity" -> NetworkAfter(found, finding)
    [] item = "notice" -> {[found EXCEPT !.photo = TRUE]}
    [] item = "credentials" -> {[found EXCEPT !.capabilities = @ \cap {"read", "stream"}]}
    [] OTHER -> {}

Remedy ==
  /\ state = "COMMISSIONING" /\ bench # None
  /\ \E finding \in Hard(bench.item, bench.found) :
       \E found \in AfterRemedy(bench.item, bench.found, finding) :
         bench' = [item |-> bench.item, found |-> found]
  /\ UNCHANGED <<profile, gate, chain, tail, now, restarts, raises, model_vars>>

\* What record_pass raises, it raises when the pass is recorded
Pass ==
  /\ state = "COMMISSIONING" /\ bench # None
  /\ Hard(bench.item, bench.found) = {}
  /\ RecordPass(bench.item)
  /\ bench' = None
  /\ UNCHANGED <<profile, now, restarts, model_vars>>

\* A bundle is offered where the age gate is being verified, or when the device runs
BundleOffered ==
  /\ state = "ACTIVE" \/ (bench # None /\ bench.item = "age_gate")
  /\ UNCHANGED <<profile, gate, chain, tail, bench, now, restarts>>
Deploy(candidate) == BundleOffered /\ InstallModel(candidate) /\ UNCHANGED raises
DeployUnsaved(candidate) == BundleOffered /\ InstallUnsaved(candidate) /\ WriteRaises

Tick ==
  /\ now < MaxNow /\ now' = now + 1
  /\ UNCHANGED <<profile, gate, chain, tail, bench, restarts, raises, model_vars>>

\* The gate is built anew over the same log, and reads nothing from it
Restart ==
  /\ restarts < MaxRestarts /\ restarts' = restarts + 1
  /\ passed' = {} /\ exceptions' = [i \in Item |-> Never] /\ state' = "COMMISSIONING"
  /\ bench' = None /\ chain' = {} /\ unlogged' = {}
  /\ Reopen
  /\ UNCHANGED <<profile, tail, now, raises>>

Next ==
  \/ Look \/ Remedy \/ Pass
  \/ Activate \/ ActivateRaises
  \/ \E exc \in Exception : ApplyException(exc)
  \/ \E candidate \in Candidate : Deploy(candidate) \/ DeployUnsaved(candidate)
  \/ OthersAppend \/ Tick \/ Restart

\* The engineer goes on with the visit, and T2 offers its newest bundle when one is needed
Work ==
  \/ Look \/ Remedy \/ Pass \/ Activate
  \/ active_model = None /\ Deploy([version |-> MaxVersion, flaw |-> None])

Spec == Init /\ [][Next]_vars /\ WF_vars(Work)

----------------------------------------------------------------------------
(* Properties *)

\* The state of the gate, of the visit and of the store has its type.
TypeOK ==
  /\ profile \in {"L1", "L2"}
  /\ passed \subseteq Item
  /\ exceptions \in [Item -> Never..MaxNow]
  /\ state \in {"COMMISSIONING", "ACTIVE"}
  /\ chain \subseteq Evidence \cup Completion
  /\ unlogged \subseteq Evidence \cup Completion
  /\ tail \in {"none", "unended", "torn"}
  /\ bench # None => bench.item \in Item
  /\ now \in 0..MaxNow /\ restarts \in 0..MaxRestarts /\ raises \in 0..MaxRaises
  /\ ModelTyped

\* A device that becomes ACTIVE leaves a log that says why, item by item, and since it
\* last started: somebody's pass, or an exception that has not expired, and then its
\* completion.  Once a write has raised, two kinds of rows are excepted: those whose
\* append raised, for the gate had changed before them, and one that was glued to a line
\* without its newline, which the caller is not told.
Excepted == IF raises = 0 THEN {} ELSE unlogged
EvidenceAtActivation ==
  [][state # "ACTIVE" /\ state' = "ACTIVE" =>
       /\ \A item \in Item : \E row \in (chain \cup Excepted) \cap Evidence :
            row.item = item /\ (row.kind = "commissioning_item" \/ now < row.not_after)
       /\ \/ \E row \in chain' : row.kind = "commissioning_complete"
          \/ tail = "unended" /\ raises > 0]_vars

\* No item is passed on the strength of a question nobody asked: what passes would pass
\* whatever the answer.  Of the hosts of T2 this is so of those that enrolment needs.
NobodyLookedNeverPasses ==
  bench # None /\ Hard(bench.item, bench.found) = {} =>
    /\ bench.item = "preflight" /\ profile = "L1" =>
         \A late \in Answered(bench.found.answers) :
           Hard("preflight", [bench.found EXCEPT !.answers = late]) = {}
    /\ bench.item = "preflight" /\ profile # "L1" => bench.found.expected # {}
    /\ bench.item = "identity" =>
         \A e \in REQUIRED_FOR_ENROLMENT :
           \A late \in Answered(bench.found.paths[e].answers) :
             EnrolmentPossible([bench.found EXCEPT !.paths[e].answers = late])

\* What a commitment covers has no fault of geometry, resolution, rate or occlusion: each
\* alone sinks the best stream.  (Backlight, a dirty lens and glare do not.)
CommitmentRests ==
  bench # None /\ bench.item = "camera_assessment"
    /\ Hard(bench.item, bench.found) = {} =>
    \A c \in DOMAIN bench.found.streams \ bench.found.excluded :
      StreamIssues(bench.found.streams[c]) \subseteq {"backlit", "lens_dirty", "ir_glare"}

\* A visit ends with a device that is ACTIVE and stays so, whatever is found, unless a
\* write that raised left a file nobody can read: an empty floor file, for then the store
\* does not open and no bundle can be installed, or a torn log, for then activate raises.
Installs == <>[](state = "ACTIVE" \/ floor = None \/ tail = "torn")

=============================================================================
