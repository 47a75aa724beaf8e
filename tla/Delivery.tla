------------------------------ MODULE Delivery ------------------------------
(***************************************************************************)
(* How a record leaves the box: the bridge (t1/bridge/mqtt.py) drains the  *)
(* spool, the egress filter (t1/control/egress_filter.py) judges each      *)
(* envelope under the active policy bundle (t1/control/policy.py), appends *)
(* what it accepts to the audit log, and the transport carries it to T2.   *)
(*                                                                         *)
(* The spool is the WindowLedger that Spool is shown to implement; the     *)
(* log is the rows of AuditChain that say egress_accept.  All of this      *)
(* runs in one thread, so between two batches the spool or the policy may  *)
(* change and inside a batch only a failure can intervene: the transport   *)
(* raises, with the message lost or delivered; a write of a file raises;   *)
(* or the power fails between any two writes.  What the filter reads of    *)
(* an envelope is its `kind`; a bundle is the kinds its schemas,           *)
(* allowlists and floors let through.                                      *)
(* A definition named for a fault is the wrong form of the one after it.   *)
(***************************************************************************)
EXTENDS Naturals, Sequences, FiniteSets, SequencesExt

CONSTANTS
  Kinds,       \* what the filter tells apart in an envelope: its metric, its k, ...
  Metric,      \* the metric of a kind; records of one metric may be merged
  Bundles,     \* the policy bundles T2 may deliver
  NoBundle,    \* PolicyStore.active is None
  NoEnvelope,  \* nothing on its way out
  Batch,       \* BACKFILL_BATCH
  MaxSeq,      \* bound on the records admitted
  MaxLive,     \* bound on the live messages accepted
  MaxFaults    \* bound on power losses, failed sends and failed writes together

\* what _send is handed: a spooled record (the windows it counts, seq) or a live message (0)
Envelope == [seq : 0..MaxSeq, covers : SUBSET (1..MaxSeq), kind : Kinds, backfill : BOOLEAN,
             version : {0} \cup {b.version : b \in Bundles}]

ASSUME DeliveryAssumption ==
  /\ Batch \in Nat \ {0} /\ MaxSeq \in Nat /\ MaxLive \in Nat /\ MaxFaults \in Nat
  /\ DOMAIN Metric = Kinds
  /\ Bundles \subseteq [version : Nat \ {0}, allows : SUBSET Kinds, valid : BOOLEAN]
  /\ NoBundle \notin Bundles /\ NoEnvelope \notin Envelope

VARIABLES
  live, issued, left,   \* the spool: WindowLedger
  kind,                 \* of each record, as enqueued; the head of a merge keeps its own
  active, enabled,      \* PolicyStore.active, bridge_enabled
  floor,                \* the version floor on the audit partition; 0 if missing or empty
  audit,                \* egress_accept rows of the audit log, on lines of their own
  tail,                 \* after them: "none", a row "unended" by a newline, or "torn", no row
  pc,                   \* where publish or backfill stands
  env,                  \* the envelope in _send
  todo,                 \* records of the batch still to be sent
  acked, undeliverable, \* locals of backfill
  t2,                   \* what T2 has received, in order
  given_up,             \* history: windows shed, refused or lost in a merge
  enforced,             \* history: highest version active since a write of the floor failed
  glued,                \* history: the row that was glued to an unended one, if any
  faults                \* history: power losses, failed sends and failed writes so far

spool  == <<live, issued, left, kind, given_up>>
policy == <<active, enabled, floor, enforced>>
log    == <<audit, tail, glued>>
batch  == <<pc, env, todo, acked, undeliverable>>
vars   == <<spool, policy, log, batch, t2, faults>>

Ledger == INSTANCE WindowLedger
Records == DOMAIN live
In(S) == UNION {live[r] : r \in S}

First(S, n) == {s \in S : Cardinality({t \in S : t < s}) < n}

\* envelope_for: identity and content from the record, version from the bundle
EnvelopeFor(s) ==
  [seq |-> s, covers |-> live[s], kind |-> kind[s], backfill |-> TRUE,
   version |-> IF active = NoBundle THEN 0 ELSE active.version]

Accepts(e) ==
  /\ active # NoBundle /\ enabled
  /\ e.kind \in active.allows
  /\ e.version = active.version

RowOf(e) == [seq |-> e.seq, version |-> e.version]

----------------------------------------------------------------------------
Init ==
  /\ Ledger!Init /\ kind = <<>> /\ given_up = {}
  /\ active = NoBundle /\ enabled = FALSE /\ floor = 0 /\ enforced = 0
  /\ audit = <<>> /\ tail = "none" /\ glued = {}
  /\ pc = "idle" /\ env = NoEnvelope /\ todo = {} /\ acked = {} /\ undeliverable = {}
  /\ t2 = <<>> /\ faults = 0

\* the process starts again over its files
Reboot ==
  /\ faults < MaxFaults /\ faults' = faults + 1
  /\ active' = NoBundle /\ enabled' = FALSE
  /\ pc' = "idle" /\ env' = NoEnvelope /\ todo' = {} /\ acked' = {} /\ undeliverable' = {}
  /\ UNCHANGED t2

PowerLoss == Reboot /\ UNCHANGED <<spool, floor, enforced, log>>

\* The spool between two batches ------------------------------------------------

Enqueue(k) ==
  /\ pc = "idle" /\ issued < MaxSeq
  /\ Ledger!Admit
  /\ kind' = Append(kind, k)
  /\ UNCHANGED <<given_up, policy, log, batch, t2, faults>>

Mergeable(S, head) ==
  /\ head \in S /\ Cardinality(S) > 1
  /\ \A s \in S : head <= s /\ Metric[kind[s]] = Metric[kind[head]]

Coarsen(S, head) ==
  /\ pc = "idle" /\ Mergeable(S, head)
  /\ Ledger!Fold(S, head)
  /\ UNCHANGED <<kind, given_up, policy, log, batch, t2, faults>>

\* a power loss between the two commits of a coarsening
CoarsenCutShort(S, head) ==
  /\ pc = "idle" /\ Mergeable(S, head)
  /\ live' = [r \in Records \ (S \ {head}) |-> live[r]]
  /\ given_up' = given_up \cup In(S \ {head})
  /\ Reboot
  /\ UNCHANGED <<issued, left, kind, floor, enforced, log>>

\* overflow or prune
Shed(s) ==
  /\ pc = "idle"
  /\ Ledger!Leave({s})
  /\ given_up' = given_up \cup live[s]
  /\ UNCHANGED <<kind, policy, log, batch, t2, faults>>

\* PolicyStore.load ---------------------------------------------------------------

VerifiedAtAnyVersion(b) == b.valid
Verified(b) == b.valid /\ b.version >= floor
Highest(m, n) == IF m >= n THEN m ELSE n

LoadRefused(b) ==
  /\ pc = "idle" /\ ~Verified(b)
  /\ enabled' = FALSE
  /\ UNCHANGED <<spool, active, floor, enforced, log, batch, t2, faults>>

Load(b) ==
  /\ pc = "idle" /\ Verified(b)
  /\ active' = b /\ enabled' = TRUE
  /\ floor' = Highest(floor, b.version)
  /\ enforced' = Highest(enforced, b.version)
  /\ UNCHANGED <<spool, log, batch, t2, faults>>

\* write_text truncates the floor file, then writes it: it raises before or between,
\* with the bundle already active
LoadUnsaved(b) ==
  /\ pc = "idle" /\ Verified(b) /\ faults < MaxFaults /\ faults' = faults + 1
  /\ active' = b /\ enabled' = TRUE
  /\ floor' \in {floor, 0} /\ enforced' = 0
  /\ UNCHANGED <<spool, log, batch, t2>>

\* or the power fails between
LoadCutShort(b) ==
  /\ pc = "idle" /\ Verified(b)
  /\ floor' = 0 /\ enforced' = 0
  /\ Reboot
  /\ UNCHANGED <<spool, log>>

\* Bridge ---------------------------------------------------------------------------

\* the live path; the caller stamps the version it knows
Publish(k, version) ==
  /\ pc = "idle" /\ Cardinality({i \in DOMAIN audit : audit[i].seq = 0}) < MaxLive
  /\ env' = [seq |-> 0, covers |-> {}, kind |-> k, backfill |-> FALSE, version |-> version]
  /\ pc' = "judge"
  /\ UNCHANGED <<spool, policy, log, todo, acked, undeliverable, t2, faults>>

BeginBackfill ==
  /\ pc = "idle" /\ Records # {}
  /\ todo' = First(Records, Batch)
  /\ pc' = "loop"
  /\ UNCHANGED <<spool, policy, log, env, acked, undeliverable, t2, faults>>

NextRecord(s) == s \in todo /\ \A t \in todo : s <= t

TakeRecord ==
  /\ pc = "loop"
  /\ \E s \in Records : /\ NextRecord(s)
                        /\ env' = EnvelopeFor(s) /\ todo' = todo \ {s}
  /\ pc' = "judge"
  /\ UNCHANGED <<spool, policy, log, acked, undeliverable, t2, faults>>

LoopEnds ==
  /\ pc = "loop" /\ todo = {}
  /\ pc' = "ack"
  /\ UNCHANGED <<spool, policy, log, env, todo, acked, undeliverable, t2, faults>>

\* where control goes when _send returns, and when it raises (finally: ack, discard)
Returned == pc' = (IF env.backfill THEN "loop" ELSE "idle") /\ UNCHANGED todo
RaisedMidBatch == pc' = (IF env.backfill THEN "ack" ELSE "idle") /\ UNCHANGED todo
Raised == pc' = (IF env.backfill THEN "ack" ELSE "idle") /\ todo' = {}

Refuse ==
  /\ pc = "judge" /\ ~Accepts(env)
  /\ undeliverable' = IF env.backfill THEN undeliverable \cup {env.seq} ELSE undeliverable
  /\ env' = NoEnvelope
  /\ Returned
  /\ UNCHANGED <<spool, policy, log, acked, t2, faults>>

AcceptUnchained ==
  /\ pc = "judge" /\ Accepts(env) /\ tail = "none"
  /\ pc' = "send"
  /\ UNCHANGED <<spool, policy, log, env, todo, acked, undeliverable, t2, faults>>

\* evaluate: the row is appended before anything is sent
Accept ==
  /\ pc = "judge" /\ Accepts(env) /\ tail = "none"
  /\ audit' = Append(audit, RowOf(env))
  /\ pc' = "send"
  /\ UNCHANGED <<spool, policy, tail, glued, env, todo, acked, undeliverable, t2, faults>>

\* the row is glued to one that has no newline: the append returns, neither parses
AcceptGlued ==
  /\ pc = "judge" /\ Accepts(env) /\ tail = "unended"
  /\ tail' = "torn" /\ glued' = {RowOf(env)}
  /\ pc' = "send"
  /\ UNCHANGED <<spool, policy, audit, env, todo, acked, undeliverable, t2, faults>>

\* the append reads the whole log for its head and raises
LogUnreadable ==
  /\ pc = "judge" /\ Accepts(env) /\ tail = "torn"
  /\ env' = NoEnvelope
  /\ Raised
  /\ UNCHANGED <<spool, policy, log, acked, undeliverable, t2, faults>>

\* a write that stops short leaves nothing, part of a line, or a line without its
\* newline; whatever it leaves after such a line spoils that one
WriteStops ==
  /\ pc = "judge" /\ Accepts(env) /\ tail # "torn"
  /\ tail' \in {tail, "torn"} \cup (IF tail = "none" THEN {"unended"} ELSE {})
  /\ UNCHANGED <<audit, glued>>

AppendRaises ==
  /\ WriteStops
  /\ faults < MaxFaults /\ faults' = faults + 1
  /\ env' = NoEnvelope
  /\ Raised
  /\ UNCHANGED <<spool, policy, acked, undeliverable, t2>>

AcceptCutShort == WriteStops /\ Reboot /\ UNCHANGED <<spool, floor, enforced>>

SendOK ==
  /\ pc = "send"
  /\ t2' = Append(t2, env)
  /\ acked' = IF env.backfill THEN acked \cup {env.seq} ELSE acked
  /\ env' = NoEnvelope
  /\ Returned
  /\ UNCHANGED <<spool, policy, log, undeliverable, faults>>

SendFailsSkipping ==
  /\ pc = "send" /\ faults < MaxFaults /\ faults' = faults + 1
  /\ t2' \in {t2, Append(t2, env)}
  /\ env' = NoEnvelope
  /\ Returned
  /\ UNCHANGED <<spool, policy, log, acked, undeliverable>>

\* the transport raises: T2 may or may not have the message
SendFails ==
  /\ pc = "send" /\ faults < MaxFaults /\ faults' = faults + 1
  /\ t2' \in {t2, Append(t2, env)}
  /\ env' = NoEnvelope
  /\ Raised
  /\ UNCHANGED <<spool, policy, log, acked, undeliverable>>

AckBatch ==
  /\ pc = "ack"
  /\ Ledger!Leave(First(Records, Batch))
  /\ pc' = "discard"
  /\ UNCHANGED <<kind, given_up, policy, log, env, todo, acked, undeliverable, t2, faults>>

Ack ==
  /\ pc = "ack"
  /\ Ledger!Leave(acked)
  /\ pc' = "discard"
  /\ UNCHANGED <<kind, given_up, policy, log, env, todo, acked, undeliverable, t2, faults>>

KeepRefused ==
  /\ pc = "discard"
  /\ pc' = "idle" /\ acked' = {} /\ undeliverable' = {}
  /\ UNCHANGED <<spool, policy, log, env, todo, t2, faults>>

Discard ==
  /\ pc = "discard"
  /\ Ledger!Leave(undeliverable)
  /\ given_up' = given_up \cup In(undeliverable)
  /\ pc' = "idle" /\ acked' = {} /\ undeliverable' = {}
  /\ UNCHANGED <<kind, policy, log, env, todo, t2, faults>>

SpoolStep ==
  \/ \E k \in Kinds : Enqueue(k)
  \/ \E S \in SUBSET Records : \E head \in S : Coarsen(S, head) \/ CoarsenCutShort(S, head)
  \/ \E s \in Records : Shed(s)

PolicyStep == \E b \in Bundles : LoadRefused(b) \/ Load(b) \/ LoadUnsaved(b) \/ LoadCutShort(b)

SendStep == SendOK \/ SendFails
Judge == Refuse \/ Accept \/ AcceptGlued \/ LogUnreadable \/ AppendRaises
InBatch == TakeRecord \/ LoopEnds \/ Judge \/ SendStep \/ Ack \/ Discard

Next ==
  \/ SpoolStep
  \/ PolicyStep
  \/ \E k \in Kinds, b \in Bundles : Publish(k, b.version)
  \/ BeginBackfill
  \/ InBatch
  \/ AcceptCutShort
  \/ PowerLoss

\* A batch that has begun is straight-line code.  The program has no scheduler of
\* its own: that somebody keeps asking for backfills is an assumption about the
\* caller, as the bound on failed sends is one about the network.
Fairness == WF_vars(InBatch) /\ SF_vars(BeginBackfill)

Spec == Init /\ [][Next]_vars /\ Fairness

----------------------------------------------------------------------------
(***************************************************************************)
(* Properties                                                              *)
(***************************************************************************)

\* Types; a batch in progress names records that are still in the spool, each
\* in one list only, and leaves nothing behind when it is over.
TypeOK ==
  /\ issued \in 0..MaxSeq /\ Records \subseteq 1..issued /\ left \subseteq 1..issued
  /\ \A s \in Records : live[s] \subseteq 1..issued
  /\ kind \in Seq(Kinds) /\ Len(kind) = issued /\ given_up \subseteq 1..issued
  /\ active \in Bundles \cup {NoBundle} /\ enabled \in BOOLEAN
  /\ floor \in Nat /\ enforced \in Nat /\ faults \in 0..MaxFaults
  /\ tail \in {"none", "unended", "torn"}
  /\ glued \subseteq [seq : 0..MaxSeq, version : Nat]
  /\ audit \in Seq([seq : 0..MaxSeq, version : Nat])
  /\ t2 \in Seq(Envelope)
  /\ pc \in {"idle", "loop", "judge", "send", "ack", "discard"}
  /\ env \in Envelope \cup {NoEnvelope} /\ (pc \in {"judge", "send"} <=> env # NoEnvelope)
  /\ pc # "discard" => todo \cup acked \cup undeliverable \subseteq Records
  /\ acked \cap undeliverable = {} /\ todo \cap (acked \cup undeliverable) = {}
  /\ pc \in {"idle", "ack", "discard"} => todo = {}
  /\ pc = "idle" => acked = {} /\ undeliverable = {}

Received == {t2[i] : i \in DOMAIN t2}

\* "The audit chain contains the matching entry" for all accepted egress (F12): each
\* message T2 ever receives, retries and repeats included, has a row of its own in the
\* log, with the version it claims.  One message ever may have none: the one whose row
\* was glued to a line without its newline, after which nothing is accepted any more.
EveryDeliveryChained ==
  /\ \A m \in Received :
       Cardinality({i \in DOMAIN t2 : RowOf(t2[i]) = RowOf(m)}) <=
         Cardinality({i \in DOMAIN audit : audit[i] = RowOf(m)}) +
           (IF RowOf(m) \in glued THEN 1 ELSE 0)
  /\ glued # {} => tail = "torn" /\ \E row \in glued : glued = {row}

\* A batch never skips ahead (mqtt.py:109): when T2 receives a spooled record,
\* every older one still in the spool was received or refused in this batch.
NeverAhead ==
  [][t2' # t2 /\ env.backfill =>
       \A r \in Records : r < env.seq => r \in acked \cup undeliverable]_vars

\* Records leave on ack, and only what T2 has received is acked (spool.py:208):
\* a window that is neither spooled nor at T2 was shed, refused or lost in a merge,
\* whatever failures fall between sending and acking.
NoSilentLoss ==
  (1..issued) \ (In(Records) \cup UNION {m.covers : m \in Received}) \subseteq given_up

\* `policy_version` proves which filter let a message out (SPEC section 13): what T2
\* receives has passed the bundle in force at that moment, under the version it
\* claims.  Only a bundle that verifies comes into force, and none below a version in
\* force before it (policy.py:70), back to the last failed write of the floor: the
\* floor falls only when that write raises, or the power fails, between truncating
\* the file and writing it (policy.py:101).
PolicyGoverns ==
  [][/\ t2' # t2 => /\ active # NoBundle /\ enabled
                    /\ env.version = active.version /\ env.kind \in active.allows
     /\ active' # active /\ active' # NoBundle =>
          active'.valid /\ active'.version >= enforced
     /\ floor' < floor => \E b \in Bundles : LoadUnsaved(b) \/ LoadCutShort(b)]_vars

\* No record blocks the queue forever (mqtt.py:112): while the log can be read,
\* every spooled record leaves the spool, refused ones included.
Leaves(s) == (s \in Records) ~> (s \notin Records)
QueueMoves == [](tail # "torn") => \A s \in 1..MaxSeq : Leaves(s)

=============================================================================
