# A verification of the T1 edge box

TLA+ models of the program under `src/src/t1/` (the T1 edge box: cameras in, anonymous counts out),
the TLC runs that check them on small instances, and TLAPS proofs of what matters most for every
value of the constants. Paths below are relative to `src/src/t1/` unless they begin with `src/`.

## The system

Four units run on a box (D-010: control plane, egress filter, bridge, sealed pipeline), each a
process of its own, beside a retention enforcer. No component starts a thread. Concurrency is
therefore of two kinds: processes that share a file (the audit log, the retention index), and power
loss between two writes. Inside one process a call runs to its end; it is split into steps only
where it commits to disk or hands control to something that may fail.

| part | state | operations | what is hard |
|---|---|---|---|
| durable spool `control/spool.py` | SQLite: records, `last_seq`; in memory: drop counters | enqueue (coarsens and sheds until there is room), drain, ack, discard, prune | several commits per enqueue; crash inside a merge; shedding order |
| audit chain `control/audit_chain.py` | one file of hash-chained lines | append, verify, export | three units append; torn lines; naming the damage |
| bridge, egress filter, policy store | active bundle, version floor, rate limit | publish, backfill, evaluate, load | send/ack/audit/floor are four writes with no transaction over them |
| unit supervisor `platform/supervisor.py` | status per unit | activate, report_health | transitive loss of dependencies |
| durable index, retention service `storage/durable.py` | SQLite: rows with a mark; blobs; receipts in the chain | admit, sweep | two processes on one file; four writes per deletion |
| boot chain `platform/boot.py` | active slot, failure counters, mode, stages done | step_boot, report_health | rollbacks between two stages; two bad slots |
| decommissioner `storage/erase.py` | `erased`; key slots; chain | authorise, export_audit, erase | domains fail one by one; restart in between |
| cascade and sealed pipeline `pipeline/cascade.py`, `sealed/pipeline.py` | admitted streams, recent timestamps, two sets of counters, health | admit, offer/process, window_quality, crash | fail closed; two ledgers that must agree; clocks per stream |
| zone service `control/zones.py` | zones, stream mapping, consents | register_zone, map_stream, allows | a zone re-tagged after a stream was mapped |
| tracker `analytics/tracking.py`, aggregation window `analytics/aggregation.py`, floors `control/kanon.py` | open tracks, counters; dwells of the window | update, close_all, add, close | greedy matching; tracks of several streams aged on one clock; visits that outlive windows |
| commissioning gate `control/commissioning.py` | items passed, exceptions, device state; chain | record_pass, apply_exception, activate | memory only; set before an append that may raise; exceptions expire |
| checks of a visit `platform/qualification.py`, `platform/reachability.py`, `devices/assessment.py`, `control/capability.py`, `devices/discovery.py` | none | decisions on what was measured | what nobody measured; scores near a threshold |
| model store `sealed/bundle.py` | active bundle, version floor; a file | verify, activate | bundle runs before its floor is written; file truncated first |
| edge manager `analytics/edge_manager.py` | recommendations of the day, per action | recommend, schedule, new_day | two caps spent in order of score; memory only |
| session service, consents, probe plan | | | not modelled: see the plan |

The parts meet in these places. The bridge drains the spool and acks it; it asks the egress filter
about every envelope; the filter reads the policy store and appends to the audit chain before the
bridge sends. The retention service and the decommissioner append their receipts to the same chain.
The cascade calls the sealed pipeline for each frame, which asks the zone service; the detections
it lets out feed the tracker, closed tracks feed the aggregation window, and a window that closes is
an aggregate for the spool. A Field Engineer's visit takes the checks of the site, of its cameras and
of its network into the commissioning gate, and installs a model bundle on the way; the gate appends
to the audit chain. Supervisor and boot chain decide what runs at all.

## Modules

| module | models | extends / composes |
|---|---|---|
| `WindowLedger` | what the spool promises about counts, abstractly | |
| `Spool` | the spool, one action per commit | implements `WindowLedger` |
| `AuditChain` | the log, read and write of an append apart | |
| `Delivery` | bridge + egress filter + policy store | uses `WindowLedger` as the spool, the accept rows as the chain |
| `Supervisor` | the units | |
| `Retention` | index, writer and one enforcer | |
| `Boot` | stages, health and slots | |
| `Decommission` | orders, export, key slots, receipts | |
| `Zones` | zones and mapping | |
| `Cascade` | cascade + sealed pipeline + zone checks | extends `Zones` |
| `Footfall` | tracker + aggregation window + floors | |
| `Totals` | the sum of finitely many numbers, as the size of a set of units | used by `Spool` and `Footfall` |
| `Survey` | the checks of a visit: operators, no state | |
| `ModelStore` | bundles, the floor and its file | |
| `Commissioning` | the gate and the visit it refuses until all is done | extends `Survey`, `ModelStore` |
| `EdgeManager` | the advice of a site-day | |
| `MC*` | small instances | |
| `CountingProofs` | theorems of what keeps counts | extends `Spool`, `Footfall` |
| `DeliveryProofs`, `RetentionProofs`, `CascadeProofs`, `CommissioningProofs`, `EdgeManagerProofs` | theorems | the module of that name and TLAPS |
| `AuditProofs` | theorems of the chain and of the decommissioner that exports it | extends `AuditChain`, `Decommission` |
| `PlatformProofs` | theorems of what decides what runs | extends `Boot`, `Supervisor` |

Names are the source's where TLA+ allows. A definition named for a fault (`FitsIgnoringNeed`,
`SkipMark`, ...) is a deliberately wrong form of the one after it: a property is trusted only if it
fails when the wrong form is put in place of the right one.

**Spool.** `rows`, `last_seq` are the tables; everything else dies at `Restart`. `BeginEnqueue` is
`enqueue` up to `_make_room`; `MakeRoom` is one commit of a round of its loop (`CoarsenDelete`,
`CoarsenUpdate`, `DropVictim`) or its refusal; `Insert` is the transaction of `_next_seq` and the
INSERT, which commit together. A payload is the set of windows its "value" sums (`covers`), so "the
count is preserved" becomes "each window is in exactly one place". `gone` is history: what left on
purpose. `UsedBytes` is the SUM over the table. `CoarsenGrowth` bounds the bytes a merge adds to its
head. The code takes it for granted that this is less than what the merged records free;
`CapacityBound` is checked with records of two units and a growth of one, is proved whenever no
record that merges is smaller than the growth (`MergesShrink`), and would fail otherwise. The
program's aggregates are larger: a merge adds one key and some digits to a payload of seven keys
(`analytics/aggregation.py` 56-67). The spool itself does not check it.

**AuditChain.** `ReadHead` builds the record (81-89), `Write` puts it in the file (90-91); another
process, or a power loss, can come between. `TornWrite` leaves part of a line or a line without its
newline; `ended` says which. A digest is its argument list, that is, SHA-256 is taken to be free of
collisions. `Edit`, `Delete`, `Swap` are a hand on the stored file, once. `raced` is history: an
append has begun inside another.

**Delivery.** A batch is `BeginBackfill`, then for each record `TakeRecord`, `Accept`/`Refuse`,
`SendOK`/`SendFails`, and the `finally` block: `Ack`, `Discard`. Coarsening, shedding and policy
loads happen between batches, as everything runs in one thread; power loss happens anywhere, and
`LoadCutShort`, `AcceptCutShort`, `CoarsenCutShort` are the power losses inside a write.
`LoadUnsaved` is a `write_text` of the floor that raises, before it truncated the file or after, with
the bundle active and the process alive; `AppendRaises` an append of the log that does. `tail` is
what a write that stopped short left at the end of the log: a line without its newline
(`"unended"`), or a line that does not parse (`"torn"`). To the first the next row is glued
(`AcceptGlued`): the append returns, the message is sent, and neither row parses; `glued` remembers
the row. Over a torn line every append raises (`LogUnreadable`). The log holds this filter's rows
only: the lines of other units, and races with them, are `AuditChain`'s part. `SendFails`
leaves open whether T2 got the message. The checks of `_checks` are abstracted to the kinds a bundle
lets through and the version comparison; two kinds of one `Metric` differ in k, so a merge may put a
window under a head the filter refuses. The rate limit is left out.

**Supervisor.** A `Supervisor` is immutable; `units` is the latest. `Kept` is what survives the
cascade, stated as the largest closed set; `AfterLoop` is the loop of `_stop_orphans` itself, and
`LoopKeepsTheMost` says they agree in every reachable state.

**Retention.** Each commit, receipt and unlink of `sweep` is a step; `marked`, `due`, `id`, `blob`,
`sweep_now` are its locals, with the same staleness as in the code. The writer may renew an id at any
moment; `overtaken` (ids renewed while the sweep had them on a list) and `orphans` (blobs that lost
their row to a renewal) are history, so that each property says exactly what a renewal can break. `tail` is
the end of the log, as in `Delivery`: `Crash` is the power or a write that raises, and leaves a part
of the receipt or none; `ReceiptRaises` is the append over a torn line, which leaves the record marked
and ends the sweep; `OthersAppend` is a unit that tears the log or glues its row to ours.
`unreceipted` counts the receipts that were tried and cannot be read. No two records of the model
share a blob: `admit` does not look (`storage/durable.py` 121), and what becomes of a shared one is
left out.

**Boot.** `step_boot` is an action per stage that differs, `report_health` is `ReportHealthy` and
`ReportFailed`. A stage out of order raises and changes nothing. `streak`, `left` and `passed` are
history, so that the properties do not trust the counters they are about.

**Decommission.** `erase` is `BeginErase`, one step per domain (`EraseKeySlots` or `EraseFails`) and
`IssueReceipt`; `EraseRaises` and `ReceiptRaises` are the ways out by an exception. Other units
append, and any append may raise, with the whole of its line written, all but the newline or a
part (`tail`); the file may be damaged, the process may end anywhere. `chain` is what reads, so a
receipt whose append raised is in it if the line is all there but for its newline, and goes when
the next line is glued to it.

**Cascade** (with **Zones**). `offer` and the `process` it calls are one step, with one disjunct per
way out, that of a motion gate which raises included (`MotionRaises`: it is called outside the `try`,
and leaves the process healthy). The budget is `Budget / Parts` frames per second, as the code's is
a float: a count is compared with it, so that a fraction is rounded up (`WithinBudget`). `origin` is the offset of a stream's clock, which may be set at any time; `passed` is
history in host time. A frame kept in `recent` is numbered, so that two frames of one
timestamp count as two, and `_recent_ms` is the set of them. Consents, the S2/S3 selectors and the construction of outputs are left out.

**Footfall.** `open` is the dict of open tracks by the number in their id, and `dwells` the window's
list of dwells, by the track each came from. `Update` is `update` with everything it calls: the loop
over the frame's detections (a recursive function; `Associate` is a round, `_best_match` and the two
branches after it) and `close_stale` on the frame's clock; what is closed goes to the window in the
same step, as the tests do it. A box is an interval, so that
`Iou` is the ratio of two integers and is compared by cross-multiplication. `CloseWindow` is `close`
with the medians rounded as Python rounds them; `Ranked` finds the n-th dwell by counting those below
it, where the code sorts. `fed`, `sampled`, `visits` and `reported` are history and stand for the
quantities `WindowsAddUp` balances.

**Survey.** Each check answers with the set of its findings. A question is answered `"yes"`, `"no"` or
`"none"` (nobody looked); numbers stay numbers where they are added up: RAM, and the scores of
cameras, in millionths, rounded to percent as the code rounds. `StreamIssues`, `Components`, `Score`
are `assessment.py` 94-126; `QualifyHost`, `QualifySite` are the two pre-flights, with `AdapterCap`
from `capability.py`; `EndpointFindings` and `Posture` are `reachability.py` 87-144.

**ModelStore.** `InstallModel` is `activate` for a candidate that verifies; `InstallUnsaved` is the
same with a `write_text` that raises before or after it emptied the file. `Reopen` reads the file;
an empty one is no number and leaves no store (`floor = None`). `ran` is history.

**Commissioning** (with **Survey** and **ModelStore**). `Look` is the engineer at the first item that
blocks (`blockers`), finding anything the MC module lists; `Remedy` acts on one finding, and may
bring out another where nobody had looked; `Pass` is `record_pass`, `Activate` is `activate`. `Log`
is the append at the end of a call, which may raise after the gate has changed. `tail` is the end of
the log, as in `Delivery`; `AppendRaises` may leave it unended or torn, and over a torn log nothing
is appended and `activate` never succeeds. `chain` is the rows of this life of the gate that read.
Three things are our reading and not the gate's code: a pass waits for its check, and only the
first item that blocks is passed, where the code records whatever it is told, of any item; a remedy
does what its text says, so that a site can be brought to pass; the age gate waits for an active
bundle. Refused attempts append a row and change nothing else (`OthersAppend`). `unlogged` is history.

**EdgeManager.** `Recommend` is one candidate; `Schedule` filters and scores a batch and then
`IssueRanked` and `CapRanked` are the rounds of its loop. `Eligible` is `_eligible` with the checks
before it, `ForMetric` takes the first entry of a metric. `NewDay`, `Restart` reset the counters;
`given`, `advice`, `lives`, `asked` are history and go by the date, not by the counters. A process
that starts again has the same library, which may verify now or no longer. No `action_id` stands in
two entries of it: see the assumptions below.

## Runs

| run | instance | states | shows |
|---|---|---|---|
| `Spool` | six kinds of record, room for three, five numbers, merges of two | 108,633 | bounded; sheds in order; counts each window once; a count vanishes only inside a merge; enqueue ends; implements `WindowLedger` |
| `AuditChain` | two units, two bodies, four lines | 94,103 | verifies if nobody raced; damage is named |
| `Delivery` | two kinds, three bundles (one forged), three records, batches of two, one fault | 833,777 | every message chained, but one glued to a broken line; under the policy in force, which verified and is not below the floor; no silent loss; order; the queue moves |
| `Supervisor` | the four units and one above the bridge, so that a cascade takes two rounds | 30,071 | never fails open; stops no more than it must |
| `Retention` | two ids, two clips, two crashes or torn lines, renewals at any time | 863,855 | receipts and failed attempts at one match deletions; no blob orphaned and nothing deleted early but by a renewal; everything expires |
| `Boot` | the code's slots and threshold, four failures each | 2,584 | containers only after the privacy set; a slot is left once, at the third failure in a row |
| `Decommission` | the code's domains, two faults, three records of others | 219,320 | receipts are true and bound to an export |
| `Cascade` | three cameras, two admitted, half a frame per second of two ticks (rounded up: one), three frames, clocks of two origins | 1,516,936 | books balance; rate and cap hold; fails closed |
| `Footfall` | two cameras with clocks of two origins, two people whose boxes match and one apart, five detections, four ticks | 397,543 | every detection is a sample of one visit; visits end at gaps; windows add up and respect the floors |
| `Commissioning` | an L1 and an L2 site, the six items with a check, two releases of the model, one exception at a time, one restart, two writes that raise | 179,582 | a device is ACTIVE only with evidence for each item; nothing passes unmeasured; what a commitment covers has no sinking fault; no model downgrade; every visit ends installed, unless a write left a file nobody can read |
| `EdgeManager` | four actions of which one is unreachable, four candidates a batch, two days, one restart a day | 50,328 | caps hold; what is advised is the best that was allowed |
| `AuditTwoUnits` | two appends | | the first of the disagreements below |

Why the bounds suffice. Every hazard needs a small number of things at once: an out-of-order shed
needs two records of different priority and an incoming one; a lost count needs one merge; two
merges in a row and a drop after them need four to five records; a repeated delivery needs one
fault; a race needs two appenders; a two-round cascade needs a chain of three units; two bad slots
need four failures. The history variables that count things (`MaxSeq`, `MaxLines`, `MaxFaults`,
`MaxCrashes`, `MaxAdmits`, `MaxChain`, `MaxOffered`, `MaxNow`, `MaxFed`, `MaxRestarts`, `MaxRaises`,
`MaxVersion`, `MaxDay`, and the items of `Waivable`) are bounded in the guards and bound the run, not
the code. `MCCommissioning` picks what may be found at the boundaries: one answer away from a sound
host, site or network, every set of unmeasured host answers, and streams one issue away from the
best, with all issues together that a score can survive, and one at the least value of every
measure. A downgrade needs two releases and one restart; an exception that has expired needs one
tick. Two caps that interfere need an action that may be taken twice and a site cap below the sum.
`Cascade.cfg` and `Footfall.cfg` declare the cameras symmetric: no definition compares them. A visit
cut short by another stream's clock needs two cameras, one second origin and two ticks; greedy
matching needs two overlapping boxes in both orders.

Deadlock is checked in every run but two. A visit stops at a store that cannot be opened, and ends
when the bounds are used up; a site whose library does not verify gives no advice, and the last day
ends.

### Fairness

- `Spool`: an enqueue that has begun goes on (`WF` of its steps): straight-line code that waits for
  nobody. `EnqueueEnds` needs nothing else.
- `Delivery`: a batch that has begun goes on (`WF InBatch`), for the same reason, and somebody keeps
  asking for backfills (`SF BeginBackfill`): the program has no scheduler, so this is an assumption
  about the caller. Failed sends are finitely many (`MaxFaults`): an assumption about the network.
- `Retention`: a sweep that has begun goes on, and sweeps begin again and again. Nothing in the
  program calls `sweep`: an assumption about the service manager. Crashes are finitely many.
- `Commissioning`: the engineer goes on with the visit and T2 offers its newest bundle when none is
  active (`WF Work`). Both are people and services outside the code: an assumption. Raising writes
  and restarts are finitely many. `Installs` excepts an emptied floor file and a torn log, and rests on
  remedies that help.
- The other modules state safety only and assume no fairness.

## Proofs

TLAPS checks these for all values of the constants that satisfy the named `ASSUME`s. The assumptions
say which constants are numbers and finite sets and that the values that stand for "nothing" are
nothing else (`None`, `NoEnvelope`). Four say more: `RetentionAssumption` bounds what it counts;
`ObservationsAssumption` says that what an engineer finds at a host, a network or a camera answers the
questions the code asks of one (`Host`, `Network`, `AreCameras`); `EdgeManagerAssumption` that no
`action_id` stands in two entries of the library, which nothing in the code checks
(`analytics/edge_manager.py` 190-218) and without which `CapsHold` and `BestOfTheDay` fail: two
entries of one id share a count and may differ in cap; and `CascadeAssumption` that the budget is a
fraction of natural numbers, `Budget / Parts`, as every finite float not below 0 is. One theorem, `SpoolBounded`, has a
hypothesis of its own, `MergesShrink`. Three modules of proofs extend two components each, which is
why the specifications of the log, of the units and of the tracker have names of their own
(`ChainSpec`, `UnitsSpec`, `FootfallSpec`); the theorems are about each by itself.

| theorem | says | by |
|---|---|---|
| `SpoolTypes`, `CountedAtMostOnce`, `SequenceMonotonic`, `OverflowInOrder` | `TypeOK`, `NoDoubleCount`, `SeqNeverReused`, `ShedsInOrder` | types (with every window at most `last_seq`, so that a new number is a new window) and disjointness are inductive together |
| `OnlyMergeLoses` | `LostOnlyInsideMerge` | no commit loses a window, for what it deletes is carried by the merge or has left (`WithoutLosesNone`); only a restart drops a merge, and loses what it carried |
| `SpoolBounded` | `MergesShrink` implies `CapacityBound` | `Bounded`: between the two commits of a merge there is room for what its head will gain, because the rows deleted in the first took as much. What a commit adds or frees is one row's size or a part's (`RowAdds`, `WithoutFrees`) |
| `SpoolKeepsLedger` | every step of `Spool` is a step of `WindowLedger` or a stutter | the mapping counts the windows of an unfinished merge with its head, so the first commit is the `Fold`, the second a stutter, and a restart between them a `Vanish` |
| `FootfallAddsUp` | `WindowsAddUp` | `Joined`: after n rounds of the loop each detection has reached a track of its own, and the samples are n more. Closing splits the samples of the tracks in two parts (`TotalSplit`) and puts each visit in the window once, because no track is both open and in it (`FootfallTypes`). The suppressed value needs that the higher of two floors is at least canon's |
| `FootfallOneVisitEach`, `FootfallVisitsEndAtGaps` | `OneVisitEach`, `VisitsEndAtGaps` | what a frame touched is what its detections continued or began, which are apart, for `started` is past every open id; neither is stale on the frame's own clock (`UpdateReaches`), so that a track that goes was continued by nothing |
| `VerifiesEndToEnd`, `BreakIsLocalised` | `VerifiesUntouched`, `DamageNamed` | `ChainInv`: until a race there is one draft at most and it fits the end of the file; the file is sound, or sound but for the touched record, or out of place from the touched position on, and whatever is appended continues what is there |
| `UnitsTyped`, `NeverFailsOpen`, `LossesAreContained` | `UnitsTypeOK`, `DependenciesRun`, `OnlyDependentsFollow` | `Kept(R)` is closed and contains every closed subset of `R`; a union of closed sets is closed. Holds for any `DEPENDENCIES`, cycles included |
| `OrphansAreFound` | `LoopKeepsTheMost` | what is kept solves the equation of the loop, so the recursive function exists (`RoundsEquation`); a smallest set for which the two differ would have orphans, and a round makes it smaller (`LoopEndsWithKept`): induction by a minimal counterexample, which needs no theorem over predicates |
| `NoPingPong`, `PrivacySetFirst` | `RollsBackOnce`, `ContainersOnlyAfterPrivacy` | a slot that was left has reached the threshold and its counter is never reset, because only the active slot's is; `passed` is cleared with `completed` |
| `ReceiptsNeverOverstate` | `ReceiptsAreTrue` | key slots never come back; the domains done in a call have none, and todo, done and failed cover the erasable domains |
| `ErasedOnce` | `OneReceiptPerErasure` | as long as a record can be appended, an export covers no more than the chain holds; an append that raises or glues only takes the last record away (`LastRecordGone`); a process has issued one receipt just if it is `erased`, and no call in progress finds it so |
| `LogOnlyGrows` | `AppendOnly` | a write appends, or replaces the last line only when it was left unfinished |
| `OnceReceipted`, `MediaKeepsItsRow`, `DeletesOnlyExpired` | `ReceiptsMatchDeletions`, `BlobKeepsItsRow`, `NothingDeletedEarly` | `Sound`: the place of the sweep says which list a record is on (`Lists`); receipts and failed attempts, unmarked rows and the row about to be receipted add up to no more than the admissions, and a mark stands for a receipt or an attempt at one (`Accounts`); what is on a list has expired or was renewed (`ListsExpired`); the blob in hand is the row's, and gone once unlinked (`BlobInHand`) |
| `ActivationHasEvidence` | `EvidenceAtActivation` | every pass and exception in memory has its row, in the log or among those whose append raised or was glued (`Logged`); until a write has raised, the log is whole and none is among those (`Whole`) |
| `ModelsGoForward` | `NoModelDowngrade` | a version that ran with its floor saved is not above the floor, nor above the file unless the file is empty and the store shut |
| `AdviceIsCapped` | `CapsHold` | each process counts what it gave, and its counters are within the caps; a restart adds a process and a day takes all away |
| `ScheduleIsBest` | `BestOfTheDay` | `Ranking`: the loop has taken the batch from the top, the counters are those at its start and the winners since, and who did not win found a cap taken up by winners that score no less (`NoRoomFor`). At the end, for any score: either the site's cap is full of winners of it, or each action has as many of it as any other choice (`GreedyIsBest`), and one-to-one maps per action join into one (`PartsAddUp`) |
| `PolicyGoverned`, `BatchNeverAhead`, `DeliveriesChained`, `NothingLost` | `PolicyGoverns`, `NeverAhead`, `EveryDeliveryChained`, `NoSilentLoss` | with the types, that a record in `_send` is still in the spool and on no list (`InHand`): what is sent has just passed the bundle in force (`Judged`), and no version in force since the last failed write is above the floor (`FloorHolds`); the batch is the head of the spool, taken in order (`HeadOfSpool`); the rows of an envelope, with the glued one, are at least its deliveries and the one on its way (`LogLeads`), and a row is glued once (`GluedOnce`); the windows of what is acked are at T2, and none is missing (`Accounted`) |
| `CascadeBooks`, `CascadeRate`, `CascadeFailsClosed` | `BooksBalance`, `WithinMeasure`, `FailsClosed` | the books are inductive with the types; for the rate, whatever was processed in the last second of the stream's clock is still on its list (`StillRecent`), so that the list, never longer than the budget rounded up (`BudgetRoundsUp`), bounds the second that ends at each frame (`Paced`) |
| `NobodyLookedNothingPasses` | `NobodyLookedNeverPasses` | `Surveyed`: what is on the bench stays a host, a network or cameras under every remedy; a host that qualifies has no open question; a clear path has none whose answer could close it (`ClearStaysClear`) |
| `CommitmentRestsOnTheSuitable` | `CommitmentRests` | `FaultSinks`: the weighted sum of the fractions is at most one, and 0.94 with a fault of resolution or occlusion; the penalties of the seven issues only lower it; one of 0.5 or 0.6 then leaves less than 0.595 |
| `ChainTypes`, `BootTypes`, `DecommissionTypes`, `RetentionTypes`, `GateTypes`, `EdgeTypes`, `DeliveryTypes`, `CascadeTypes`, `FootfallTypes` | the type invariant of each module | inductive, with the part of the invariant above that they need; for `Footfall`, that the best match exists (`BestMatchExists`: matches are fractions, compared transitively) and that a window has a median (`RankExists`) |

Where an argument goes by induction, it is by a minimal counterexample: a least number (`LeastNumber`)
or a smallest subset that is finite (`BestExists`, `LoopEndsWithKept`), so that no theorem over
predicates is needed. The loop over a frame is a recursive function, which is shown to exist first
(`RoundsExist`); and a sum is the number of units in a set (`Totals`), so that the library's facts on
the cardinality of unions are all it takes to add and to split sums (`TotalSplit`, `TotalOf`).

Most type invariants, `SeqNeverReused` and `AppendOnly` are proved for every instance
and are not repeated in the runs, which are kept for what is only checked or is worth seeing fail.

Every invariant and every action property that a passing run checks is also proved, and so is the
refinement of `WindowLedger`. Model-checked only: liveness, which needs fairness and `ENABLED`:
`EnqueueEnds`, `QueueMoves`, `Expires`, `Installs`.

## What the code and its documents disagree on

Shown by a run of its own: `AuditTwoUnits`, two units that append at once leave a chain that does
not verify, where `src/tiers/t1/FEATURES.md:303` has it verify end to end.

Met while modelling, and built into a property or left to its note in the list of hazards:

- `src/tiers/t1/SPEC.md:670` "`boot_id` + `seq` gives exactly-once semantics without server-side dedup
  tables": a record that was sent and not acked may be coarsened and sent again under its number,
  with other contents (`bridge/mqtt.py:133`, `control/spool.py:289`). `Delivery` has the behaviour;
  `EveryDeliveryChained` and `NoSilentLoss` hold with it.
- `bridge/mqtt.py:111` "no retry will ever change that" verdict: a batch drained before a policy is in
  force, or while a rejected bundle disables the bridge, is refused whole and discarded, though the
  next bundle would have let it out. `NoSilentLoss` counts it as discarded.
- `control/commissioning.py:241`: a device stays ACTIVE after the exception it was activated on has
  expired; nothing looks again. `EvidenceAtActivation` speaks of the step only.
- `src/tiers/t1/FEATURES.md:440` (F21 R4) "A waiver shall exist only as a T2-issued, expiring,
  two-person-approved exception recorded in the chain": when the append raises, the exception holds
  all the same, and so does a pass (`unlogged` in `EvidenceAtActivation`).
- `sealed/bundle.py:206`: a power loss after the truncation leaves an empty floor file, and the store
  raises when it is opened, until somebody repairs the file. `Installs` excepts it.
- `devices/assessment.py:60` "a single named issue drops the stream below the threshold": backlight, a dirty lens and glare do not
  (0.66, 0.76 and 0.77 on a stream that is else perfect), and a stream with no issue to name can
  score 0.59. `CommitmentRests` lists what does.
- `platform/reachability.py:140`: enrolment is possible while an endpoint it does not need was never
  measured, and would turn out to be intercepted. `NobodyLookedNeverPasses` is about the others.
- `analytics/edge_manager.py:327`: the three a day are counted by each process; `CapsHold` multiplies
  by the restarts of the day. A second entry of the library for a metric is never found (`for_metric`).
- `devices/discovery.py:175`: `select_adapters` takes three slots by default, on a host with two too.
- `control/zones.py:80`: a second withdrawal overwrites the first one's time.
- `control/spool.py:262` "The count is preserved": not when the power fails between the two commits
  of a merge (288, 294). `LostOnlyInsideMerge` says that nothing else loses a count, and the ledger
  has a `Vanish` for it.
- `control/spool.py:259`: "the oldest run" that is merged is the first metric by name that has two
  rows (274), not the oldest.
- `control/spool.py:282`: a merge takes windows of one metric whatever their k, and keeps its head's
  `k_value`: under a head below its floor, windows above it are refused with it; a suppressed window,
  whose value is 0 (`analytics/aggregation.py:59`), joins a sum that does not say so, where
  `control/kanon.py:3` wants below-floor to read "unknown". For `dwell_time` the sum is of medians.
- `storage/durable.py:188`: a record the writer renewed after the sweep fetched its id is deleted all
  the same, and its receipt says it had expired. `NothingDeletedEarly` excepts it by name.
- `analytics/tracking.py:145`: tracks are aged on the clock of whatever frame came last, so a stream
  that runs ahead cuts short the visits of the others. `VisitsEndAtGaps` excepts it.
- `control/spool.py:198`: prune removes a merged record by its head's time, younger windows included.
- `bridge/mqtt.py:112` "rather than blocking the queue forever": a torn audit line makes every
  append raise, and the queue stands still. `QueueMoves` excepts it.
- `control/egress_filter.py:101`, `control/audit_chain.py:90`: a line of the log that lacks its newline
  takes the next row with it, and the message of that row is sent. `EveryDeliveryChained` excepts
  that one message.
- `control/policy.py:70` has the device refuse anything below a version it ever enforced; the floor
  file is truncated before it is written (101), and an empty file reads as 0. `PolicyGoverns` excepts
  a write there that raises or is cut by the power.
- `control/audit_chain.py:3` "verification localises the break": a line that does not parse makes
  `verify` raise instead (`Readable` in both properties).
- `storage/durable.py:14`: a record that was marked and then had no receipt, because the power failed
  or the append raised (212), is deleted by the next sweep without one. Over a torn log every append
  raises, and each sweep marks one record more (`unreceipted` in `ReceiptsMatchDeletions`).
- `control/commissioning.py:226`: over a torn log `activate` can never succeed. `Installs` excepts it.
- `platform/boot.py:129`: the check for an audit volume that is not mounted can never fire.
- `platform/boot.py:134`: ingest-only mode survives a rollback to a slot whose privacy set is good.
- `storage/erase.py:21` "Erase is terminal": `erased` is a field of an object and false again after a
  restart. `OneReceiptPerErasure` speaks of one Decommissioner.
- `pipeline/cascade.py:148` "Exactly one of output, drop and refusal": a frame of a prohibited zone
  has none, and neither has one on which the motion gate raises, which is called outside the `try`
  (`sealed/pipeline.py:93`): `offer` raises. `OneFate` counts these as `raised`.
- `pipeline/cascade.py:164` calls the budget the host's rate; it is counted per stream, and a
  fractional one is exceeded by less than a frame (293): `WithinMeasure` holds of its ceiling.

## Plan

Done: the modules above, a run for each part. The runs and the properties are as many as can be re-run with every
change, so what follows joins a run that exists or replaces a property by a deeper one. In this order:

1. **Consents and sessions** (`control/zones.py` 36-46, 80-95, `control/session.py`): withdrawal
   deadlines, matching while a record is live. In `Zones` and `Cascade`.
2. **Footfall into Spool**: the suppressed windows and the medians that a merge sums.
3. **Discovery** (`devices/discovery.py`): the budget of attempts per camera, `select_adapters`.
4. **Placement** (`storage/domains.py` 86-121) in `Retention`; a second enforcer, which finds no row
   for an id it has fetched and raises (`storage/durable.py:207`).

Proofs to come: the theorems of consents, sessions and placement as these are modelled; and, once
`Footfall` feeds `Spool`, that the records it makes satisfy `MergesShrink`.

Not modelled: the command-line tools and the simulator (I/O around the components), layout and
sandbox validation (stateless; their verdicts are inputs), the backoff jitter (a hash), the
in-memory retention service that `storage/durable.py` replaces, rollout halts and attestation of the
model store (a comparison and a report), and the I/O of `platform/probe.py` (its results are what the
engineer may find). Cameras' clocks that are set, forward or back, are modelled (`SetClock` in
`Cascade` and `Footfall`); the host's clock only goes forward in the model, but for the dates
`new_day` is called with. Nothing in the code bounds a dwell when a camera's clock goes back
(`analytics/tracking.py:183`), and no property claims it.
