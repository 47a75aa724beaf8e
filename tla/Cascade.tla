------------------------------ MODULE Cascade ------------------------------
(***************************************************************************)
(* Admission and stage gating (t1/pipeline/cascade.py) around the sealed   *)
(* pipeline (t1/sealed/pipeline.py), which asks the zone service about     *)
(* every frame (zone_allows is ZoneService.allows).                        *)
(*                                                                         *)
(* offer() and the process() it calls are one step: both run in one        *)
(* thread.  A frame is what decides its fate: the stream, the stream's     *)
(* clock, whether it is a keyframe and shows motion, what the trunk finds  *)
(* in it, and whether motion detector, trunk and redactor do their work.   *)
(* Pixels, boxes and provenance are left out.  A stream's clock runs with  *)
(* the host's from an origin of its own, and may be set at any time: a     *)
(* camera that restarts.  The budget is a float: here, a fraction.         *)
(* A processed frame is its number and the time its stream's clock gave    *)
(* it: _recent_ms is filtered and counted, so a set of them is enough.     *)
(* A definition named for a fault is the wrong form of the one after it.   *)
(***************************************************************************)
EXTENDS Zones, Integers, FiniteSets

CONSTANTS
  StreamCap,     \* capability.stream_cap
  Budget, Parts, \* budget_fps = Budget / Parts, for one stream
  Second,        \* 1000 ms, in ticks
  KeyframeOnly,  \* keyframe_only: a profile that decodes nothing else
  Findings,      \* what the trunk may find in a frame: sets of age bands
  Origins,       \* origins of a stream's clock
  MaxNow,        \* bound on the host's clock
  MaxOffered     \* bound on the frames offered

AgeBand == {"under_22", "adult", "indeterminate"}
Stage == {"s0_motion", "s1_trunk", "age_gate", "redact"}
Drop == {"non_keyframe", "overload", "no_motion", "redaction_failed"}

ASSUME CascadeAssumption ==
  /\ StreamCap \in Nat /\ Second \in Nat /\ KeyframeOnly \in BOOLEAN
  /\ Budget \in Nat /\ Parts \in Nat \ {0}
  /\ Findings \subseteq SUBSET AgeBand /\ Origins \subseteq Nat
  /\ MaxNow \in Nat /\ MaxOffered \in Nat

VARIABLES
  admitted,     \* Cascade._admitted
  recent,       \* Cascade._recent_ms: stream -> frames
  counters,     \* Cascade.counters
  window_base,  \* Cascade._window_base
  healthy,      \* SealedPipeline._healthy
  sealed,       \* SealedPipeline.counters
  now, origin,  \* the host's clock, and each stream's origin
  \* history, read by no action
  refused,      \* frames refused before the pipeline was called
  down,         \* frames refused because the pipeline is down
  raised,       \* frames for which offer() raised: ProhibitedZone, or what motion() did
  passed        \* stream -> its frames processed since its clock was set

cascade_vars == <<admitted, recent, counters, window_base, healthy, sealed,
                  now, origin, refused, down, raised, passed>>
vars == <<zone_vars, cascade_vars>>

Init ==
  /\ ZonesInit
  /\ admitted = {}
  /\ recent = [s \in Stream |-> {}]
  /\ counters = [offered |-> 0, processed |-> 0,
                 entered |-> [g \in Stage |-> 0], dropped |-> [r \in Drop |-> 0]]
  /\ window_base = [offered |-> 0, processed |-> 0]
  /\ healthy = TRUE
  /\ sealed = [frames_in |-> 0, frames_no_motion |-> 0, frames_dropped_redaction |-> 0,
               detections_total |-> 0, minor_suppressed_n |-> 0, adults_passed |-> 0]
  /\ now = 0 /\ origin \in [Stream -> Origins]
  /\ refused = 0 /\ down = 0 /\ raised = 0
  /\ passed = [s \in Stream |-> {}]

----------------------------------------------------------------------------
(* The surroundings *)

Tick ==
  /\ now < MaxNow /\ now' = now + 1
  /\ UNCHANGED <<zone_vars, admitted, recent, counters, window_base, healthy, sealed,
                 origin, refused, down, raised, passed>>

SetClock(s) ==
  /\ \E o \in Origins \ {origin[s]} : origin' = [origin EXCEPT ![s] = o]
  /\ passed' = [passed EXCEPT ![s] = {}]
  /\ UNCHANGED <<zone_vars, admitted, recent, counters, window_base, healthy, sealed,
                 now, refused, down, raised>>

\* SealedPipeline.crash
Crash ==
  /\ healthy' = FALSE
  /\ UNCHANGED <<zone_vars, admitted, recent, counters, window_base, sealed,
                 now, origin, refused, down, raised, passed>>

----------------------------------------------------------------------------
(* Cascade *)

\* admit, when it admits
Admit(s) ==
  /\ s \notin admitted /\ Cardinality(admitted) < StreamCap
  /\ admitted' = admitted \cup {s}
  /\ UNCHANGED <<zone_vars, recent, counters, window_base, healthy, sealed,
                 now, origin, refused, down, raised, passed>>

\* window_quality: the next window starts here
WindowQuality ==
  /\ window_base' = [offered |-> counters.offered, processed |-> counters.processed]
  /\ UNCHANGED <<zone_vars, admitted, recent, counters, healthy, sealed,
                 now, origin, refused, down, raised, passed>>

\* _over_budget: what is left of _recent_ms, on the stream's own clock
RecentAt(s) == {f \in recent[s] : f.ts > now + origin[s] - Second}
OverBudgetAfter(s) == (Cardinality(RecentAt(s)) - 1) * Parts >= Budget
OverBudget(s) == Cardinality(RecentAt(s)) * Parts >= Budget

\* counters, once one more frame has been offered, dropped or taken through stages
Offered == [counters EXCEPT !.offered = @ + 1]
Dropped(c, reason) == [c EXCEPT !.dropped[reason] = @ + 1]
Entered(c, stages) ==
  [c EXCEPT !.entered = [g \in Stage |-> IF g \in stages THEN @[g] + 1 ELSE @[g]]]

NotAdmitted(s) ==
  /\ s \notin admitted
  /\ counters' = Offered /\ refused' = refused + 1
  /\ UNCHANGED <<admitted, recent, healthy, sealed, down, raised, passed>>

NonKeyframe(s) ==
  /\ s \in admitted /\ KeyframeOnly
  /\ counters' = Dropped(Offered, "non_keyframe")
  /\ UNCHANGED <<admitted, recent, healthy, sealed, refused, down, raised, passed>>

Overload(s) ==
  /\ s \in admitted /\ OverBudget(s)
  /\ counters' = Dropped(Offered, "overload")
  /\ recent' = [recent EXCEPT ![s] = RecentAt(s)]
  /\ UNCHANGED <<admitted, healthy, sealed, refused, down, raised, passed>>

\* offer, as far as the call of process; S0 is counted before it
HandedOver == Entered(Offered, {"s0_motion"})
HandOver(s) == s \in admitted /\ ~OverBudget(s)
KeepRecent(s) == recent' = [recent EXCEPT ![s] = RecentAt(s)]

\* except SealedPipelineDown: the stream stops
StreamStops(s) ==
  /\ HandOver(s) /\ KeepRecent(s)
  /\ counters' = HandedOver /\ down' = down + 1
  /\ healthy' = FALSE
  /\ admitted' = admitted \ {s}
  /\ UNCHANGED <<refused, raised, passed>>

----------------------------------------------------------------------------
(* SealedPipeline.process, with what offer makes of its result *)

Down(s) == ~healthy /\ StreamStops(s) /\ UNCHANGED sealed

\* instantiate raises, and offer does not catch it
ProhibitedZone(s) ==
  /\ healthy /\ HandOver(s) /\ ~Allows(s) /\ KeepRecent(s)
  /\ counters' = HandedOver /\ raised' = raised + 1
  /\ UNCHANGED <<admitted, healthy, sealed, refused, down, passed>>

FrameIn == [sealed EXCEPT !.frames_in = @ + 1]
Runs(s) == healthy /\ HandOver(s) /\ Allows(s)

NoMotion(s) ==
  /\ Runs(s) /\ KeepRecent(s)
  /\ sealed' = [FrameIn EXCEPT !.frames_no_motion = @ + 1]
  /\ counters' = Dropped(HandedOver, "no_motion")
  /\ UNCHANGED <<admitted, healthy, refused, down, raised, passed>>

\* motion() is called outside the try: the frame is in the books and the process goes on
MotionRaises(s) ==
  /\ Runs(s) /\ KeepRecent(s)
  /\ sealed' = FrameIn
  /\ counters' = HandedOver /\ raised' = raised + 1
  /\ UNCHANGED <<admitted, healthy, refused, down, passed>>

TrunkFails(s) == Runs(s) /\ sealed' = FrameIn /\ StreamStops(s)

\* the age gate: everyone who is not an adult is suppressed
Gated(found) ==
  LET adults == Cardinality(found \cap {"adult"})
  IN [FrameIn EXCEPT !.detections_total = @ + Cardinality(found),
                     !.minor_suppressed_n = @ + Cardinality(found) - adults,
                     !.adults_passed = @ + adults]

RedactorFails(s, found) == Runs(s) /\ sealed' = Gated(found) /\ StreamStops(s)

RedactionFailsAsQuiet(s, found) ==
  /\ Runs(s) /\ KeepRecent(s)
  /\ sealed' = [Gated(found) EXCEPT !.frames_dropped_redaction = @ + 1]
  /\ counters' = Dropped(HandedOver, "no_motion")
  /\ UNCHANGED <<admitted, healthy, refused, down, raised, passed>>

\* the redactor returns nothing, or a frame it did not redact
RedactionFails(s, found) ==
  /\ Runs(s) /\ KeepRecent(s)
  /\ sealed' = [Gated(found) EXCEPT !.frames_dropped_redaction = @ + 1]
  /\ counters' = Dropped(HandedOver, "redaction_failed")
  /\ UNCHANGED <<admitted, healthy, refused, down, raised, passed>>

ThisFrame(s) == [n |-> counters.processed + 1, ts |-> now + origin[s]]

\* a SealedOutput: the frame is processed, and the stages after S0 are counted
Crosses(s, found) ==
  /\ Runs(s)
  /\ sealed' = Gated(found)
  /\ recent' = [recent EXCEPT ![s] = RecentAt(s) \cup {ThisFrame(s)}]
  /\ counters' = [Entered(HandedOver, Stage \ {"s0_motion"}) EXCEPT !.processed = @ + 1]
  /\ passed' = [passed EXCEPT ![s] = @ \cup {ThisFrame(s)}]
  /\ UNCHANGED <<admitted, healthy, refused, down, raised>>

Offer(s) ==
  /\ counters.offered < MaxOffered
  /\ \/ NotAdmitted(s) \/ NonKeyframe(s) \/ Overload(s)
     \/ Down(s) \/ ProhibitedZone(s) \/ NoMotion(s) \/ MotionRaises(s)
     \/ TrunkFails(s)
     \/ \E found \in Findings : \/ RedactorFails(s, found)
                                \/ RedactionFails(s, found)
                                \/ Crosses(s, found)
  /\ UNCHANGED <<zone_vars, window_base, now, origin>>

Next ==
  \/ ZoneStep /\ UNCHANGED cascade_vars
  \/ \E s \in Stream : Admit(s) \/ Offer(s) \/ SetClock(s)
  \/ WindowQuality
  \/ Tick
  \/ Crash

Spec == Init /\ [][Next]_vars

----------------------------------------------------------------------------
(***************************************************************************)
(* Properties                                                              *)
(***************************************************************************)

ProcessedFrame == [n : 1..counters.processed, ts : Nat]

\* no more than the budget, rounded up to a frame
WithinBudget(n) == n * Parts < Budget + Parts

\* Types; a stream never keeps more timestamps than its budget, rounded up.
TypeOK ==
  /\ ZonesTyped
  /\ admitted \subseteq Stream
  /\ recent \in [Stream -> SUBSET ProcessedFrame]
  /\ \A s \in Stream : IsFiniteSet(recent[s]) /\ WithinBudget(Cardinality(recent[s]))
  /\ counters \in [offered : Nat, processed : Nat, entered : [Stage -> Nat],
                   dropped : [Drop -> Nat]]
  /\ window_base \in [offered : Nat, processed : Nat]
  /\ healthy \in BOOLEAN
  /\ sealed \in [frames_in : Nat, frames_no_motion : Nat, frames_dropped_redaction : Nat,
                 detections_total : Nat, minor_suppressed_n : Nat, adults_passed : Nat]
  /\ now \in Nat /\ origin \in [Stream -> Origins]
  /\ refused \in Nat /\ down \in Nat /\ raised \in Nat
  /\ passed \in [Stream -> SUBSET ProcessedFrame]

\* One offered frame, one fate (cascade.py:148), but for the frames for which offer()
\* raises and which have none: those of a stream that maps to no permitted zone, and
\* those over which the motion detector raises.
OneFate ==
  counters.offered = counters.processed + counters.dropped["non_keyframe"]
                     + counters.dropped["overload"] + counters.dropped["no_motion"]
                     + counters.dropped["redaction_failed"] + refused + down + raised

\* The cascade reads off the pipeline's counters why it got nothing: its two reasons
\* agree with the pipeline's own count of each.
ReasonsAgree ==
  /\ counters.dropped["no_motion"] = sealed.frames_no_motion
  /\ counters.dropped["redaction_failed"] = sealed.frames_dropped_redaction

\* No output skipped a stage: whatever crossed went through all of them.
WholeCascade ==
  /\ \A g \in Stage \ {"s0_motion"} : counters.entered[g] = counters.processed
  /\ counters.entered["s0_motion"] = counters.processed + counters.dropped["no_motion"]
                                     + counters.dropped["redaction_failed"] + down + raised

\* Every detection is either suppressed or passed, also in the frames that were lost
\* after the gate, and the coverage of the window in progress is between 0 and 1.
CountsHold ==
  /\ sealed.detections_total = sealed.minor_suppressed_n + sealed.adults_passed
  /\ LET o == counters.offered - window_base.offered
         p == counters.processed - window_base.processed
     IN 0 <= p /\ p <= o

\* The books of the cascade and of the sealed process balance, whatever failed and
\* however the frames of several streams interleave, with the frames for which offer()
\* raised counted apart: coverage and the suppression rate are computed from them.
BooksBalance == OneFate /\ ReasonsAgree /\ WholeCascade /\ CountsHold

\* In any second of a stream no more of its frames are processed than its budget, rounded
\* up to a whole frame, as long as nobody sets its clock meanwhile, whatever the other
\* streams do; and never are more streams admitted than the profile permits, stopped and
\* re-admitted ones included.
WithinMeasure ==
  /\ \A s \in Stream : \A f \in passed[s] :
        WithinBudget(Cardinality({e \in passed[s] : e.n <= f.n /\ e.ts > f.ts - Second}))
  /\ Cardinality(admitted) <= StreamCap

\* Fail closed (F07 R5, F10 R1): once the sealed process has failed nothing more is
\* processed or even looked at, re-admitted streams included; and a frame crosses only
\* from an admitted stream, mapped to a zone that is not prohibited at that moment,
\* however the zone was tagged when the stream was mapped to it.
FailsClosed ==
  [][/\ ~healthy => ~healthy' /\ sealed' = sealed /\ counters'.processed = counters.processed
     /\ \A s \in Stream : ~(passed'[s] \subseteq passed[s]) =>
          s \in admitted /\ stream_zone[s] # NoZone /\ zones[stream_zone[s]] = "permitted"]_vars

=============================================================================
