--------------------------- MODULE CascadeProofs ---------------------------
(***************************************************************************)
(* Proofs about Cascade, for any set of streams and zones, any profile,    *)
(* any budget, a fraction, and whatever the trunk finds: the books of the  *)
(* cascade and of the sealed process, the rate of one stream, and the      *)
(* closing of the pipeline.                                                *)
(***************************************************************************)
EXTENDS Cascade, FiniteSetTheorems, TLAPS

----------------------------------------------------------------------------
(* The books *)

Counters == [offered : Nat, processed : Nat, entered : [Stage -> Nat], dropped : [Drop -> Nat]]
Sealed == [frames_in : Nat, frames_no_motion : Nat, frames_dropped_redaction : Nat,
           detections_total : Nat, minor_suppressed_n : Nat, adults_passed : Nat]

BooksTyped ==
  /\ counters \in Counters /\ sealed \in Sealed
  /\ window_base \in [offered : Nat, processed : Nat]
  /\ refused \in Nat /\ down \in Nat /\ raised \in Nat

\* The books are their own invariant: each fate enters the same frame in every book.
Books == BooksTyped /\ BooksBalance

\* A frame that is offered changes one counter.
LEMMA OfferedCounts ==
  ASSUME counters \in Counters
  PROVE  /\ Offered \in Counters
         /\ Offered.offered = counters.offered + 1 /\ Offered.processed = counters.processed
         /\ Offered.entered = counters.entered /\ Offered.dropped = counters.dropped
  BY DEF Counters, Offered

\* A drop is counted under its reason, and under no other.
LEMMA DroppedCounts ==
  ASSUME NEW c \in Counters, NEW reason \in Drop
  PROVE  /\ Dropped(c, reason) \in Counters
         /\ Dropped(c, reason).offered = c.offered /\ Dropped(c, reason).processed = c.processed
         /\ Dropped(c, reason).entered = c.entered
         /\ \A r \in Drop : Dropped(c, reason).dropped[r] =
                              IF r = reason THEN c.dropped[r] + 1 ELSE c.dropped[r]
  <1>1. /\ c.dropped \in [Drop -> Nat] /\ c.offered \in Nat /\ c.processed \in Nat
        /\ c.entered \in [Stage -> Nat]
    BY DEF Counters
  <1> DEFINE d == [c.dropped EXCEPT ![reason] = @ + 1]
  <1>2. /\ d \in [Drop -> Nat]
        /\ \A r \in Drop : d[r] = IF r = reason THEN c.dropped[r] + 1 ELSE c.dropped[r]
    BY <1>1
  <1>3. Dropped(c, reason) = [c EXCEPT !.dropped = d]
    BY DEF Dropped, Counters
  <1> HIDE DEF d
  <1>4. /\ Dropped(c, reason).dropped = d
        /\ Dropped(c, reason).offered = c.offered /\ Dropped(c, reason).processed = c.processed
        /\ Dropped(c, reason).entered = c.entered
        /\ Dropped(c, reason) \in Counters
    BY <1>1, <1>2, <1>3 DEF Counters
  <1> QED BY <1>2, <1>4

\* A frame enters the stages it is said to enter.
LEMMA EnteredCounts ==
  ASSUME NEW c \in Counters, NEW stages \in SUBSET Stage
  PROVE  /\ Entered(c, stages) \in Counters
         /\ Entered(c, stages).offered = c.offered /\ Entered(c, stages).processed = c.processed
         /\ Entered(c, stages).dropped = c.dropped
         /\ \A g \in Stage : Entered(c, stages).entered[g] =
                               IF g \in stages THEN c.entered[g] + 1 ELSE c.entered[g]
  <1>1. /\ c.entered \in [Stage -> Nat] /\ c.offered \in Nat /\ c.processed \in Nat
        /\ c.dropped \in [Drop -> Nat]
    BY DEF Counters
  <1> DEFINE d == [g \in Stage |-> IF g \in stages THEN c.entered[g] + 1 ELSE c.entered[g]]
  <1>2. d \in [Stage -> Nat]
    BY <1>1
  <1>3. Entered(c, stages) = [c EXCEPT !.entered = d]
    BY DEF Entered, Counters
  <1>4. \A g \in Stage : d[g] = IF g \in stages THEN c.entered[g] + 1 ELSE c.entered[g]
    OBVIOUS
  <1> HIDE DEF d
  <1>5. /\ Entered(c, stages).entered = d
        /\ Entered(c, stages).offered = c.offered /\ Entered(c, stages).processed = c.processed
        /\ Entered(c, stages).dropped = c.dropped
        /\ Entered(c, stages) \in Counters
    BY <1>1, <1>2, <1>3 DEF Counters
  <1> QED BY <1>4, <1>5

\* A frame that is processed changes one counter too.
LEMMA ProcessedCounts ==
  ASSUME NEW c \in Counters
  PROVE  LET d == [c EXCEPT !.processed = @ + 1]
         IN  /\ d \in Counters /\ d.offered = c.offered /\ d.processed = c.processed + 1
             /\ d.entered = c.entered /\ d.dropped = c.dropped
  BY DEF Counters

\* What the cascade has counted when it calls the pipeline.
LEMMA HandedOverCounts ==
  ASSUME counters \in Counters
  PROVE  /\ HandedOver \in Counters
         /\ HandedOver.offered = counters.offered + 1
         /\ HandedOver.processed = counters.processed
         /\ HandedOver.dropped = counters.dropped
         /\ \A g \in Stage : HandedOver.entered[g] =
              IF g = "s0_motion" THEN counters.entered[g] + 1 ELSE counters.entered[g]
  <1>1. {"s0_motion"} \in SUBSET Stage
    BY DEF Stage
  <1> QED BY <1>1, OfferedCounts, EnteredCounts DEF HandedOver

\* The gate splits what the trunk found into adults and those it suppresses.
LEMMA GateSplits ==
  ASSUME sealed \in Sealed, NEW found \in Findings
  PROVE  /\ Gated(found) \in Sealed
         /\ Gated(found).frames_no_motion = sealed.frames_no_motion
         /\ Gated(found).frames_dropped_redaction = sealed.frames_dropped_redaction
         /\ sealed.detections_total = sealed.minor_suppressed_n + sealed.adults_passed =>
              Gated(found).detections_total
                = Gated(found).minor_suppressed_n + Gated(found).adults_passed
  <1> DEFINE adults == Cardinality(found \cap {"adult"})
             n == Cardinality(found)
  <1>1. IsFiniteSet(AgeBand)
    <2>1. /\ IsFiniteSet({})
          /\ AgeBand = (({} \cup {"under_22"}) \cup {"adult"}) \cup {"indeterminate"}
      BY FS_EmptySet DEF AgeBand
    <2> QED BY <2>1, FS_AddElement
  <1>2. IsFiniteSet(found)
    BY <1>1, CascadeAssumption, FS_Subset
  <1>3. n \in Nat /\ adults \in Nat /\ adults <= n
    BY <1>2, FS_Subset, FS_CardinalityType
  <1>4. Gated(found) = [FrameIn EXCEPT !.detections_total = @ + n,
                                       !.minor_suppressed_n = @ + n - adults,
                                       !.adults_passed = @ + adults]
    BY DEF Gated
  <1> HIDE DEF n, adults
  <1>5. /\ FrameIn \in Sealed
        /\ FrameIn.frames_no_motion = sealed.frames_no_motion
        /\ FrameIn.frames_dropped_redaction = sealed.frames_dropped_redaction
        /\ FrameIn.detections_total = sealed.detections_total
        /\ FrameIn.minor_suppressed_n = sealed.minor_suppressed_n
        /\ FrameIn.adults_passed = sealed.adults_passed
    BY DEF FrameIn, Sealed
  <1>6. /\ FrameIn.detections_total \in Nat /\ FrameIn.minor_suppressed_n \in Nat
        /\ FrameIn.adults_passed \in Nat
    BY <1>5 DEF Sealed
  <1>7. /\ Gated(found) = [FrameIn EXCEPT
                !.detections_total = FrameIn.detections_total + n,
                !.minor_suppressed_n = FrameIn.minor_suppressed_n + n - adults,
                !.adults_passed = FrameIn.adults_passed + adults]
        /\ FrameIn.detections_total + n \in Nat
        /\ FrameIn.minor_suppressed_n + n - adults \in Nat
        /\ FrameIn.adults_passed + adults \in Nat
    BY <1>3, <1>4, <1>5, <1>6 DEF Sealed
  <1>8. /\ Gated(found) \in Sealed
        /\ Gated(found).frames_no_motion = FrameIn.frames_no_motion
        /\ Gated(found).frames_dropped_redaction = FrameIn.frames_dropped_redaction
        /\ Gated(found).detections_total = FrameIn.detections_total + n
        /\ Gated(found).minor_suppressed_n = FrameIn.minor_suppressed_n + n - adults
        /\ Gated(found).adults_passed = FrameIn.adults_passed + adults
    BY <1>5, <1>7 DEF Sealed
  <1> QED BY <1>3, <1>5, <1>6, <1>8

\* The books at the start are empty.
LEMMA BooksInit == Init => Books
  <1> SUFFICES ASSUME Init PROVE Books
    OBVIOUS
  <1>1. BooksTyped
    <2>1. [g \in Stage |-> 0] \in [Stage -> Nat] /\ [r \in Drop |-> 0] \in [Drop -> Nat]
      OBVIOUS
    <2>2. counters \in Counters
      BY <2>1 DEF Init, Counters
    <2>3. sealed \in Sealed
      BY DEF Init, Sealed
    <2> QED BY <2>2, <2>3 DEF Init, BooksTyped
  <1>2. BooksBalance
    BY DEF Init, BooksBalance, OneFate, ReasonsAgree, WholeCascade, CountsHold, Stage, Drop
  <1> QED BY <1>1, <1>2 DEF Books

\* A frame that goes no further than the cascade: it is refused, or dropped.
LEMMA BooksShed ==
  ASSUME Books, NEW s \in Stream, UNCHANGED window_base,
         NotAdmitted(s) \/ NonKeyframe(s) \/ Overload(s)
  PROVE  Books'
  <1>0. counters \in Counters
    BY DEF Books, BooksTyped
  <1>1. CASE NotAdmitted(s)
    <2>1. counters' = Offered /\ refused' = refused + 1 /\ UNCHANGED <<sealed, down, raised>>
      BY <1>1 DEF NotAdmitted
    <2>2. counters' \in Counters /\ counters \in Counters
      BY <1>0, <2>1, OfferedCounts
    <2> QED BY <2>1, <2>2, OfferedCounts
      DEF Books, BooksTyped, BooksBalance, OneFate, ReasonsAgree, WholeCascade, CountsHold,
          Counters, Drop, Stage
  <1>2. ASSUME NEW reason \in {"non_keyframe", "overload"}, counters' = Dropped(Offered, reason),
               UNCHANGED <<sealed, refused, down, raised>>
        PROVE  Books'
    <2>1. reason \in Drop
      BY DEF Drop
    <2>2. /\ Offered \in Counters /\ Offered.offered = counters.offered + 1
          /\ Offered.processed = counters.processed
          /\ Offered.entered = counters.entered /\ Offered.dropped = counters.dropped
      BY <1>0, OfferedCounts
    <2>3. /\ counters' \in Counters /\ counters'.offered = Offered.offered
          /\ counters'.processed = Offered.processed /\ counters'.entered = Offered.entered
          /\ \A r \in Drop : counters'.dropped[r] =
                              IF r = reason THEN Offered.dropped[r] + 1 ELSE Offered.dropped[r]
      BY <1>2, <2>1, <2>2, DroppedCounts
    <2>4. /\ counters'.offered = counters.offered + 1
          /\ counters'.processed = counters.processed /\ counters'.entered = counters.entered
          /\ \A r \in Drop : counters'.dropped[r] =
                              IF r = reason THEN counters.dropped[r] + 1 ELSE counters.dropped[r]
      BY <2>2, <2>3
    <2> QED BY <1>0, <1>2, <2>3, <2>4
      DEF Books, BooksTyped, BooksBalance, OneFate, ReasonsAgree, WholeCascade, CountsHold,
          Counters, Drop, Stage
  <1> QED BY <1>1, <1>2 DEF NonKeyframe, Overload

\* What the pipeline counts may move, but not what has to balance.
SealedKeepsBalance ==
  /\ sealed' \in Sealed
  /\ sealed'.detections_total = sealed'.minor_suppressed_n + sealed'.adults_passed

\* A frame that stops its stream, or raises: it has entered S0 and has its own count.
LEMMA BooksStop ==
  ASSUME Books, UNCHANGED <<window_base, refused>>, counters' = HandedOver,
         \/ down' = down + 1 /\ raised' = raised
         \/ down' = down /\ raised' = raised + 1,
         SealedKeepsBalance,
         sealed'.frames_no_motion = sealed.frames_no_motion,
         sealed'.frames_dropped_redaction = sealed.frames_dropped_redaction
  PROVE  Books'
  <1>0. counters \in Counters
    BY DEF Books, BooksTyped
  <1>1. counters' \in Counters /\ counters \in Counters
    BY <1>0, HandedOverCounts
  <1> QED BY <1>0, <1>1, HandedOverCounts
      DEF Books, BooksTyped, BooksBalance, OneFate, ReasonsAgree, WholeCascade, CountsHold,
          Counters, Drop, Stage, SealedKeepsBalance

\* A frame the pipeline gives nothing for: cascade and pipeline count the same reason.
LEMMA BooksNothing ==
  ASSUME Books, UNCHANGED <<window_base, refused, down, raised>>,
         NEW reason \in {"no_motion", "redaction_failed"}, counters' = Dropped(HandedOver, reason),
         SealedKeepsBalance,
         sealed'.frames_no_motion
           = sealed.frames_no_motion + (IF reason = "no_motion" THEN 1 ELSE 0),
         sealed'.frames_dropped_redaction
           = sealed.frames_dropped_redaction + (IF reason = "no_motion" THEN 0 ELSE 1)
  PROVE  Books'
  <1>0. counters \in Counters
    BY DEF Books, BooksTyped
  <1>1. reason \in Drop
    BY DEF Drop
  <1>2. /\ counters' \in Counters /\ counters \in Counters
        /\ counters'.offered = counters.offered + 1
        /\ counters'.processed = counters.processed
        /\ counters'.entered = HandedOver.entered
        /\ \A r \in Drop : counters'.dropped[r] =
                            IF r = reason THEN counters.dropped[r] + 1 ELSE counters.dropped[r]
    BY <1>0, <1>1, HandedOverCounts, DroppedCounts
  <1>3. \A g \in Stage : counters'.entered[g] =
            IF g = "s0_motion" THEN counters.entered[g] + 1 ELSE counters.entered[g]
    BY <1>0, <1>2, HandedOverCounts
  <1>4. /\ counters'.dropped["no_motion"]
            = counters.dropped["no_motion"] + (IF reason = "no_motion" THEN 1 ELSE 0)
        /\ counters'.dropped["redaction_failed"]
            = counters.dropped["redaction_failed"] + (IF reason = "no_motion" THEN 0 ELSE 1)
        /\ counters'.dropped["non_keyframe"] = counters.dropped["non_keyframe"]
        /\ counters'.dropped["overload"] = counters.dropped["overload"]
    BY <1>0, <1>2 DEF Counters, Drop
  <1>5. /\ counters.offered \in Nat /\ counters.processed \in Nat
        /\ \A r \in Drop : counters.dropped[r] \in Nat
        /\ \A g \in Stage : counters.entered[g] \in Nat
        /\ refused \in Nat /\ down \in Nat /\ raised \in Nat
    BY <1>0 DEF Books, BooksTyped, Counters
  <1>6. BooksTyped'
    BY <1>2 DEF Books, BooksTyped, SealedKeepsBalance
  <1>7. OneFate'
    <2>1. /\ OneFate
          /\ counters.dropped["no_motion"] \in Nat /\ counters.dropped["overload"] \in Nat
          /\ counters.dropped["non_keyframe"] \in Nat
          /\ counters.dropped["redaction_failed"] \in Nat
      BY <1>5 DEF Books, BooksBalance, Drop
    <2>2. CASE reason = "no_motion"
      BY <1>2, <1>4, <1>5, <2>1, <2>2 DEF OneFate
    <2>3. CASE reason # "no_motion"
      BY <1>2, <1>4, <1>5, <2>1, <2>3 DEF OneFate
    <2> QED BY <2>2, <2>3
  <1>8. ReasonsAgree'
    BY <1>4 DEF Books, BooksBalance, ReasonsAgree
  <1>9. WholeCascade'
    BY <1>2, <1>3, <1>4, <1>5 DEF Books, BooksBalance, WholeCascade, Stage, Drop
  <1>10. CountsHold'
    BY <1>2, <1>5 DEF Books, BooksTyped, BooksBalance, CountsHold, SealedKeepsBalance
  <1> QED BY <1>6, <1>7, <1>8, <1>9, <1>10 DEF Books, BooksBalance

\* A frame that crosses has entered every stage.
LEMMA BooksCross ==
  ASSUME Books, UNCHANGED <<window_base, refused, down, raised>>,
         counters' = [Entered(HandedOver, Stage \ {"s0_motion"}) EXCEPT !.processed = @ + 1],
         SealedKeepsBalance,
         sealed'.frames_no_motion = sealed.frames_no_motion,
         sealed'.frames_dropped_redaction = sealed.frames_dropped_redaction
  PROVE  Books' /\ counters'.processed = counters.processed + 1
  <1>0. counters \in Counters
    BY DEF Books, BooksTyped
  <1> DEFINE c == Entered(HandedOver, Stage \ {"s0_motion"})
  <1>1. /\ c \in Counters /\ counters \in Counters
        /\ c.offered = counters.offered + 1 /\ c.processed = counters.processed
        /\ c.dropped = counters.dropped
        /\ \A g \in Stage : c.entered[g] = counters.entered[g] + 1
    <2>1. HandedOver \in Counters /\ Stage \ {"s0_motion"} \in SUBSET Stage
      BY <1>0, HandedOverCounts
    <2>2. \A g \in Stage : c.entered[g] = IF g \in Stage \ {"s0_motion"}
                                         THEN HandedOver.entered[g] + 1 ELSE HandedOver.entered[g]
      BY <2>1, EnteredCounts
    <2>3. \A g \in Stage : c.entered[g] = counters.entered[g] + 1
      BY <1>0, <2>2, HandedOverCounts
    <2> QED BY <1>0, <2>1, <2>3, HandedOverCounts, EnteredCounts
  <1> HIDE DEF c
  <1>2. counters' = [c EXCEPT !.processed = @ + 1]
    BY DEF c
  <1>3. /\ counters'.offered = counters.offered + 1
        /\ counters'.processed = counters.processed + 1
        /\ counters'.dropped = counters.dropped /\ counters'.entered = c.entered
        /\ counters' \in Counters
    <2>1. c \in Counters
      BY <1>1
    <2>2. /\ counters' \in Counters /\ counters'.offered = c.offered
          /\ counters'.processed = c.processed + 1
          /\ counters'.entered = c.entered /\ counters'.dropped = c.dropped
      BY <1>2, <2>1, ProcessedCounts
    <2> QED BY <1>1, <2>2
  <1>4. BooksTyped'
    BY <1>3 DEF Books, BooksTyped, SealedKeepsBalance
  <1>5. OneFate' /\ ReasonsAgree'
    BY <1>1, <1>3 DEF Books, BooksTyped, BooksBalance, OneFate, ReasonsAgree, Counters, Drop
  <1>6. WholeCascade'
    <2>1. \A g \in Stage : counters'.entered[g] = counters.entered[g] + 1
      BY <1>1, <1>3
    <2>2. /\ counters.processed \in Nat /\ down \in Nat /\ raised \in Nat
          /\ counters.dropped["no_motion"] \in Nat /\ counters.dropped["redaction_failed"] \in Nat
          /\ WholeCascade
      BY <1>0 DEF Books, BooksTyped, BooksBalance, Counters, Drop
    <2>3. \A g \in Stage \ {"s0_motion"} : counters'.entered[g] = counters'.processed
      BY <1>3, <2>1, <2>2 DEF WholeCascade
    <2>4. "s0_motion" \in Stage
      BY DEF Stage
    <2>5. counters'.entered["s0_motion"]
            = counters'.processed + counters'.dropped["no_motion"]
              + counters'.dropped["redaction_failed"] + down' + raised'
      <3>1. counters.entered["s0_motion"]
              = counters.processed + counters.dropped["no_motion"]
                + counters.dropped["redaction_failed"] + down + raised
        BY <2>2 DEF WholeCascade
      <3>2. counters'.entered["s0_motion"] = counters.entered["s0_motion"] + 1
        BY <2>1, <2>4
      <3> QED BY <1>3, <2>2, <3>1, <3>2
    <2> QED BY <2>3, <2>5 DEF WholeCascade
  <1>7. CountsHold'
    BY <1>1, <1>3 DEF Books, BooksTyped, BooksBalance, CountsHold, Counters, SealedKeepsBalance
  <1> QED BY <1>3, <1>4, <1>5, <1>6, <1>7 DEF Books, BooksBalance

\* A frame the pipeline takes in.
LEMMA FrameInCounts ==
  ASSUME NEW c \in Sealed
  PROVE  LET d == [c EXCEPT !.frames_in = @ + 1]
         IN  /\ d \in Sealed
             /\ d.frames_no_motion = c.frames_no_motion
             /\ d.frames_dropped_redaction = c.frames_dropped_redaction
             /\ d.detections_total = c.detections_total
             /\ d.minor_suppressed_n = c.minor_suppressed_n
             /\ d.adults_passed = c.adults_passed
  BY DEF Sealed

\* A frame without motion.
LEMMA QuietCounts ==
  ASSUME NEW c \in Sealed
  PROVE  LET d == [c EXCEPT !.frames_no_motion = @ + 1]
         IN  /\ d \in Sealed /\ d.frames_no_motion = c.frames_no_motion + 1
             /\ d.frames_dropped_redaction = c.frames_dropped_redaction
             /\ d.detections_total = c.detections_total
             /\ d.minor_suppressed_n = c.minor_suppressed_n
             /\ d.adults_passed = c.adults_passed
  BY DEF Sealed

\* A frame that was not redacted.
LEMMA UnredactedCounts ==
  ASSUME NEW c \in Sealed
  PROVE  LET d == [c EXCEPT !.frames_dropped_redaction = @ + 1]
         IN  /\ d \in Sealed /\ d.frames_dropped_redaction = c.frames_dropped_redaction + 1
             /\ d.frames_no_motion = c.frames_no_motion
             /\ d.detections_total = c.detections_total
             /\ d.minor_suppressed_n = c.minor_suppressed_n
             /\ d.adults_passed = c.adults_passed
  BY DEF Sealed

\* What one offer may do: the books balance again, the stream may stop, and its timestamps
\* are pruned; or a frame of an admitted stream crosses, of a running pipeline and a zone
\* that allows it.
Offering(s) ==
  /\ UNCHANGED <<zone_vars, now, origin>>
  /\ admitted' \in {admitted, admitted \ {s}} /\ healthy' \in {healthy, FALSE}
  /\ ~healthy => sealed' = sealed
  /\ \/ /\ healthy /\ s \in admitted /\ Allows(s) /\ ~OverBudget(s)
        /\ counters'.processed = counters.processed + 1
        /\ recent' = [recent EXCEPT ![s] = RecentAt(s) \cup {ThisFrame(s)}]
        /\ passed' = [passed EXCEPT ![s] = @ \cup {ThisFrame(s)}]
     \/ /\ counters'.processed = counters.processed /\ passed' = passed
        /\ recent' \in {recent, [recent EXCEPT ![s] = RecentAt(s)]}

\* Every fate of an offered frame is one of these.
LEMMA OfferBooks ==
  ASSUME Books, NEW s \in Stream, Offer(s)
  PROVE  Books' /\ Offering(s)
  <1>1. /\ counters \in Counters /\ sealed \in Sealed
        /\ sealed.detections_total = sealed.minor_suppressed_n + sealed.adults_passed
        /\ UNCHANGED <<zone_vars, window_base, now, origin>>
    BY DEF Books, BooksTyped, BooksBalance, CountsHold, Offer
  <1>2. /\ FrameIn \in Sealed /\ FrameIn.frames_no_motion = sealed.frames_no_motion
        /\ FrameIn.frames_dropped_redaction = sealed.frames_dropped_redaction
        /\ FrameIn.detections_total = FrameIn.minor_suppressed_n + FrameIn.adults_passed
    BY <1>1, FrameInCounts DEF FrameIn
  <1>3. HandedOver \in Counters /\ HandedOver.processed = counters.processed
    BY <1>1, HandedOverCounts
  <1>4. \A reason \in Drop : /\ Dropped(Offered, reason).processed = counters.processed
                            /\ Dropped(HandedOver, reason).processed = counters.processed
    BY <1>1, <1>3, OfferedCounts, DroppedCounts
  <1>5. CASE NotAdmitted(s) \/ NonKeyframe(s) \/ Overload(s)
    <2>1. Books'
      BY <1>1, <1>5, BooksShed
    <2>2. counters'.processed = counters.processed
      BY <1>1, <1>4, <1>5, OfferedCounts DEF NotAdmitted, NonKeyframe, Overload, Drop
    <2> QED BY <1>1, <1>5, <2>1, <2>2 DEF NotAdmitted, NonKeyframe, Overload, Offering
  <1>6. CASE Down(s)
    <2>1. Books'
      BY <1>1, <1>6, BooksStop DEF Down, StreamStops, SealedKeepsBalance
    <2> QED BY <1>1, <1>3, <1>6, <2>1 DEF Down, StreamStops, KeepRecent, Offering
  <1>7. CASE ProhibitedZone(s)
    <2>1. Books'
      BY <1>1, <1>7, BooksStop DEF ProhibitedZone, SealedKeepsBalance
    <2> QED BY <1>1, <1>3, <1>7, <2>1 DEF ProhibitedZone, KeepRecent, Offering
  <1>8. CASE NoMotion(s)
    <2>1. /\ sealed' \in Sealed
          /\ sealed'.frames_no_motion = FrameIn.frames_no_motion + 1
          /\ sealed'.frames_dropped_redaction = FrameIn.frames_dropped_redaction
          /\ sealed'.detections_total = sealed'.minor_suppressed_n + sealed'.adults_passed
      BY <1>2, <1>8, QuietCounts DEF NoMotion
    <2>2. Books'
      <3>1. sealed.frames_dropped_redaction \in Nat
        BY <1>1 DEF Sealed
      <3> QED BY <1>1, <1>2, <1>8, <2>1, <3>1, BooksNothing DEF NoMotion, SealedKeepsBalance
    <2> QED BY <1>1, <1>4, <1>8, <2>2 DEF NoMotion, Runs, KeepRecent, Offering, Drop
  <1>13. CASE MotionRaises(s)
    <2>1. Books'
      BY <1>1, <1>2, <1>13, BooksStop DEF MotionRaises, SealedKeepsBalance
    <2> QED BY <1>1, <1>3, <1>13, <2>1 DEF MotionRaises, Runs, KeepRecent, Offering
  <1>9. CASE TrunkFails(s)
    <2>1. Books'
      BY <1>1, <1>2, <1>9, BooksStop DEF TrunkFails, StreamStops, SealedKeepsBalance
    <2> QED BY <1>1, <1>3, <1>9, <2>1 DEF TrunkFails, Runs, StreamStops, KeepRecent, Offering
  <1>10. ASSUME NEW found \in Findings, RedactorFails(s, found)
         PROVE  Books' /\ Offering(s)
    <2>1. Books'
      BY <1>1, <1>10, GateSplits, BooksStop DEF RedactorFails, StreamStops, SealedKeepsBalance
    <2> QED BY <1>1, <1>3, <1>10, <2>1 DEF RedactorFails, Runs, StreamStops, KeepRecent, Offering
  <1>11. ASSUME NEW found \in Findings, RedactionFails(s, found)
         PROVE  Books' /\ Offering(s)
    <2>1. /\ sealed' \in Sealed
          /\ sealed'.frames_no_motion = sealed.frames_no_motion
          /\ sealed'.frames_dropped_redaction = sealed.frames_dropped_redaction + 1
          /\ sealed'.detections_total = sealed'.minor_suppressed_n + sealed'.adults_passed
      BY <1>1, <1>11, GateSplits, UnredactedCounts DEF RedactionFails
    <2>2. Books'
      <3>1. sealed.frames_no_motion \in Nat
        BY <1>1 DEF Sealed
      <3> QED BY <1>1, <1>11, <2>1, <3>1, BooksNothing DEF RedactionFails, SealedKeepsBalance
    <2> QED BY <1>1, <1>4, <1>11, <2>2 DEF RedactionFails, Runs, KeepRecent, Offering, Drop
  <1>12. ASSUME NEW found \in Findings, Crosses(s, found)
         PROVE  Books' /\ Offering(s)
    <2>1. Books' /\ counters'.processed = counters.processed + 1
      BY <1>1, <1>12, GateSplits, BooksCross DEF Crosses, SealedKeepsBalance
    <2> QED BY <1>1, <1>12, <2>1 DEF Crosses, Runs, HandOver, Offering
  <1> QED BY <1>5, <1>6, <1>7, <1>8, <1>9, <1>10, <1>11, <1>12, <1>13 DEF Offer

\* Nothing but an offer, and the window that begins, touches the books.
LEMMA BooksUntouched ==
  ASSUME Books, UNCHANGED <<counters, sealed, refused, down, raised>>,
         window_base' = window_base
           \/ window_base' = [offered |-> counters.offered, processed |-> counters.processed]
  PROVE  Books'
  <1>1. BooksTyped' /\ OneFate' /\ ReasonsAgree' /\ WholeCascade'
    BY DEF Books, BooksTyped, BooksBalance, OneFate, ReasonsAgree, WholeCascade, Counters
  <1>2. CountsHold'
    BY DEF Books, BooksTyped, BooksBalance, CountsHold, Counters
  <1> QED BY <1>1, <1>2 DEF Books, BooksBalance

----------------------------------------------------------------------------
(* The rate *)

Surroundings ==
  /\ ZonesTyped
  /\ admitted \subseteq Stream /\ IsFiniteSet(admitted) /\ Cardinality(admitted) <= StreamCap
  /\ healthy \in BOOLEAN /\ now \in Nat /\ origin \in [Stream -> Origins]

\* A list no longer than one within the budget is within it; so is one frame more on a
\* list that is not over it; and nothing is.
LEMMA BudgetRoundsUp ==
  ASSUME NEW m \in Nat, NEW n \in Nat
  PROVE  /\ m <= n /\ WithinBudget(n) => WithinBudget(m)
         /\ m <= n + 1 /\ ~(n * Parts >= Budget) => WithinBudget(m)
         /\ WithinBudget(0)
  <1>1. Parts \in Nat /\ Parts > 0 /\ Budget \in Nat
    BY CascadeAssumption
  <1>2. ASSUME NEW k \in Nat, m <= k PROVE m * Parts <= k * Parts
    BY <1>1, <1>2
  <1>3. (n + 1) * Parts = n * Parts + Parts /\ n * Parts \in Nat /\ m * Parts \in Nat
    BY <1>1
  <1>4. m <= n + 1 => m * Parts <= (n + 1) * Parts
    BY <1>2
  <1>5. m <= n => m * Parts <= n * Parts
    BY <1>2
  <1>6. WithinBudget(0)
    BY <1>1 DEF WithinBudget
  <1> QED BY <1>1, <1>3, <1>4, <1>5, <1>6 DEF WithinBudget

Lists ==
  /\ recent \in [Stream -> SUBSET ProcessedFrame]
  /\ passed \in [Stream -> SUBSET ProcessedFrame]
  /\ \A s \in Stream : IsFiniteSet(recent[s]) /\ WithinBudget(Cardinality(recent[s]))

\* Why the budget holds: what was processed in the last second of the stream's clock is
\* still on its list.  A clock that is set back may have lost some of it, which is why the
\* frames before that are not counted.
StillRecent ==
  \A s \in Stream : \A f \in passed[s] : f.ts > now + origin[s] - Second => f \in recent[s]

Paced ==
  \A s \in Stream : \A f \in passed[s] :
    WithinBudget(Cardinality({e \in passed[s] : e.n <= f.n /\ e.ts > f.ts - Second}))

Rate == Surroundings /\ Lists /\ StillRecent /\ Paced

\* Nothing is listed and nobody admitted at the start.
LEMMA RateInit == Init => Rate
  <1> SUFFICES ASSUME Init PROVE Rate
    OBVIOUS
  <1>1. ZonesTyped
    BY DEF Init, ZonesInit, ZonesTyped
  <1>2. IsFiniteSet({}) /\ Cardinality({}) = 0 /\ 0 <= StreamCap /\ WithinBudget(0)
    BY FS_EmptySet, CascadeAssumption, BudgetRoundsUp
  <1> QED BY <1>1, <1>2
          DEF Init, Rate, Surroundings, Lists, StillRecent, Paced

\* The zones keep their types, and a mapped stream its registered zone.
LEMMA ZonesKept ==
  ASSUME ZonesTyped, ZoneStep
  PROVE  ZonesTyped'
  <1>1. ASSUME NEW z \in Zone, NEW prohibited \in BOOLEAN, NEW basis \in BOOLEAN,
               RegisterZone(z, prohibited, basis)
        PROVE  ZonesTyped'
    BY <1>1 DEF RegisterZone, ZonesTyped
  <1>2. ASSUME NEW s \in Stream, NEW z \in Zone, MapStream(s, z)
        PROVE  ZonesTyped'
    BY <1>2 DEF MapStream, ZonesTyped
  <1> QED BY <1>1, <1>2 DEF ZoneStep

\* A frame keeps its type while others are processed.
LEMMA FramesStay ==
  ASSUME counters \in Counters, counters' \in Counters,
         counters'.processed >= counters.processed
  PROVE  ProcessedFrame \subseteq ProcessedFrame'
  <1>1. /\ counters.processed \in Nat /\ counters'.processed \in Nat
    BY DEF Counters
  <1>2. 1..counters.processed \subseteq 1..counters'.processed
    BY <1>1
  <1> QED BY <1>2 DEF ProcessedFrame

\* Time that passes leaves less of a list in the last second.
LEMMA RateAsTimePasses ==
  ASSUME Books, Rate, UNCHANGED <<recent, passed, origin>>,
         counters'.processed = counters.processed, now' \in Nat, now' >= now
  PROVE  Lists' /\ StillRecent' /\ Paced'
  <1>1. Lists' /\ Paced'
    BY DEF Rate, Lists, Paced, ProcessedFrame
  <1>2. StillRecent'
    <2> SUFFICES ASSUME NEW s \in Stream, NEW f \in passed[s],
                        f.ts > now' + origin[s] - Second
                 PROVE  f \in recent[s]
      BY DEF StillRecent
    <2>0. f \in ProcessedFrame
      BY DEF Rate, Lists
    <2>1. now \in Nat /\ origin[s] \in Nat /\ Second \in Nat /\ f.ts \in Nat
      BY <2>0, CascadeAssumption DEF Rate, Surroundings, ProcessedFrame
    <2>2. f.ts > now + origin[s] - Second
      BY <2>1
    <2> QED BY <2>2 DEF Rate, StillRecent
  <1> QED BY <1>1, <1>2

\* What is pruned is a second old, and no list grows.
LEMMA Pruned ==
  ASSUME Books, Rate, NEW s \in Stream
  PROVE  /\ RecentAt(s) \subseteq recent[s] /\ IsFiniteSet(RecentAt(s))
         /\ Cardinality(RecentAt(s)) \in Nat /\ WithinBudget(Cardinality(RecentAt(s)))
         /\ \A f \in passed[s] : f.ts > now + origin[s] - Second => f \in RecentAt(s)
  <1>1. /\ RecentAt(s) \subseteq recent[s] /\ IsFiniteSet(recent[s])
        /\ WithinBudget(Cardinality(recent[s]))
    BY DEF RecentAt, Rate, Lists
  <1>2. IsFiniteSet(RecentAt(s)) /\ Cardinality(RecentAt(s)) <= Cardinality(recent[s])
    BY <1>1, FS_Subset
  <1>3. Cardinality(RecentAt(s)) \in Nat /\ Cardinality(recent[s]) \in Nat
    BY <1>1, <1>2, FS_CardinalityType
  <1>4. WithinBudget(Cardinality(RecentAt(s)))
    BY <1>1, <1>2, <1>3, BudgetRoundsUp
  <1> QED BY <1>1, <1>2, <1>3, <1>4 DEF RecentAt, Rate, StillRecent

\* Pruning a list keeps the rate.
LEMMA RateWhenPruned ==
  ASSUME Books, Rate, NEW s \in Stream, UNCHANGED <<passed, now, origin>>,
         counters'.processed = counters.processed,
         recent' = [recent EXCEPT ![s] = RecentAt(s)]
  PROVE  Lists' /\ StillRecent' /\ Paced'
  <1>1. \A t \in Stream : recent'[t] = IF t = s THEN RecentAt(s) ELSE recent[t]
    BY DEF Rate, Lists
  <1>2. Lists'
    <2>1. recent' \in [Stream -> SUBSET ProcessedFrame]
      BY Pruned DEF Rate, Lists
    <2> QED BY <1>1, <2>1, Pruned DEF Rate, Lists, ProcessedFrame
  <1>3. StillRecent'
    BY <1>1, Pruned DEF Rate, StillRecent
  <1>4. Paced'
    BY DEF Rate, Paced
  <1> QED BY <1>2, <1>3, <1>4

\* A frame that crosses is the newest of its stream: the frames of the second it ends
\* are those still on the list, fewer than the budget, and itself.
LEMMA RateWhenOneCrosses ==
  ASSUME Books, Rate, Books', NEW s \in Stream, UNCHANGED <<now, origin>>, ~OverBudget(s),
         counters'.processed = counters.processed + 1,
         recent' = [recent EXCEPT ![s] = RecentAt(s) \cup {ThisFrame(s)}],
         passed' = [passed EXCEPT ![s] = @ \cup {ThisFrame(s)}]
  PROVE  Lists' /\ StillRecent' /\ Paced'
  <1> DEFINE new == ThisFrame(s)
             kept == RecentAt(s)
  <1>1. /\ counters.processed \in Nat /\ counters'.processed = counters.processed + 1
        /\ now \in Nat /\ origin[s] \in Nat /\ Second \in Nat
    BY CascadeAssumption DEF Books, BooksTyped, Counters, Rate, Surroundings
  <1>2. ProcessedFrame \subseteq ProcessedFrame' /\ new \in ProcessedFrame'
    <2>1. ProcessedFrame \subseteq ProcessedFrame'
      BY <1>1, FramesStay DEF Books, BooksTyped
    <2>2. counters.processed + 1 \in 1..counters'.processed /\ now + origin[s] \in Nat
      BY <1>1
    <2> QED BY <2>1, <2>2 DEF ThisFrame, ProcessedFrame
  <1>3. new.n = counters.processed + 1 /\ new.ts = now + origin[s]
    BY DEF ThisFrame
  <1> HIDE DEF new
  <1>4. /\ kept \subseteq recent[s] /\ IsFiniteSet(kept) /\ Cardinality(kept) \in Nat
        /\ ~(Cardinality(kept) * Parts >= Budget)
        /\ \A f \in passed[s] : f.ts > now + origin[s] - Second => f \in kept
    BY <1>1, Pruned DEF OverBudget
  <1>5. /\ IsFiniteSet(kept \cup {new})
        /\ Cardinality(kept \cup {new}) \in Nat
        /\ Cardinality(kept \cup {new}) <= Cardinality(kept) + 1
        /\ WithinBudget(Cardinality(kept \cup {new}))
    <2>1. /\ IsFiniteSet(kept \cup {new})
          /\ \/ Cardinality(kept \cup {new}) = Cardinality(kept)
             \/ Cardinality(kept \cup {new}) = Cardinality(kept) + 1
      BY <1>4, FS_AddElement
    <2>2. /\ Cardinality(kept \cup {new}) \in Nat
          /\ Cardinality(kept \cup {new}) <= Cardinality(kept) + 1
      BY <1>4, <2>1
    <2> QED BY <1>4, <2>1, <2>2, BudgetRoundsUp
  <1>6. /\ \A t \in Stream : recent'[t] = IF t = s THEN kept \cup {new} ELSE recent[t]
        /\ \A t \in Stream : passed'[t] = IF t = s THEN passed[s] \cup {new} ELSE passed[t]
        /\ recent' = [recent EXCEPT ![s] = kept \cup {new}]
        /\ passed' = [passed EXCEPT ![s] = passed[s] \cup {new}]
    BY DEF Rate, Lists, new
  <1> HIDE DEF kept
  <1>7. Lists'
    <2>1. /\ recent \in [Stream -> SUBSET ProcessedFrame']
          /\ passed \in [Stream -> SUBSET ProcessedFrame']
          /\ kept \cup {new} \subseteq ProcessedFrame'
          /\ passed[s] \cup {new} \subseteq ProcessedFrame'
      BY <1>2, <1>4 DEF Rate, Lists
    <2>2. /\ recent' \in [Stream -> SUBSET ProcessedFrame']
          /\ passed' \in [Stream -> SUBSET ProcessedFrame']
      BY <1>6, <2>1
    <2> QED BY <1>5, <1>6, <2>2 DEF Rate, Lists
  <1>8. StillRecent'
    BY <1>4, <1>6 DEF Rate, StillRecent
  <1>9. Paced'
    <2> SUFFICES ASSUME NEW t \in Stream, NEW f \in passed'[t]
                 PROVE  WithinBudget(Cardinality({e \in passed'[t] :
                                                     e.n <= f.n /\ e.ts > f.ts - Second}))
      BY DEF Paced
    <2>1. CASE t = s /\ f = new
      <3> DEFINE last == {e \in passed'[t] : e.n <= f.n /\ e.ts > f.ts - Second}
      <3>1. last \subseteq kept \cup {new}
        <4> SUFFICES ASSUME NEW e \in last, e # new PROVE e \in kept
          OBVIOUS
        <4>1. e \in passed[s] /\ e.ts > now + origin[s] - Second
          <5>1. passed'[t] = passed[s] \cup {new}
            BY <1>6, <2>1
          <5>2. e \in passed'[t] /\ e.ts > f.ts - Second
            OBVIOUS
          <5>3. e \in passed[s]
            BY <5>1, <5>2
          <5>4. f.ts = now + origin[s]
            BY <1>3, <2>1
          <5> HIDE DEF last
          <5> QED BY <1>1, <5>2, <5>3, <5>4
        <4> QED BY <1>4, <4>1
      <3> HIDE DEF last
      <3>2. Cardinality(last) \in Nat /\ Cardinality(last) <= Cardinality(kept \cup {new})
        BY <1>5, <3>1, FS_Subset, FS_CardinalityType
      <3>3. WithinBudget(Cardinality(last))
        BY <1>5, <3>2, BudgetRoundsUp
      <3> QED BY <3>3 DEF last
    <2>2. CASE f \in passed[t]
      <3>1. {e \in passed'[t] : e.n <= f.n /\ e.ts > f.ts - Second}
              = {e \in passed[t] : e.n <= f.n /\ e.ts > f.ts - Second}
        <4>1. f.n \in Nat /\ f.n <= counters.processed
          BY <1>1, <2>2 DEF Rate, Lists, ProcessedFrame
        <4>2. ~(new.n <= f.n)
          BY <1>1, <1>3, <4>1
        <4> QED BY <1>6, <4>2
      <3> QED BY <2>2, <3>1 DEF Rate, Paced
    <2> QED BY <1>6, <2>1, <2>2
  <1> QED BY <1>7, <1>8, <1>9

\* A clock that is set forgets what its stream has processed.
LEMMA RateWhenClockIsSet ==
  ASSUME Books, Rate, NEW s \in Stream, NEW o \in Origins, UNCHANGED <<recent, now, counters>>,
         origin' = [origin EXCEPT ![s] = o], passed' = [passed EXCEPT ![s] = {}]
  PROVE  Lists' /\ StillRecent' /\ Paced'
  <1>1. /\ \A t \in Stream : passed'[t] = IF t = s THEN {} ELSE passed[t]
        /\ \A t \in Stream : t # s => origin'[t] = origin[t]
    BY DEF Rate, Surroundings, Lists
  <1>2. Lists'
    BY DEF Rate, Lists, ProcessedFrame
  <1>3. StillRecent'
    BY <1>1 DEF Rate, StillRecent
  <1>4. Paced'
    BY <1>1 DEF Rate, Paced
  <1> QED BY <1>2, <1>3, <1>4

\* Every step keeps the books and the rate.
LEMMA CascadeInductive ==
  ASSUME Books, Rate, [Next]_vars
  PROVE  Books' /\ Rate'
  <1>1. /\ counters.processed \in Nat /\ now \in Nat /\ StreamCap \in Nat
        /\ IsFiniteSet(admitted) /\ Cardinality(admitted) \in Nat
        /\ Cardinality(admitted) <= StreamCap
    BY CascadeAssumption, FS_CardinalityType DEF Books, BooksTyped, Counters, Rate, Surroundings
  <1>2. CASE ZoneStep /\ UNCHANGED cascade_vars
    <2>1. Books'
      BY <1>2, BooksUntouched DEF cascade_vars
    <2>2. Lists' /\ StillRecent' /\ Paced'
      BY <1>1, <1>2, RateAsTimePasses DEF cascade_vars
    <2>3. Surroundings'
      BY <1>2, ZonesKept DEF cascade_vars, Rate, Surroundings
    <2> QED BY <2>1, <2>2, <2>3 DEF Rate
  <1>3. ASSUME NEW s \in Stream, Admit(s) PROVE Books' /\ Rate'
    <2>1. Books'
      BY <1>3, BooksUntouched DEF Admit
    <2>2. Lists' /\ StillRecent' /\ Paced'
      BY <1>1, <1>3, RateAsTimePasses DEF Admit
    <2>3. /\ IsFiniteSet(admitted') /\ Cardinality(admitted') = Cardinality(admitted) + 1
          /\ Cardinality(admitted) < StreamCap
      BY <1>1, <1>3, FS_AddElement DEF Admit
    <2>4. Surroundings'
      BY <1>1, <1>3, <2>3 DEF Admit, Rate, Surroundings, zone_vars, ZonesTyped
    <2> QED BY <2>1, <2>2, <2>4 DEF Rate
  <1>4. ASSUME NEW s \in Stream, Offer(s) PROVE Books' /\ Rate'
    <2>1. Books' /\ Offering(s)
      BY <1>4, OfferBooks
    <2>2. Surroundings'
      <3>1. /\ IsFiniteSet(admitted \ {s}) /\ Cardinality(admitted \ {s}) \in Nat
            /\ Cardinality(admitted \ {s}) <= StreamCap
        <4>1. IsFiniteSet(admitted \ {s}) /\ Cardinality(admitted \ {s}) <= Cardinality(admitted)
          BY <1>1, FS_Subset
        <4> QED BY <1>1, <4>1, FS_CardinalityType
      <3>2. UNCHANGED <<zones, stream_zone, now, origin>> /\ healthy' \in BOOLEAN
        BY <2>1 DEF Offering, zone_vars, Rate, Surroundings
      <3> QED BY <2>1, <3>1, <3>2 DEF Offering, Rate, Surroundings, ZonesTyped
    <2>3. Lists' /\ StillRecent' /\ Paced'
      <3>1. CASE counters'.processed = counters.processed + 1
        <4>1. /\ ~OverBudget(s)
              /\ recent' = [recent EXCEPT ![s] = RecentAt(s) \cup {ThisFrame(s)}]
              /\ passed' = [passed EXCEPT ![s] = @ \cup {ThisFrame(s)}]
          BY <1>1, <2>1, <3>1 DEF Offering
        <4> QED BY <2>1, <3>1, <4>1, RateWhenOneCrosses DEF Offering
      <3>2. CASE counters'.processed = counters.processed
        <4>1. passed' = passed /\ recent' \in {recent, [recent EXCEPT ![s] = RecentAt(s)]}
          BY <1>1, <2>1, <3>2 DEF Offering
        <4>2. CASE recent' = recent
          BY <1>1, <2>1, <3>2, <4>1, <4>2, RateAsTimePasses DEF Offering
        <4>3. CASE recent' = [recent EXCEPT ![s] = RecentAt(s)]
          BY <2>1, <3>2, <4>1, <4>3, RateWhenPruned DEF Offering
        <4> QED BY <4>1, <4>2, <4>3
      <3> QED BY <2>1, <3>1, <3>2 DEF Offering
    <2> QED BY <2>1, <2>2, <2>3 DEF Rate
  <1>5. ASSUME NEW s \in Stream, SetClock(s) PROVE Books' /\ Rate'
    <2>1. PICK o \in Origins : origin' = [origin EXCEPT ![s] = o]
      BY <1>5 DEF SetClock
    <2>2. Books'
      BY <1>5, BooksUntouched DEF SetClock
    <2>3. Lists' /\ StillRecent' /\ Paced'
      BY <1>5, <2>1, RateWhenClockIsSet DEF SetClock
    <2>4. Surroundings'
      BY <1>5, <2>1 DEF SetClock, Rate, Surroundings, zone_vars, ZonesTyped
    <2> QED BY <2>2, <2>3, <2>4 DEF Rate
  <1>6. CASE WindowQuality
    <2>1. Books'
      BY <1>6, BooksUntouched DEF WindowQuality
    <2>2. Lists' /\ StillRecent' /\ Paced'
      BY <1>1, <1>6, RateAsTimePasses DEF WindowQuality
    <2>3. Surroundings'
      BY <1>6 DEF WindowQuality, Rate, Surroundings, zone_vars, ZonesTyped
    <2> QED BY <2>1, <2>2, <2>3 DEF Rate
  <1>7. CASE Tick
    <2>1. Books'
      BY <1>7, BooksUntouched DEF Tick
    <2>2. now' \in Nat /\ now' >= now
      BY <1>1, <1>7 DEF Tick
    <2>3. Lists' /\ StillRecent' /\ Paced'
      BY <1>7, <2>2, RateAsTimePasses DEF Tick
    <2>4. Surroundings'
      BY <1>7, <2>2 DEF Tick, Rate, Surroundings, zone_vars, ZonesTyped
    <2> QED BY <2>1, <2>3, <2>4 DEF Rate
  <1>8. CASE Crash
    <2>1. Books'
      BY <1>8, BooksUntouched DEF Crash
    <2>2. Lists' /\ StillRecent' /\ Paced'
      BY <1>1, <1>8, RateAsTimePasses DEF Crash
    <2>3. Surroundings'
      BY <1>8 DEF Crash, Rate, Surroundings, zone_vars, ZonesTyped
    <2> QED BY <2>1, <2>2, <2>3 DEF Rate
  <1>9. CASE UNCHANGED vars
    <2>1. Books'
      BY <1>9, BooksUntouched DEF vars, cascade_vars
    <2>2. Lists' /\ StillRecent' /\ Paced'
      BY <1>1, <1>9, RateAsTimePasses DEF vars, cascade_vars
    <2>3. Surroundings'
      BY <1>9 DEF vars, cascade_vars, Rate, Surroundings, zone_vars, ZonesTyped
    <2> QED BY <2>1, <2>2, <2>3 DEF Rate
  <1> QED BY <1>2, <1>3, <1>4, <1>5, <1>6, <1>7, <1>8, <1>9 DEF Next

----------------------------------------------------------------------------
(* What the runs check *)

LEMMA CascadeInvariant == Spec => [](Books /\ Rate)
  <1>1. Books /\ Rate /\ [Next]_vars => Books' /\ Rate'
    BY CascadeInductive
  <1> QED BY <1>1, BooksInit, RateInit, PTL DEF Spec

\* The cascade, the pipeline and the zones keep their types, and no stream's list outgrows
\* the budget, rounded up.
THEOREM CascadeTypes == Spec => []TypeOK
  <1>1. Books /\ Rate => TypeOK
    BY DEF Books, BooksTyped, Counters, Sealed, Rate, Surroundings, Lists, TypeOK
  <1> QED BY <1>1, CascadeInvariant, PTL

\* The books of the cascade and of the sealed process balance, whatever failed, whichever
\* streams the frames are of, and whenever a window was closed; the frames for which
\* offer() raised are an account of their own.
THEOREM CascadeBooks == Spec => []BooksBalance
  <1>1. Books /\ Rate => BooksBalance
    BY DEF Books
  <1> QED BY <1>1, CascadeInvariant, PTL

\* No stream has more than its budget, rounded up, processed in any second, whatever
\* fraction of a frame the budget is; and no more streams are
\* admitted than the profile permits.
THEOREM CascadeRate == Spec => []WithinMeasure
  <1>1. Books /\ Rate => WithinMeasure
    BY DEF Rate, Surroundings, Paced, WithinMeasure
  <1> QED BY <1>1, CascadeInvariant, PTL

\* A failed pipeline stays closed, and only frames of admitted streams in permitted zones
\* ever cross.
THEOREM CascadeFailsClosed == Spec => FailsClosed
  <1> DEFINE Closed ==
        /\ ~healthy => ~healthy' /\ sealed' = sealed /\ counters'.processed = counters.processed
        /\ \A s \in Stream : ~(passed'[s] \subseteq passed[s]) =>
             s \in admitted /\ stream_zone[s] # NoZone /\ zones[stream_zone[s]] = "permitted"
  <1>1. ASSUME Books, Rate, Next PROVE Closed
    <2>1. ASSUME UNCHANGED <<healthy, sealed, counters>>,
                 \A s \in Stream : passed'[s] \subseteq passed[s]
          PROVE  Closed
      BY <2>1
    <2>2. \A s \in Stream : SetClock(s) => \A t \in Stream : passed'[t] \subseteq passed[t]
      BY <1>1 DEF SetClock, Rate, Lists
    <2>3. ASSUME NEW s \in Stream, Offer(s) PROVE Closed
      <3>1. Offering(s)
        BY <1>1, <2>3, OfferBooks
      <3>2. counters.processed \in Nat /\ healthy \in BOOLEAN /\ healthy' \in BOOLEAN
        BY <1>1, <3>1 DEF Books, BooksTyped, Counters, Rate, Surroundings, Offering
      <3>3. ASSUME ~healthy
            PROVE  ~healthy' /\ sealed' = sealed /\ counters'.processed = counters.processed
        <4>1. sealed' = sealed /\ counters'.processed = counters.processed
          BY <3>1, <3>3 DEF Offering
        <4>2. healthy' = healthy \/ healthy' = FALSE
          BY <3>1 DEF Offering
        <4> QED BY <3>3, <4>1, <4>2
      <3>4. ASSUME NEW t \in Stream, ~(passed'[t] \subseteq passed[t])
            PROVE  /\ t \in admitted /\ stream_zone[t] # NoZone
                   /\ zones[stream_zone[t]] = "permitted"
        <4>1. t = s /\ t \in admitted /\ Allows(t)
          BY <1>1, <3>1, <3>4 DEF Offering, Rate, Lists
        <4>2. stream_zone[t] \in Zone /\ zones[stream_zone[t]] \in {"prohibited", "permitted"}
          BY <1>1, <4>1 DEF Allows, Rate, Surroundings, ZonesTyped
        <4> QED BY <4>1, <4>2 DEF Allows
      <3> QED BY <3>3, <3>4
    <2>4. Crash => Closed
      BY DEF Crash
    <2> HIDE DEF Closed
    <2>5. CASE ZoneStep /\ UNCHANGED cascade_vars
      BY <2>1, <2>5 DEF cascade_vars
    <2>6. CASE \E s \in Stream : Admit(s) \/ SetClock(s)
      BY <2>1, <2>2, <2>6 DEF Admit, SetClock
    <2>7. CASE WindowQuality \/ Tick
      BY <2>1, <2>7 DEF WindowQuality, Tick
    <2> QED BY <1>1, <2>3, <2>4, <2>5, <2>6, <2>7 DEF Next
  <1>2. Books /\ Rate /\ [Next]_vars => [Closed]_vars
    BY <1>1
  <1> QED BY <1>2, CascadeInvariant, PTL DEF Spec, FailsClosed
=============================================================================
