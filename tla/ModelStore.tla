----------------------------- MODULE ModelStore -----------------------------
(***************************************************************************)
(* The store of model bundles (t1/sealed/bundle.py): a candidate is        *)
(* verified, runs, and raises the floor below which no bundle may go; the  *)
(* floor is written to a file, which outlives the process.  The write may  *)
(* fail, after the file was emptied or before.  Signature, digest and card *)
(* are the answers of their checks; the counts of refusals are left out.   *)
(* A definition named for a fault is the wrong form of the one after it.   *)
(***************************************************************************)
EXTENDS Naturals

CONSTANTS
  MaxVersion,   \* bound of the model: versions that T2 has released
  None,         \* no flaw, no active bundle, no store
  Empty         \* the file, emptied and not written

ASSUME ModelStoreAssumption ==
  /\ MaxVersion \in Nat \ {0}
  /\ None \notin Nat /\ Empty \notin Nat /\ None # Empty

Version == 1..MaxVersion
\* The refusals of verify but the last, and the candidate that earns none of them
BundleFlaw == {"wrong_signing_domain", "signature_invalid", "payload_digest_mismatch",
               "model_card_incomplete"}
Candidate == [version : Version, flaw : BundleFlaw \cup {None}]

VARIABLES
  active_model,   \* the version of ModelStore.active, or None
  floor,          \* _floor, or None: the store cannot be opened
  floor_file,     \* floor_path: a version, 0 as long as there is no file, or Empty
  \* history, read by no action
  ran             \* versions that were activated and whose floor was written

model_vars == <<active_model, floor, floor_file, ran>>

StoreInit ==
  /\ active_model = None /\ floor = 0 /\ floor_file = 0 /\ ran = {}

Verified(candidate) == candidate.flaw = None /\ candidate.version >= floor

\* activate, of a candidate that verifies: it runs before its floor is on the disk
Install(candidate) ==
  /\ floor # None /\ Verified(candidate)
  /\ active_model' = candidate.version
  /\ floor' = candidate.version
InstallModel(candidate) ==
  /\ Install(candidate)
  /\ floor_file' = candidate.version
  /\ ran' = ran \cup {candidate.version}
\* write_text raises: the caller has an exception, and the bundle runs all the same
InstallUnsaved(candidate) ==
  /\ Install(candidate)
  /\ floor_file' \in {floor_file, Empty}
  /\ UNCHANGED ran

\* A new process; an empty file is no number, and then there is no store
FloorForgotten == 0
FloorOnDisk == IF floor_file = Empty THEN None ELSE floor_file
Reopen ==
  /\ active_model' = None /\ floor' = FloorOnDisk
  /\ UNCHANGED <<floor_file, ran>>

ModelTyped ==
  /\ active_model \in Version \cup {None}
  /\ floor \in {0, None} \cup Version
  /\ floor_file \in {0, Empty} \cup Version
  /\ ran \subseteq Version

\* No bundle below one this device has run is activated, whatever is offered and
\* however often the device restarts.  A bundle whose floor could not be written is
\* excepted: the caller of activate was told so.
NoModelDowngrade ==
  [][active_model' \notin {active_model, None} => \A v \in ran : active_model' >= v]_model_vars

=============================================================================
