----------------------------- MODULE Retention ------------------------------
(***************************************************************************)
(* Retention over the durable index (t1/storage/durable.py): a writer      *)
(* admits records to a SQLite table, and a RetentionService in a process   *)
(* of its own sweeps it: mark the row and commit, append the receipt to    *)
(* the audit log, unlink the blob, delete the row and commit.              *)
(*                                                                         *)
(* Each of those is a step, because the writer works on the same file and  *)
(* because the power can fail anywhere.  A write that raises has the same  *)
(* effect: everything a sweep knows is local.  Other units append to the   *)
(* same log, and their writes stop short too.  A sweep works through the   *)
(* rows it fetched, by record_id; SQL promises no order, so neither does   *)
(* the model.  Unlinking a file that is gone is taken to succeed, for the  *)
(* function is the caller's, and no two rows to share a blob.              *)
(* A definition named for a fault is the wrong form of the one after it.   *)
(***************************************************************************)
EXTENDS Naturals, FiniteSets, Functions

CONSTANTS
  Id,          \* record_ids
  NoBlob,      \* blob_path is None
  Blob,        \* blob paths
  Ceiling,     \* _clamp's ceiling on retention for the class, in ticks
  MaxTime,     \* bound on the clock
  MaxAdmits,   \* bound on the admissions of one id
  MaxCrashes   \* bound on the power losses and failed writes

NoId == "none"

ASSUME RetentionAssumption ==
  /\ Ceiling \in Nat \ {0}
  /\ MaxTime \in Nat /\ MaxAdmits \in Nat /\ MaxCrashes \in Nat
  /\ NoBlob \notin Blob /\ NoId \notin Id

VARIABLES
  rows,      \* table retained: record_id -> [until, blob, pending]
  blobs,     \* blob files on disk
  receipts,  \* deletion_receipts in the audit log, on lines of their own, per record_id
  tail,      \* after them: "none", a line "unended" by a newline, or "torn", no record
  now,
  pc,        \* where the sweep stands
  marked,    \* rows _finish_pending has still to finish: record_id -> blob
  due,       \* record_ids sweep has still to delete
  id, blob,  \* the record in hand
  sweep_now, \* the `now` the sweep was called with
  admits, deletes,  \* history, per record_id
  unreceipted,      \* history, per record_id: receipts that failed or were glued to a line
  overtaken,        \* history: ids renewed while on a list of the sweep, or marked from it since
  orphans,          \* history: blobs that lost their row to a renewal
  crashes

disk    == <<rows, blobs, receipts, tail>>
sweep   == <<pc, marked, due, id, blob, sweep_now>>
history == <<admits, deletes, unreceipted, overtaken, orphans, crashes>>
vars    == <<disk, now, sweep, history>>

Lower(m, n) == IF m <= n THEN m ELSE n
Without(i) == [j \in DOMAIN rows \ {i} |-> rows[j]]
BlobOf(i) == {rows[j].blob : j \in DOMAIN rows \cap {i}} \ {NoBlob}
BlobLost == IF id \in overtaken THEN BlobOf(id) ELSE {}
OnAList == DOMAIN marked \cup due \cup {id}
NothingPending == {}
Pending == {i \in DOMAIN rows : rows[i].pending}
DueTomorrow(t) == {i \in DOMAIN rows : ~rows[i].pending /\ rows[i].until <= t + 1}
DueAt(t) == {i \in DOMAIN rows : ~rows[i].pending /\ rows[i].until <= t}

----------------------------------------------------------------------------
Init ==
  /\ rows = [i \in {} |-> 0] /\ blobs = {}
  /\ receipts = [i \in Id |-> 0] /\ tail = "none"
  /\ now = 0
  /\ pc = "idle" /\ marked = [i \in {} |-> NoBlob] /\ due = {}
  /\ id = NoId /\ blob = NoBlob /\ sweep_now = 0
  /\ admits = [i \in Id |-> 0] /\ deletes = [i \in Id |-> 0] /\ crashes = 0
  /\ unreceipted = [i \in Id |-> 0] /\ overtaken = {} /\ orphans = {}

Tick == now < MaxTime /\ now' = now + 1 /\ UNCHANGED <<disk, sweep, history>>

\* admit, past its refusals: INSERT OR REPLACE, clamped, pending_delete = 0; an id
\* that is still in the table is renewed, whatever the sweep is about to do to it
Admit(i, asked, b) ==
  /\ admits[i] < MaxAdmits
  /\ b = NoBlob \/ b \notin {rows[j].blob : j \in DOMAIN rows \ {i}}
  /\ rows' = [j \in DOMAIN rows \cup {i} |->
                IF j = i THEN [until |-> now + Lower(asked, Ceiling), blob |-> b, pending |-> FALSE]
                ELSE rows[j]]
  /\ blobs' = blobs \cup ({b} \ {NoBlob})
  /\ admits' = [admits EXCEPT ![i] = @ + 1]
  /\ overtaken' = (overtaken \ {i}) \cup (DOMAIN rows \cap {i} \cap OnAList)
  /\ orphans' = (orphans \cup BlobOf(i)) \ {b}
  /\ UNCHANGED <<receipts, tail, now, sweep, deletes, unreceipted, crashes>>

\* sweep, _finish_pending: fetch the marked rows
BeginSweep ==
  /\ pc = "idle"
  /\ marked' = [i \in Pending |-> rows[i].blob]
  /\ sweep_now' = now
  /\ pc' = "finish"
  /\ UNCHANGED <<disk, now, due, id, blob, history>>

\* SELECT record_id of the unmarked rows that are due
SelectDue ==
  /\ pc = "finish" /\ DOMAIN marked = {}
  /\ due' = DueAt(sweep_now)
  /\ pc' = "due"
  /\ UNCHANGED <<disk, now, marked, id, blob, sweep_now, history>>

FinishNext(i) ==
  /\ pc = "finish" /\ i \in DOMAIN marked
  /\ id' = i /\ blob' = marked[i]
  /\ marked' = [j \in DOMAIN marked \ {i} |-> marked[j]]
  /\ pc' = "unlink_marked"
  /\ UNCHANGED <<disk, now, due, sweep_now, history>>

\* _delete: SELECT data_class, blob_path
DeleteNext(i) ==
  /\ pc = "due" /\ i \in due /\ i \in DOMAIN rows
  /\ id' = i /\ blob' = rows[i].blob
  /\ due' = due \ {i}
  /\ pc' = "mark"
  /\ UNCHANGED <<disk, now, marked, sweep_now, history>>

SkipMark ==
  /\ pc = "mark" /\ pc' = "receipt"
  /\ UNCHANGED <<disk, now, marked, due, id, blob, sweep_now, history>>

\* UPDATE ... SET pending_delete = 1; commit
Mark ==
  /\ pc = "mark"
  /\ rows' = IF id \in DOMAIN rows THEN [rows EXCEPT ![id].pending = TRUE] ELSE rows
  /\ pc' = "receipt"
  /\ UNCHANGED <<blobs, receipts, tail, now, marked, due, id, blob, sweep_now, history>>

Unreceipted(i) == unreceipted' = [unreceipted EXCEPT ![i] = @ + 1]

\* chain.append; glued to a line without its newline, neither can be read
WriteReceipt ==
  /\ pc = "receipt" /\ tail # "torn"
  /\ \/ /\ tail = "none" /\ receipts' = [receipts EXCEPT ![id] = @ + 1]
        /\ UNCHANGED <<tail, unreceipted>>
     \/ tail = "unended" /\ tail' = "torn" /\ Unreceipted(id) /\ UNCHANGED receipts
  /\ pc' = "unlink"
  /\ UNCHANGED <<rows, blobs, now, marked, due, id, blob, sweep_now, admits, deletes,
                 overtaken, orphans, crashes>>

UnlinkOnlyOnce ==
  /\ pc \in {"unlink", "unlink_marked"}
  /\ blobs' = IF pc = "unlink" THEN blobs \ {blob} ELSE blobs
  /\ pc' = IF pc = "unlink" THEN "delete" ELSE "delete_marked"
  /\ UNCHANGED <<rows, receipts, tail, now, marked, due, id, blob, sweep_now, history>>

\* _remove_blob
Unlink ==
  /\ pc \in {"unlink", "unlink_marked"}
  /\ blobs' = blobs \ {blob}
  /\ pc' = IF pc = "unlink" THEN "delete" ELSE "delete_marked"
  /\ UNCHANGED <<rows, receipts, tail, now, marked, due, id, blob, sweep_now, history>>

\* DELETE FROM retained WHERE record_id = ?; commit
Delete ==
  /\ pc \in {"delete", "delete_marked"}
  /\ rows' = Without(id)
  /\ deletes' = IF id \in DOMAIN rows THEN [deletes EXCEPT ![id] = @ + 1] ELSE deletes
  /\ pc' = IF pc = "delete" THEN "due" ELSE "finish"
  /\ id' = NoId /\ blob' = NoBlob
  /\ overtaken' = overtaken \ {id} /\ orphans' = orphans \cup BlobLost
  /\ UNCHANGED <<blobs, receipts, tail, now, marked, due, sweep_now, admits, unreceipted, crashes>>

EndSweep ==
  /\ pc = "due" /\ due = {}
  /\ pc' = "idle" /\ sweep_now' = 0
  /\ UNCHANGED <<disk, now, marked, due, id, blob, history>>

\* the sweep is forgotten; at its append, without the receipt
Forgotten ==
  /\ pc' = "idle" /\ marked' = [i \in {} |-> NoBlob] /\ due' = {}
  /\ id' = NoId /\ blob' = NoBlob /\ sweep_now' = 0
  /\ IF pc = "receipt" THEN Unreceipted(id) ELSE UNCHANGED unreceipted
  /\ overtaken' = overtaken \cap Pending
  /\ UNCHANGED <<rows, blobs, receipts, now, admits, deletes, orphans>>

\* a write of a line stops short: part of it is there, or all but the newline
LineCutShort ==
  /\ tail # "torn"
  /\ tail' \in {"torn"} \cup (IF tail = "none" THEN {"unended"} ELSE {})

\* the power fails, or a write raises
Crash ==
  /\ crashes < MaxCrashes /\ crashes' = crashes + 1
  /\ UNCHANGED tail \/ (pc = "receipt" /\ LineCutShort)
  /\ Forgotten

\* the append reads the whole log for its head and raises
ReceiptRaises == pc = "receipt" /\ tail = "torn" /\ Forgotten /\ UNCHANGED <<tail, crashes>>

\* another unit's append stops short, or is glued to a line without its newline
OthersAppend ==
  /\ \/ LineCutShort /\ crashes < MaxCrashes /\ crashes' = crashes + 1
     \/ tail = "unended" /\ tail' = "torn" /\ UNCHANGED crashes
  /\ UNCHANGED <<rows, blobs, receipts, now, sweep, admits, deletes, unreceipted, overtaken,
                 orphans>>

SweepStep ==
  \/ SelectDue \/ EndSweep \/ Mark \/ WriteReceipt \/ ReceiptRaises \/ Unlink \/ Delete
  \/ \E i \in Id : FinishNext(i) \/ DeleteNext(i)

Next ==
  \/ Tick
  \/ \E i \in Id, asked \in 1..(Ceiling + 1), b \in Blob \cup {NoBlob} : Admit(i, asked, b)
  \/ BeginSweep
  \/ SweepStep
  \/ OthersAppend
  \/ Crash

\* A sweep that has begun is straight-line code.  Nothing in the program calls it:
\* that somebody does, again and again, is an assumption about the service manager.
Fairness == WF_vars(SweepStep) /\ WF_vars(BeginSweep)

Spec == Init /\ [][Next]_vars /\ Fairness

----------------------------------------------------------------------------
(***************************************************************************)
(* Properties                                                              *)
(***************************************************************************)

\* Types; the record in hand is known exactly while it is being deleted.
TypeOK ==
  /\ DOMAIN rows \subseteq Id
  /\ \A i \in DOMAIN rows :
       rows[i] \in [until : Nat, blob : Blob \cup {NoBlob}, pending : BOOLEAN]
  /\ blobs \subseteq Blob
  /\ tail \in {"none", "unended", "torn"} /\ unreceipted \in [Id -> Nat]
  /\ receipts \in [Id -> Nat] /\ admits \in [Id -> Nat] /\ deletes \in [Id -> Nat]
  /\ now \in 0..MaxTime /\ sweep_now \in 0..now /\ crashes \in 0..MaxCrashes
  /\ pc \in {"idle", "finish", "due", "mark", "receipt", "unlink", "unlink_marked",
             "delete", "delete_marked"}
  /\ DOMAIN marked \subseteq Id /\ due \subseteq Id
  /\ overtaken \subseteq (OnAList \cup Pending) \cap DOMAIN rows /\ orphans \subseteq Blob
  /\ id \in Id \cup {NoId} /\ (id = NoId <=> pc \in {"idle", "finish", "due"})
  /\ blob \in Blob \cup {NoBlob}

\* Receipts match deletions.  "Without emitting a second receipt" (durable.py:17):
\* however many failures a deletion takes to finish, and however the writer renews the
\* record meanwhile, each admission is followed by one attempt at a receipt at most; and
\* every deletion has its receipt in the log, or one failed attempt at it: an append that
\* the power or an error cut short after the mark, or that raised over a torn log, or a
\* line glued to an unended one.  The next sweep takes such a record for receipted.
ReceiptsMatchDeletions ==
  \A i \in Id : /\ receipts[i] + unreceipted[i] <= admits[i]
               /\ deletes[i] <= receipts[i] + unreceipted[i]

\* A sweep deletes what has expired and nothing else, but for one record: the one the
\* writer renewed after the sweep had read it as expired, and that is deleted by its id.
NothingDeletedEarly ==
  [][\A i \in DOMAIN rows : i \notin DOMAIN rows' => rows[i].until <= now \/ i \in overtaken]_vars

\* A blob on disk always has the row that will get it deleted: a crash between the
\* two halves of a deletion does not leave media that nothing will ever sweep.  Only
\* a renewal under another blob does, of the old one or, with a sweep in hand, of both.
BlobKeepsItsRow == blobs \subseteq {rows[i].blob : i \in DOMAIN rows} \cup orphans

\* A record does not outlive its retention (F16 R1): when it is due, or when a crash
\* has left it marked, some later sweep removes it, unless the writer renews it.
Expires ==
  \A i \in Id : (i \in DOMAIN rows /\ rows[i].until <= now)
                  ~> (i \in DOMAIN rows => rows[i].until > now)

=============================================================================
