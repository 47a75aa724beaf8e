---------------------------- MODULE Decommission ----------------------------
(***************************************************************************)
(* Decommission and crypto-erase (t1/storage/erase.py): an order is        *)
(* authorised, the audit chain is verified and exported, the key slots of  *)
(* the erasable domains are destroyed one domain after the other, and a    *)
(* receipt is appended to the chain.  The key slots and the chain are on   *)
(* disk; a Decommissioner and what it was handed are lost with the process.*)
(* Each call of erase_key_slots is a step, and may fail or raise; the      *)
(* power can go between any two.  Other units append to the chain in the   *)
(* meantime.  An append that raises may leave a part of its line: nothing  *)
(* reads the chain from then on, and nothing is appended.                  *)
(* Signatures and hashes are what they decide: an order names its check.   *)
(* A definition named for a fault is the wrong form of the one after it.   *)
(***************************************************************************)
EXTENDS Naturals, Sequences, FiniteSets

CONSTANTS
  Domain,            \* where records live
  CRYPTO_ERASABLE,   \* the domains whose key slots can be destroyed
  None,              \* no refusal, no export, no call, no outcome
  MaxChain,          \* bound of the model: chain length at which other units stop
  MaxFaults          \* bound of the model: failed erasures, raising calls, restarts and edits

\* The checks of authorise, in its order, and the order that passes them all
Flaw == {"wrong_signing_domain", "signature_invalid", "order_for_another_device"}
EraseRefusal == Flaw \cup {"identity_unknown", "audit_chain_broken", "audit_not_exported",
                           "key_escrowed", "already_erased"}

ASSUME DecommissionAssumption ==
  /\ CRYPTO_ERASABLE \subseteq Domain /\ IsFiniteSet(CRYPTO_ERASABLE)
  /\ MaxChain \in Nat /\ MaxFaults \in Nat /\ None \notin EraseRefusal

\* AuditExport: how many records it covers (its head_hash is theirs)
Export == [records : Nat]
Receipt == [outcome : {"erased", "partial"}, domains_erased : SUBSET CRYPTO_ERASABLE,
            domains_failed : SUBSET CRYPTO_ERASABLE, export : Export]
Egress == [outcome |-> None]   \* a record of another unit

VARIABLES
  keyed,       \* the erasable domains whose key slots are on the disk
  chain,       \* the records of the audit chain that read, the newest last
  tail,        \* its last line: "none" is amiss, "unended" without newline, "torn" unreadable
  intact,      \* whether the chain verifies
  device,      \* [known, escrowed]: device_id is not None, key_escrowed
  erased,      \* Decommissioner.erased
  export,      \* the AuditExport the operator holds, or None
  call,        \* the call of erase in progress: [todo, done, failed], or None
  refusals,    \* the refusals counted
  faults,
  \* history, read by no action
  receipts     \* receipts since the process started that said "erased"

disk == <<keyed, chain, tail, intact>>
vars == <<keyed, chain, tail, intact, device, erased, export, call, refusals, faults, receipts>>

Idle == call = None
Fault == faults < MaxFaults /\ faults' = faults + 1

Init ==
  /\ keyed = CRYPTO_ERASABLE
  /\ chain = <<>> /\ tail = "none" /\ intact = TRUE
  /\ device \in [known : BOOLEAN, escrowed : BOOLEAN]
  /\ erased = FALSE /\ export = None /\ call = None
  /\ refusals = {} /\ faults = 0 /\ receipts = 0

Refuse(refusal) ==
  /\ refusals' = refusals \cup {refusal}
  /\ UNCHANGED <<disk, device, erased, export, call, faults, receipts>>

----------------------------------------------------------------------------
(* AuditChain.append *)

WithoutLast == SubSeq(chain, 1, Len(chain) - 1)

\* A record appended.  To a line without its newline it is glued, and neither reads.
Appended(record) ==
  \/ tail = "none" /\ chain' = Append(chain, record) /\ tail' = "none"
  \/ tail = "unended" /\ chain' = WithoutLast /\ tail' = "torn"

\* An append that raises: on reading a torn line, before it wrote anything, or with a
\* part of its line written, perhaps all but the newline.
AppendRaises(record) ==
  \/ tail = "torn" /\ UNCHANGED <<chain, tail, faults>>
  \/ /\ tail # "torn" /\ Fault
     /\ \/ UNCHANGED <<chain, tail>>
        \/ tail = "none" /\ chain' = Append(chain, record) /\ tail' = "unended"
        \/ tail = "none" /\ chain' = chain /\ tail' = "torn"
        \/ tail = "unended" /\ chain' = WithoutLast /\ tail' = "torn"

----------------------------------------------------------------------------
\* export_audit, of a chain that verifies or of one that does not; of one that does
\* not read it raises, and changes nothing
ExportAudit ==
  /\ Idle /\ intact /\ tail # "torn"
  /\ export' = [records |-> Len(chain)]
  /\ UNCHANGED <<disk, device, erased, call, refusals, faults, receipts>>
ExportRefused == Idle /\ ~intact /\ tail # "torn" /\ Refuse("audit_chain_broken")

\* authorise: the first check that fails, for an order with no flaw or with one
RefusalWhateverErased(flaw) ==
  IF ~device.known THEN "identity_unknown"
  ELSE IF flaw # None THEN flaw
  ELSE IF device.escrowed THEN "key_escrowed"
  ELSE None
Refusal(flaw) ==
  IF erased THEN "already_erased"
  ELSE IF ~device.known THEN "identity_unknown"
  ELSE IF flaw # None THEN flaw
  ELSE IF device.escrowed THEN "key_escrowed"
  ELSE None

EraseRefused(flaw) ==
  /\ Idle
  /\ \/ Refusal(flaw) # None /\ Refuse(Refusal(flaw))
     \/ Refusal(flaw) = None /\ export = None /\ Refuse("audit_not_exported")

\* erase, up to its loop; the operator's export may be older than the chain
BeginErase(flaw) ==
  /\ Idle /\ Refusal(flaw) = None /\ export # None
  /\ call' = [todo |-> CRYPTO_ERASABLE, done |-> {}, failed |-> {}]
  /\ UNCHANGED <<disk, device, erased, export, refusals, faults, receipts>>

\* One domain of the loop (its order, by name, decides nothing)
EraseKeySlots(d) ==
  /\ ~Idle /\ d \in call.todo
  /\ keyed' = keyed \ {d}
  /\ call' = [call EXCEPT !.todo = @ \ {d}, !.done = @ \cup {d}]
  /\ UNCHANGED <<chain, tail, intact, device, erased, export, refusals, faults, receipts>>
EraseFails(d) ==
  /\ ~Idle /\ d \in call.todo /\ Fault
  /\ call' = [call EXCEPT !.todo = @ \ {d}, !.failed = @ \cup {d}]
  /\ UNCHANGED <<disk, device, erased, export, refusals, receipts>>

OutcomeIfAny == IF call.done = {} THEN "partial" ELSE "erased"
Outcome == IF call.failed = {} THEN "erased" ELSE "partial"

\* erase_key_slots raises, and with it erase: what was erased has no receipt
EraseRaises ==
  /\ ~Idle /\ call.todo # {} /\ Fault
  /\ call' = None
  /\ UNCHANGED <<disk, device, erased, export, refusals, receipts>>

\* The receipt, appended to the preserved chain; `erased` follows the outcome
TheReceipt == [outcome |-> Outcome, domains_erased |-> call.done,
               domains_failed |-> call.failed, export |-> export]
IssueReceipt ==
  /\ ~Idle /\ call.todo = {}
  /\ Appended(TheReceipt)
  /\ erased' = (Outcome = "erased")
  /\ receipts' = IF Outcome = "erased" THEN receipts + 1 ELSE receipts
  /\ call' = None
  /\ UNCHANGED <<keyed, intact, device, export, refusals, faults>>
ReceiptRaises ==
  /\ ~Idle /\ call.todo = {}
  /\ AppendRaises(TheReceipt)
  /\ call' = None
  /\ UNCHANGED <<keyed, intact, device, erased, export, refusals, receipts>>

----------------------------------------------------------------------------
(* The environment *)

\* Another unit appends to the chain
OtherAppend ==
  /\ Len(chain) < MaxChain
  /\ \/ Appended(Egress) /\ faults' = faults
     \/ AppendRaises(Egress)
  /\ UNCHANGED <<keyed, intact, device, erased, export, call, refusals, receipts>>

\* A record is edited where it lies
Damage ==
  /\ intact /\ chain # <<>> /\ Fault /\ intact' = FALSE
  /\ UNCHANGED <<keyed, chain, tail, device, erased, export, call, refusals, receipts>>

\* The process ends, perhaps inside erase; a new Decommissioner has erased = False
Restart ==
  /\ Fault
  /\ erased' = FALSE /\ export' = None /\ call' = None /\ refusals' = {} /\ receipts' = 0
  /\ UNCHANGED <<disk, device>>

Next ==
  \/ ExportAudit \/ ExportRefused
  \/ \E flaw \in Flaw \cup {None} : EraseRefused(flaw) \/ BeginErase(flaw)
  \/ \E d \in CRYPTO_ERASABLE : EraseKeySlots(d) \/ EraseFails(d)
  \/ EraseRaises \/ IssueReceipt \/ ReceiptRaises
  \/ OtherAppend \/ Damage \/ Restart

Spec == Init /\ [][Next]_vars

----------------------------------------------------------------------------
(***************************************************************************)
(* Properties                                                              *)
(***************************************************************************)

ReceiptsIn(lines) == {i \in 1..Len(lines) : lines[i].outcome # None}

\* Key slots, chain, call and refusals have their types, and a call in progress has
\* each domain on one of its three lists.
TypeOK ==
  /\ keyed \subseteq CRYPTO_ERASABLE
  /\ chain \in Seq(Receipt \cup {Egress})
  /\ tail \in {"none", "unended", "torn"} /\ (tail = "unended" => chain # <<>>)
  /\ intact \in BOOLEAN /\ erased \in BOOLEAN
  /\ device \in [known : BOOLEAN, escrowed : BOOLEAN]
  /\ export \in Export \cup {None}
  /\ ~Idle => /\ call.todo \cup call.done \cup call.failed = CRYPTO_ERASABLE
              /\ call.todo \cap call.done = {} /\ call.failed \cap (call.todo \cup call.done) = {}
              /\ export # None
  /\ refusals \subseteq EraseRefusal
  /\ receipts \in Nat

\* A receipt never overstates: if one says a domain was erased, its key slots are
\* gone now, and one that says "erased" says so of every erasable domain.  Failed
\* domains, retries, restarts between two domains and receipts written by an append
\* that raised included.
ReceiptsAreTrue ==
  \A i \in ReceiptsIn(chain) :
    /\ chain[i].domains_erased \cap keyed = {}
    /\ chain[i].outcome = "erased" => keyed = {}

\* A receipt is bound to an export of what the chain held before it, so the export
\* is never of a chain with this receipt in it; and no Decommissioner issues a second
\* receipt for an erased device, though an erase that was partial, or that raised, may be
\* repeated.
OneReceiptPerErasure ==
  /\ \A i \in ReceiptsIn(chain) : chain[i].export \in Export /\ chain[i].export.records < i
  /\ receipts <= 1

=============================================================================
