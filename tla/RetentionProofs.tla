--------------------------- MODULE RetentionProofs --------------------------
(***************************************************************************)
(* Proofs about Retention, for any records, blobs, bounds and ceilings.    *)
(*                                                                         *)
(* What makes the four properties inductive is what the sweep may rely on  *)
(* between two of its writes: which list a record is on tells whether it   *)
(* is marked (Lists), a mark in the table stands for one attempt at a      *)
(* receipt (Accounts), what is on a list has expired or was renewed since          *)
(* (ListsExpired), and the blob the sweep holds is the row's (BlobInHand). *)
(***************************************************************************)
EXTENDS Retention, TLAPS

\* The disk, the lists and the history as the sweep relies on them.
Lists ==
  /\ pc \notin {"finish", "unlink_marked", "delete_marked"} => DOMAIN marked = {}
  /\ pc \in {"idle", "finish", "unlink_marked", "delete_marked"} => due = {}
  /\ id \notin DOMAIN marked /\ id \notin due
  /\ OnAList \subseteq DOMAIN rows \cup {NoId}
  /\ \A i \in due : ~rows[i].pending
  /\ pc = "mark" => ~rows[id].pending
  /\ \A i \in DOMAIN marked : marked[i] \in Blob \cup {NoBlob}

\* What the log owes: one attempt at a receipt at most for each admission that was not
\* marked yet or is marked and about to be receipted, and none for what has had one.
Tried(i) == receipts[i] + unreceipted[i]
One(holds) == IF holds THEN 1 ELSE 0
Unmarked(i) == i \in DOMAIN rows /\ ~rows[i].pending
AtReceipt(i) == pc = "receipt" /\ id = i
Receipted(i) ==
  \/ i \in DOMAIN rows /\ rows[i].pending /\ ~AtReceipt(i)
  \/ i \in DOMAIN marked
  \/ id = i /\ pc \in {"unlink", "unlink_marked", "delete", "delete_marked"}

Accounts ==
  /\ \A i \in Id : Tried(i) + One(Unmarked(i)) + One(AtReceipt(i)) <= admits[i]
  /\ \A i \in Id : deletes[i] + One(Receipted(i)) <= Tried(i)

\* What the sweep has read as expired still is, unless it was renewed since.
ListsExpired ==
  \A i \in DOMAIN rows : i \in OnAList \cup Pending => rows[i].until <= now \/ i \in overtaken

\* The blob in hand is the row's, unless the row was renewed since, and is gone once
\* it has been unlinked.
BlobInHand ==
  /\ \A i \in DOMAIN rows \ overtaken : i \in DOMAIN marked => marked[i] = rows[i].blob
  /\ id \in DOMAIN rows \ overtaken =>
       /\ rows[id].blob = blob
       /\ pc \in {"delete", "delete_marked"} => blob \notin blobs

\* The inductive invariant
Sound ==
  /\ TypeOK
  /\ Lists
  /\ Accounts
  /\ ListsExpired
  /\ BlobInHand
  /\ BlobKeepsItsRow

\* What an admission of i with blob b does, as the sweep sees it.
Renews(i, b) ==
  /\ DOMAIN rows' = DOMAIN rows \cup {i}
  /\ rows'[i] \in [until : Nat, blob : Blob \cup {NoBlob}, pending : BOOLEAN]
  /\ rows'[i].blob = b /\ ~rows'[i].pending
  /\ \A j \in DOMAIN rows : j # i => rows'[j] = rows[j] /\ (b = NoBlob \/ rows[j].blob # b)
  /\ Pending' = Pending \ {i}
  /\ OnAList' = OnAList
  /\ overtaken' = (overtaken \ {i}) \cup (DOMAIN rows \cap {i} \cap OnAList)
  /\ blobs' = blobs \cup ({b} \ {NoBlob})
  /\ orphans' = (orphans \cup BlobOf(i)) \ {b}
  /\ UNCHANGED <<receipts, tail, now, pc, marked, due, id, blob, sweep_now, deletes,
                 unreceipted, crashes>>

\* An admission writes one unmarked row and leaves the others; the sweep is not told.
LEMMA AdmitWritesOneRow ==
  ASSUME TypeOK, NEW i \in Id, NEW asked \in 1..(Ceiling + 1),
         NEW b \in Blob \cup {NoBlob}, Admit(i, asked, b)
  PROVE  Renews(i, b)
  <1>1. now + Lower(asked, Ceiling) \in Nat
    BY RetentionAssumption DEF TypeOK, Lower
  <1>2. rows' = [j \in DOMAIN rows \cup {i} |->
                   IF j = i
                   THEN [until |-> now + Lower(asked, Ceiling), blob |-> b, pending |-> FALSE]
                   ELSE rows[j]]
    BY DEF Admit
  <1>3. /\ DOMAIN rows' = DOMAIN rows \cup {i}
        /\ rows'[i] = [until |-> now + Lower(asked, Ceiling), blob |-> b, pending |-> FALSE]
        /\ \A j \in DOMAIN rows : j # i => rows'[j] = rows[j]
    BY <1>2
  <1>4. \A j \in DOMAIN rows : j # i => b = NoBlob \/ rows[j].blob # b
    BY DEF Admit
  <1>5. Pending' = Pending \ {i}
    BY <1>3 DEF Pending
  <1>6. /\ OnAList' = OnAList
        /\ overtaken' = (overtaken \ {i}) \cup (DOMAIN rows \cap {i} \cap OnAList)
        /\ blobs' = blobs \cup ({b} \ {NoBlob})
        /\ orphans' = (orphans \cup BlobOf(i)) \ {b}
        /\ UNCHANGED <<receipts, tail, now, pc, marked, due, id, blob, sweep_now, deletes,
                       unreceipted, crashes>>
    BY DEF Admit, sweep, OnAList
  <1> QED BY <1>1, <1>3, <1>4, <1>5, <1>6 DEF Renews

\* What marking does to the table: it flags the row in hand, if that is still there.
MarksItsRow ==
  /\ DOMAIN rows' = DOMAIN rows
  /\ \A i \in DOMAIN rows :
       /\ rows'[i] \in [until : Nat, blob : Blob \cup {NoBlob}, pending : BOOLEAN]
       /\ rows'[i].until = rows[i].until /\ rows'[i].blob = rows[i].blob
       /\ i # id => rows'[i] = rows[i]
       /\ i = id => rows'[i].pending

\* Marking flags one row and changes nothing else of the table.
LEMMA MarkFlagsOneRow ==
  ASSUME TypeOK, Mark
  PROVE  MarksItsRow
  <1>1. CASE id \in DOMAIN rows
    <2>1. rows' = [rows EXCEPT ![id].pending = TRUE]
      BY <1>1 DEF Mark
    <2>2. \A i \in DOMAIN rows :
            rows[i] \in [until : Nat, blob : Blob \cup {NoBlob}, pending : BOOLEAN]
      BY DEF TypeOK
    <2> QED BY <1>1, <2>1, <2>2 DEF MarksItsRow
  <1>2. CASE id \notin DOMAIN rows
    BY <1>2 DEF Mark, TypeOK, MarksItsRow
  <1> QED BY <1>1, <1>2

\* Every step keeps the types.
LEMMA TypesNext ==
  ASSUME TypeOK, Lists, [Next]_vars
  PROVE  TypeOK'
  <1> USE RetentionAssumption DEF TypeOK, Lists, OnAList, Pending
  <1>1. CASE UNCHANGED vars
    BY <1>1 DEF vars, disk, sweep, history
  <1>2. CASE Tick
    BY <1>2 DEF Tick, disk, sweep, history
  <1>3. CASE BeginSweep
    BY <1>3 DEF BeginSweep, disk, sweep, history
  <1>4. CASE SelectDue
    BY <1>4 DEF SelectDue, DueAt, disk, sweep, history
  <1>5. CASE EndSweep
    BY <1>5 DEF EndSweep, disk, sweep, history
  <1>6. CASE Mark
    <2>1. MarksItsRow
      BY <1>6, MarkFlagsOneRow
    <2>2. /\ UNCHANGED <<blobs, receipts, tail, now, marked, due, id, blob, sweep_now, history>>
          /\ pc' = "receipt"
      BY <1>6 DEF Mark
    <2>3. Pending \cap DOMAIN rows' \subseteq Pending' /\ OnAList' = OnAList
      BY <2>1, <2>2 DEF MarksItsRow
    <2>4. pc = "mark"
      BY <1>6 DEF Mark
    <2> HIDE DEF OnAList, Pending, Lists
    <2>5. overtaken' \subseteq (OnAList' \cup Pending') \cap DOMAIN rows'
      BY <2>1, <2>2, <2>3 DEF MarksItsRow, history
    <2>6. /\ DOMAIN rows' \subseteq Id
          /\ \A i \in DOMAIN rows' :
               rows'[i] \in [until : Nat, blob : Blob \cup {NoBlob}, pending : BOOLEAN]
      BY <2>1 DEF MarksItsRow
    <2> QED BY <2>2, <2>4, <2>5, <2>6 DEF history
  <1>7. CASE WriteReceipt
    <2>1. /\ UNCHANGED <<rows, blobs, now, marked, due, id, blob, sweep_now, admits, deletes,
                         overtaken, orphans, crashes>>
          /\ pc = "receipt" /\ pc' = "unlink" /\ tail' \in {tail, "torn"}
      BY <1>7 DEF WriteReceipt
    <2>2. /\ id \in Id /\ receipts \in [Id -> Nat] /\ unreceipted \in [Id -> Nat]
      BY <2>1
    <2>3. receipts' \in [Id -> Nat] /\ unreceipted' \in [Id -> Nat]
      <3> HIDE DEF TypeOK, Lists, OnAList, Pending
      <3> QED BY <1>7, <2>2 DEF WriteReceipt, Unreceipted
    <2> QED BY <2>1, <2>3
  <1>8. CASE Unlink
    BY <1>8 DEF Unlink, disk, sweep, history
  <1>9. CASE Delete
    BY <1>9 DEF Delete, Without, BlobLost, BlobOf, disk, sweep, history
  <1>10. CASE Crash \/ ReceiptRaises
    BY <1>10 DEF Crash, ReceiptRaises, LineCutShort, Forgotten, Unreceipted, disk, sweep, history
  <1>14. CASE OthersAppend
    BY <1>14 DEF OthersAppend, LineCutShort, disk, sweep, history
  <1>11. ASSUME NEW i \in Id, NEW asked \in 1..(Ceiling + 1), NEW b \in Blob \cup {NoBlob},
                Admit(i, asked, b)
        PROVE  TypeOK'
    <2> HIDE DEF TypeOK, Lists, OnAList, Pending
    <2>0. Renews(i, b)
      BY <1>11, AdmitWritesOneRow
    <2>1. /\ blobs' \subseteq Blob /\ orphans' \subseteq Blob
          /\ admits' \in [Id -> Nat]
      <3>1. blobs' \subseteq Blob
        BY <2>0 DEF Renews, TypeOK
      <3>2. BlobOf(i) \subseteq Blob
        BY DEF BlobOf, TypeOK
      <3>3. admits' \in [Id -> Nat]
        BY <1>11 DEF Admit, TypeOK
      <3> QED BY <2>0, <3>1, <3>2, <3>3 DEF Renews, TypeOK
    <2>2. overtaken' \subseteq (OnAList' \cup Pending') \cap DOMAIN rows'
      BY <2>0 DEF Renews, TypeOK
    <2>3. \A j \in DOMAIN rows' :
            rows'[j] \in [until : Nat, blob : Blob \cup {NoBlob}, pending : BOOLEAN]
      <3>1. \A j \in DOMAIN rows :
              rows[j] \in [until : Nat, blob : Blob \cup {NoBlob}, pending : BOOLEAN]
        BY DEF TypeOK
      <3> QED BY <2>0, <3>1 DEF Renews
    <2>4. DOMAIN rows' \subseteq Id
      BY <2>0 DEF Renews, TypeOK
    <2> HIDE DEF Renews
    <2>5. UNCHANGED <<receipts, tail, now, pc, marked, due, id, blob, sweep_now, deletes,
                      unreceipted, crashes>>
      BY <2>0 DEF Renews
    <2> QED BY <2>1, <2>2, <2>3, <2>4, <2>5 DEF TypeOK, OnAList, Pending
  <1>12. ASSUME NEW i \in Id, FinishNext(i) PROVE TypeOK'
    BY <1>12 DEF FinishNext, disk, history
  <1>13. ASSUME NEW i \in Id, DeleteNext(i) PROVE TypeOK'
    BY <1>13 DEF DeleteNext, disk, history
  <1> QED BY <1>1, <1>2, <1>3, <1>4, <1>5, <1>6, <1>7, <1>8, <1>9, <1>10,
           <1>11, <1>12, <1>13, <1>14 DEF Next, SweepStep

\* Every step keeps the lists apart.
LEMMA ListsNext ==
  ASSUME TypeOK, Lists, [Next]_vars
  PROVE  Lists'
  <1> USE RetentionAssumption DEF TypeOK, Lists, OnAList, Pending
  <1>1. CASE UNCHANGED vars
    BY <1>1 DEF vars, disk, sweep, history
  <1>2. CASE Tick
    BY <1>2 DEF Tick, disk, sweep, history
  <1>3. CASE BeginSweep
    BY <1>3 DEF BeginSweep, disk, sweep, history
  <1>4. CASE SelectDue
    BY <1>4 DEF SelectDue, DueAt, disk, sweep, history
  <1>5. CASE EndSweep
    BY <1>5 DEF EndSweep, disk, sweep, history
  <1>6. CASE Mark
    BY <1>6 DEF Mark, disk, sweep, history
  <1>7. CASE WriteReceipt
    BY <1>7 DEF WriteReceipt, Unreceipted, disk, sweep, history
  <1>8. CASE Unlink
    BY <1>8 DEF Unlink, disk, sweep, history
  <1>9. CASE Delete
    BY <1>9 DEF Delete, Without, BlobLost, BlobOf, disk, sweep, history
  <1>10. CASE Crash \/ ReceiptRaises
    BY <1>10 DEF Crash, ReceiptRaises, LineCutShort, Forgotten, Unreceipted, disk, sweep, history
  <1>14. CASE OthersAppend
    BY <1>14 DEF OthersAppend, LineCutShort, disk, sweep, history
  <1>11. ASSUME NEW i \in Id, NEW asked \in 1..(Ceiling + 1), NEW b \in Blob \cup {NoBlob},
                Admit(i, asked, b)
        PROVE  Lists'
    BY <1>11 DEF Admit, Lower, BlobOf, sweep, history
  <1>12. ASSUME NEW i \in Id, FinishNext(i) PROVE Lists'
    BY <1>12 DEF FinishNext, disk, history
  <1>13. ASSUME NEW i \in Id, DeleteNext(i) PROVE Lists'
    BY <1>13 DEF DeleteNext, disk, history
  <1> QED BY <1>1, <1>2, <1>3, <1>4, <1>5, <1>6, <1>7, <1>8, <1>9, <1>10,
           <1>11, <1>12, <1>13, <1>14 DEF Next, SweepStep

\* No step leaves the log owing or owed.
LEMMA AccountsNext ==
  ASSUME TypeOK, Lists, Accounts, [Next]_vars
  PROVE  Accounts'
  <1> USE RetentionAssumption DEF TypeOK, Lists, Accounts, One, Unmarked, AtReceipt, Receipted,
             Pending
  <1>0. pc = "mark" => id \in DOMAIN rows
    BY DEF OnAList
  <1>1. CASE UNCHANGED vars
    BY <1>1 DEF vars, disk, sweep, history, Tried
  <1>2. CASE Tick
    BY <1>2 DEF Tick, disk, sweep, history, Tried
  <1>3. CASE BeginSweep
    BY <1>3 DEF BeginSweep, disk, sweep, history, Tried
  <1>4. CASE SelectDue
    BY <1>4 DEF SelectDue, DueAt, disk, sweep, history, Tried
  <1>5. CASE EndSweep
    BY <1>5 DEF EndSweep, disk, sweep, history, Tried
  <1>6. CASE Mark
    <2>1. /\ UNCHANGED <<receipts, admits, deletes, unreceipted, marked, id>>
          /\ pc = "mark" /\ pc' = "receipt" /\ DOMAIN rows' = DOMAIN rows /\ rows'[id].pending
          /\ \A i \in DOMAIN rows : i # id => rows'[i] = rows[i]
      BY <1>0, <1>6 DEF Mark, history, Tried
    <2>2. Unmarked(id) /\ ~Unmarked(id)' /\ ~AtReceipt(id) /\ AtReceipt(id)'
      BY <1>0, <2>1
    <2>3. \A i \in Id : i # id => (Unmarked(i)' <=> Unmarked(i)) /\ ~AtReceipt(i) /\ ~AtReceipt(i)'
      BY <2>1
    <2>4. \A i \in Id : Receipted(i)' => Receipted(i)
      BY <2>1
    <2>5. \A i \in Id : Tried(i)' = Tried(i)
      BY <2>1 DEF Tried
    <2>6. \A i \in Id : Tried(i) \in Nat /\ admits[i] \in Nat /\ deletes[i] \in Nat
      BY DEF Tried
    <2>7. id \in Id
      BY <2>1
    <2> HIDE DEF Unmarked, AtReceipt, Receipted, Lists, TypeOK, Tried
    <2>8. \A i \in Id : Tried(i)' + One(Unmarked(i)') + One(AtReceipt(i)') <= admits'[i]
      BY <2>1, <2>2, <2>3, <2>5, <2>6
    <2>9. \A i \in Id : deletes'[i] + One(Receipted(i)') <= Tried(i)'
      BY <2>1, <2>4, <2>5, <2>6
    <2> QED BY <2>8, <2>9
  <1>7. CASE WriteReceipt
    <2>1. /\ UNCHANGED <<rows, admits, deletes, marked, id>>
          /\ pc = "receipt" /\ pc' = "unlink" /\ id \in Id
      BY <1>7 DEF WriteReceipt
    <2>2. \A i \in Id : Tried(i)' = Tried(i) + One(i = id)
      BY <1>7, <2>1 DEF WriteReceipt, Unreceipted, Tried
    <2>3. \A i \in Id : Tried(i) \in Nat /\ deletes[i] \in Nat /\ admits[i] \in Nat
      BY DEF Tried
    <2>4. AtReceipt(id) /\ \A i \in Id : ~AtReceipt(i)' /\ Unmarked(i)' = Unmarked(i)
      BY <2>1
    <2>5. \A i \in Id : i # id => Receipted(i)' = Receipted(i)
      BY <2>1
    <2>6. ~Receipted(id)
      BY <2>1
    <2> HIDE DEF Unmarked, AtReceipt, Receipted, Lists, TypeOK, Tried
    <2>7. \A i \in Id : Tried(i)' + One(Unmarked(i)') + One(AtReceipt(i)') <= admits'[i]
      BY <2>1, <2>2, <2>3, <2>4
    <2>8. \A i \in Id : deletes'[i] + One(Receipted(i)') <= Tried(i)'
      BY <2>1, <2>2, <2>3, <2>5, <2>6
    <2> QED BY <2>7, <2>8
  <1>8. CASE Unlink
    BY <1>8 DEF Unlink, disk, sweep, history, Tried
  <1>9. CASE Delete
    <2>1. /\ pc \in {"delete", "delete_marked"} /\ pc' \in {"due", "finish"} /\ id' = NoId
          /\ id \in Id /\ rows' = Without(id)
          /\ UNCHANGED <<marked, receipts, admits, unreceipted>>
          /\ deletes' = IF id \in DOMAIN rows THEN [deletes EXCEPT ![id] = @ + 1] ELSE deletes
      BY <1>9 DEF Delete
    <2>2. DOMAIN rows' = DOMAIN rows \ {id} /\ \A i \in DOMAIN rows' : rows'[i] = rows[i]
      BY <2>1 DEF Without
    <2>3. \A i \in Id : Tried(i)' = Tried(i) /\ ~AtReceipt(i)' /\ (Unmarked(i)' => Unmarked(i))
      BY <2>1, <2>2 DEF Tried
    <2>4. \A i \in Id : i # id => (Receipted(i)' => Receipted(i)) /\ deletes'[i] = deletes[i]
      BY <2>1, <2>2
    <2>5. \A i \in Id : i = id => /\ Receipted(i) /\ ~Receipted(i)'
                                 /\ deletes'[i] \in {deletes[i], deletes[i] + 1}
      BY <2>1, <2>2
    <2>6. \A i \in Id : Tried(i) \in Nat /\ admits[i] \in Nat /\ deletes[i] \in Nat
      BY DEF Tried
    <2> HIDE DEF Unmarked, AtReceipt, Receipted, Lists, TypeOK, Tried
    <2>7. \A i \in Id : Tried(i)' + One(Unmarked(i)') + One(AtReceipt(i)') <= admits'[i]
      BY <2>1, <2>3, <2>6
    <2>8. \A i \in Id : deletes'[i] + One(Receipted(i)') <= Tried(i)'
      <3> TAKE i \in Id
      <3>1. deletes[i] + One(Receipted(i)) <= Tried(i)
        OBVIOUS
      <3> HIDE DEF Accounts
      <3>2. CASE i = id
        BY <2>3, <2>5, <2>6, <3>1, <3>2
      <3>3. CASE i # id
        BY <2>3, <2>4, <2>6, <3>1, <3>3
      <3> QED BY <3>2, <3>3
    <2> QED BY <2>7, <2>8
  <1>10. CASE Crash \/ ReceiptRaises
    <2>1. /\ UNCHANGED <<rows, receipts, admits, deletes>> /\ DOMAIN marked' = {}
          /\ pc' = "idle" /\ id' = NoId
          /\ IF pc = "receipt" THEN Unreceipted(id) ELSE UNCHANGED unreceipted
      BY <1>10 DEF Crash, ReceiptRaises, Forgotten
    <2>2. \A i \in Id : (Unmarked(i) <=> Unmarked(i)') /\ ~AtReceipt(i)'
      BY <2>1
    <2>3. \A i \in Id : Tried(i)' = Tried(i) + One(AtReceipt(i))
      BY <2>1 DEF Tried, Unreceipted
    <2>4. \A i \in Id : Tried(i) \in Nat /\ deletes[i] \in Nat /\ admits[i] \in Nat
      BY DEF Tried
    <2>5. \A i \in Id : Receipted(i)' => Receipted(i) \/ AtReceipt(i)
      BY <2>1
    <2> HIDE DEF Unmarked, AtReceipt, Receipted, Lists, TypeOK, Tried
    <2>6. \A i \in Id : Tried(i)' + One(Unmarked(i)') + One(AtReceipt(i)') <= admits'[i]
      BY <2>1, <2>2, <2>3, <2>4
    <2>7. \A i \in Id : deletes'[i] + One(Receipted(i)') <= Tried(i)'
      BY <2>1, <2>3, <2>4, <2>5
    <2> QED BY <2>6, <2>7
  <1>14. CASE OthersAppend
    BY <1>14 DEF OthersAppend, sweep, Tried
  <1>11. ASSUME NEW i \in Id, NEW asked \in 1..(Ceiling + 1), NEW b \in Blob \cup {NoBlob},
                Admit(i, asked, b)
        PROVE  Accounts'
    <2> HIDE DEF TypeOK, Lists, Accounts, One, Unmarked, AtReceipt, Receipted, Pending
    <2>0. Renews(i, b)
      BY <1>11, AdmitWritesOneRow
    <2>1. /\ admits'[i] = admits[i] + 1 /\ \A j \in Id : j # i => admits'[j] = admits[j]
          /\ \A j \in Id : admits[j] \in Nat /\ Tried(j) \in Nat
      BY <1>11 DEF Admit, TypeOK, Tried
    <2>2. UNCHANGED <<receipts, deletes, unreceipted, pc, id, marked>>
      BY <2>0 DEF Renews
    <2>3. \A j \in Id : AtReceipt(j)' <=> AtReceipt(j)
      BY <2>2 DEF AtReceipt
    <2>4. \A j \in Id : j # i => (Unmarked(j)' <=> Unmarked(j))
      BY <2>0 DEF Renews, Unmarked
    <2>5. \A j \in Id : Receipted(j)' => Receipted(j)
      BY <2>0, <2>2, <2>3 DEF Renews, Receipted
    <2>9. \A j \in Id : Tried(j)' = Tried(j)
      BY <2>2 DEF Tried
    <2>6. One(Unmarked(i)') \in {0, 1} /\ One(Unmarked(i)) \in {0, 1}
          /\ One(AtReceipt(i)) \in {0, 1}
      BY DEF One
    <2>7. \A j \in Id : Tried(j)' + One(Unmarked(j)') + One(AtReceipt(j)') <= admits'[j]
      <3>1. ASSUME NEW j \in Id, j # i
            PROVE  Tried(j)' + One(Unmarked(j)') + One(AtReceipt(j)') <= admits'[j]
        BY <2>1, <2>9, <2>3, <2>4, <3>1 DEF Accounts, One
      <3>2. Tried(i)' + One(Unmarked(i)') + One(AtReceipt(i)') <= admits'[i]
        <4>1. One(AtReceipt(i)') = One(AtReceipt(i))
          BY <2>3 DEF One
        <4>2. Tried(i) + One(Unmarked(i)) + One(AtReceipt(i)) <= admits[i]
          BY DEF Accounts
        <4> QED BY <2>1, <2>9, <2>6, <4>1, <4>2
      <3> QED BY <3>1, <3>2
    <2>8. \A j \in Id : deletes'[j] + One(Receipted(j)') <= Tried(j)'
      <3> SUFFICES ASSUME NEW j \in Id
                   PROVE  deletes[j] + One(Receipted(j)') <= Tried(j)
        BY <2>2, <2>9
      <3>1. deletes[j] \in Nat /\ deletes[j] + One(Receipted(j)) <= Tried(j)
        BY DEF Accounts, TypeOK
      <3> QED BY <2>1, <2>5, <3>1 DEF One
    <2> QED BY <2>7, <2>8 DEF Accounts, One, Unmarked, AtReceipt, Receipted
  <1>12. ASSUME NEW i \in Id, FinishNext(i) PROVE Accounts'
    BY <1>12 DEF FinishNext, disk, history, Tried
  <1>13. ASSUME NEW i \in Id, DeleteNext(i) PROVE Accounts'
    BY <1>13 DEF DeleteNext, disk, history, Tried
  <1> QED BY <1>1, <1>2, <1>3, <1>4, <1>5, <1>6, <1>7, <1>8, <1>9, <1>10,
           <1>11, <1>12, <1>13, <1>14 DEF Next, SweepStep

\* No step puts on a list what has not expired.
LEMMA ExpiredNext ==
  ASSUME TypeOK, Lists, ListsExpired, [Next]_vars
  PROVE  ListsExpired'
  <1> USE RetentionAssumption DEF TypeOK, Lists, ListsExpired, OnAList, Pending
  <1>1. CASE UNCHANGED vars
    BY <1>1 DEF vars, disk, sweep, history
  <1>2. CASE Tick
    BY <1>2 DEF Tick, disk, sweep, history
  <1>3. CASE BeginSweep
    BY <1>3 DEF BeginSweep, disk, sweep, history
  <1>4. CASE SelectDue
    BY <1>4 DEF SelectDue, DueAt, disk, sweep, history
  <1>5. CASE EndSweep
    BY <1>5 DEF EndSweep, disk, sweep, history
  <1>6. CASE Mark
    <2>1. MarksItsRow
      BY <1>6, MarkFlagsOneRow
    <2>2. UNCHANGED <<now, marked, due, id, overtaken>>
      BY <1>6 DEF Mark, history
    <2>3. OnAList' = OnAList /\ id \in OnAList
      BY <2>2
    <2>4. \A i \in Pending' : i \in Pending \/ i \in OnAList
      BY <2>1, <2>3 DEF MarksItsRow
    <2> HIDE DEF OnAList, Pending, TypeOK, Lists
    <2> SUFFICES ASSUME NEW i \in DOMAIN rows', i \in OnAList' \cup Pending'
                 PROVE  rows'[i].until <= now' \/ i \in overtaken'
      OBVIOUS
    <2>5. i \in DOMAIN rows /\ rows'[i].until = rows[i].until
      BY <2>1 DEF MarksItsRow
    <2> QED BY <2>2, <2>3, <2>4, <2>5
  <1>7. CASE WriteReceipt
    BY <1>7 DEF WriteReceipt, Unreceipted, disk, sweep, history
  <1>8. CASE Unlink
    BY <1>8 DEF Unlink, disk, sweep, history
  <1>9. CASE Delete
    BY <1>9 DEF Delete, Without, BlobLost, BlobOf, disk, sweep, history
  <1>10. CASE Crash \/ ReceiptRaises
    BY <1>10 DEF Crash, ReceiptRaises, LineCutShort, Forgotten, Unreceipted, disk, sweep, history
  <1>14. CASE OthersAppend
    BY <1>14 DEF OthersAppend, LineCutShort, disk, sweep, history
  <1>11. ASSUME NEW i \in Id, NEW asked \in 1..(Ceiling + 1), NEW b \in Blob \cup {NoBlob},
                Admit(i, asked, b)
        PROVE  ListsExpired'
    <2> HIDE DEF TypeOK, Lists, ListsExpired, OnAList, Pending
    <2>0. Renews(i, b)
      BY <1>11, AdmitWritesOneRow
    <2> SUFFICES ASSUME NEW j \in DOMAIN rows', j \in OnAList' \cup Pending'
                 PROVE  rows'[j].until <= now' \/ j \in overtaken'
      BY DEF ListsExpired
    <2>1. CASE j = i
      <3>1. i \in OnAList
        BY <2>0, <2>1 DEF Renews
      <3>2. i \in DOMAIN rows
        BY <3>1, RetentionAssumption DEF Lists
      <3> QED BY <2>0, <2>1, <3>1, <3>2 DEF Renews
    <2>2. CASE j # i
      <3>1. j \in DOMAIN rows /\ j \in OnAList \cup Pending /\ rows'[j] = rows[j]
        BY <2>0, <2>2 DEF Renews
      <3> QED BY <2>0, <2>2, <3>1 DEF Renews, ListsExpired
    <2> QED BY <2>1, <2>2
  <1>12. ASSUME NEW i \in Id, FinishNext(i) PROVE ListsExpired'
    BY <1>12 DEF FinishNext, disk, history
  <1>13. ASSUME NEW i \in Id, DeleteNext(i) PROVE ListsExpired'
    BY <1>13 DEF DeleteNext, disk, history
  <1> QED BY <1>1, <1>2, <1>3, <1>4, <1>5, <1>6, <1>7, <1>8, <1>9, <1>10,
           <1>11, <1>12, <1>13, <1>14 DEF Next, SweepStep

\* The blob in hand stays the row's.
LEMMA InHandNext ==
  ASSUME TypeOK, Lists, BlobInHand, [Next]_vars
  PROVE  BlobInHand'
  <1> USE RetentionAssumption DEF TypeOK, Lists, OnAList, BlobInHand
  <1>1. CASE UNCHANGED vars
    BY <1>1 DEF vars, disk, sweep, history
  <1>2. CASE Tick
    BY <1>2 DEF Tick, disk, sweep, history
  <1>3. CASE BeginSweep
    BY <1>3 DEF BeginSweep, disk, sweep, history
  <1>4. CASE SelectDue
    BY <1>4 DEF SelectDue, DueAt, disk, sweep, history
  <1>5. CASE EndSweep
    BY <1>5 DEF EndSweep, disk, sweep, history
  <1>6. CASE Mark
    BY <1>6 DEF Mark, disk, sweep, history
  <1>7. CASE WriteReceipt
    BY <1>7 DEF WriteReceipt, Unreceipted, disk, sweep, history
  <1>8. CASE Unlink
    BY <1>8 DEF Unlink, disk, sweep, history
  <1>9. CASE Delete
    BY <1>9 DEF Delete, Without, BlobLost, BlobOf, disk, sweep, history
  <1>10. CASE Crash \/ ReceiptRaises
    BY <1>10 DEF Crash, ReceiptRaises, LineCutShort, Forgotten, Unreceipted, disk, sweep, history
  <1>14. CASE OthersAppend
    BY <1>14 DEF OthersAppend, LineCutShort, disk, sweep, history
  <1>11. ASSUME NEW i \in Id, NEW asked \in 1..(Ceiling + 1), NEW b \in Blob \cup {NoBlob},
                Admit(i, asked, b)
        PROVE  BlobInHand'
    <2> HIDE DEF TypeOK, Lists, OnAList
    <2>0. Renews(i, b)
      BY <1>11, AdmitWritesOneRow
    <2>1. ASSUME NEW j \in DOMAIN rows' \ overtaken', j \in OnAList
          PROVE  /\ j \in DOMAIN rows \ overtaken /\ rows'[j] = rows[j]
                 /\ b = NoBlob \/ rows[j].blob # b
      <3>1. j # NoId
        BY <2>0, <2>1, RetentionAssumption DEF Renews, TypeOK
      <3>2. j \in DOMAIN rows
        BY <2>1, <3>1 DEF Lists
      <3>3. j # i
        BY <2>0, <2>1, <3>2 DEF Renews
      <3> QED BY <2>0, <2>1, <3>2, <3>3 DEF Renews
    <2>2. DOMAIN marked \subseteq OnAList /\ id \in OnAList
      BY DEF OnAList
    <2>3. \A j \in DOMAIN rows' \ overtaken' : j \in DOMAIN marked' => marked'[j] = rows'[j].blob
      BY <2>0, <2>1, <2>2 DEF Renews
    <2>4. id' \in DOMAIN rows' \ overtaken' => rows'[id'].blob = blob' /\ (b = NoBlob \/ blob # b)
      BY <2>0, <2>1, <2>2 DEF Renews
    <2>5. blobs' = blobs \cup ({b} \ {NoBlob}) /\ pc' = pc /\ blob' = blob /\ id' = id
      BY <2>0 DEF Renews
    <2> QED BY <2>1, <2>2, <2>3, <2>4, <2>5
  <1>12. ASSUME NEW i \in Id, FinishNext(i) PROVE BlobInHand'
    BY <1>12 DEF FinishNext, disk, history
  <1>13. ASSUME NEW i \in Id, DeleteNext(i) PROVE BlobInHand'
    BY <1>13 DEF DeleteNext, disk, history
  <1> QED BY <1>1, <1>2, <1>3, <1>4, <1>5, <1>6, <1>7, <1>8, <1>9, <1>10,
           <1>11, <1>12, <1>13, <1>14 DEF Next, SweepStep

\* No step leaves a blob without its row.
LEMMA MediaNext ==
  ASSUME TypeOK, Lists, BlobInHand, BlobKeepsItsRow, [Next]_vars
  PROVE  BlobKeepsItsRow'
  <1> USE RetentionAssumption DEF TypeOK, Lists, OnAList, BlobInHand, BlobKeepsItsRow
  <1>1. CASE UNCHANGED vars
    BY <1>1 DEF vars, disk, sweep, history
  <1>2. CASE Tick
    BY <1>2 DEF Tick, disk, sweep, history
  <1>3. CASE BeginSweep
    BY <1>3 DEF BeginSweep, disk, sweep, history
  <1>4. CASE SelectDue
    BY <1>4 DEF SelectDue, DueAt, disk, sweep, history
  <1>5. CASE EndSweep
    BY <1>5 DEF EndSweep, disk, sweep, history
  <1>6. CASE Mark
    BY <1>6 DEF Mark, disk, sweep, history
  <1>7. CASE WriteReceipt
    BY <1>7 DEF WriteReceipt, Unreceipted, disk, sweep, history
  <1>8. CASE Unlink
    BY <1>8 DEF Unlink, disk, sweep, history
  <1>9. CASE Delete
    BY <1>9 DEF Delete, Without, BlobLost, BlobOf, disk, sweep, history
  <1>10. CASE Crash \/ ReceiptRaises
    BY <1>10 DEF Crash, ReceiptRaises, LineCutShort, Forgotten, Unreceipted, disk, sweep, history
  <1>14. CASE OthersAppend
    BY <1>14 DEF OthersAppend, LineCutShort, disk, sweep, history
  <1>11. ASSUME NEW i \in Id, NEW asked \in 1..(Ceiling + 1), NEW b \in Blob \cup {NoBlob},
                Admit(i, asked, b)
        PROVE  BlobKeepsItsRow'
    <2> HIDE DEF TypeOK, Lists, OnAList, BlobInHand
    <2>0. Renews(i, b)
      BY <1>11, AdmitWritesOneRow
    <2> SUFFICES ASSUME NEW c \in blobs'
                 PROVE  c \in orphans' \/ \E j \in DOMAIN rows' : rows'[j].blob = c
      BY DEF BlobKeepsItsRow
    <2>1. CASE c = b
      BY <2>0, <2>1 DEF Renews
    <2>2. CASE c # b /\ c \in orphans
      BY <2>0, <2>2 DEF Renews
    <2>3. ASSUME c # b, NEW j \in DOMAIN rows, rows[j].blob = c
          PROVE  c \in orphans' \/ \E k \in DOMAIN rows' : rows'[k].blob = c
      <3>1. CASE j = i
        <4>1. c \in blobs
          BY <2>0, <2>3 DEF Renews
        <4>2. c # NoBlob
          BY <4>1, RetentionAssumption DEF TypeOK
        <4>3. c \in BlobOf(i)
          BY <2>3, <3>1, <4>2 DEF BlobOf
        <4> QED BY <2>0, <2>3, <4>3 DEF Renews
      <3>2. CASE j # i
        BY <2>0, <2>3, <3>2 DEF Renews
      <3> QED BY <3>1, <3>2
    <2> QED BY <2>0, <2>1, <2>2, <2>3 DEF Renews, TypeOK
  <1>12. ASSUME NEW i \in Id, FinishNext(i) PROVE BlobKeepsItsRow'
    BY <1>12 DEF FinishNext, disk, history
  <1>13. ASSUME NEW i \in Id, DeleteNext(i) PROVE BlobKeepsItsRow'
    BY <1>13 DEF DeleteNext, disk, history
  <1> QED BY <1>1, <1>2, <1>3, <1>4, <1>5, <1>6, <1>7, <1>8, <1>9, <1>10,
           <1>11, <1>12, <1>13, <1>14 DEF Next, SweepStep

\* The invariant holds at the start, and every step keeps it.
LEMMA SoundAlways == Spec => []Sound
  <1>1. Init => Sound
    BY RetentionAssumption DEF Init, Sound, TypeOK, Lists, Accounts, ListsExpired, BlobInHand,
       BlobKeepsItsRow, One, Unmarked, AtReceipt, Receipted, Tried, OnAList, Pending
  <1>2. Sound /\ [Next]_vars => Sound'
    BY TypesNext, ListsNext, AccountsNext, ExpiredNext, InHandNext, MediaNext DEF Sound
  <1> QED BY <1>1, <1>2, PTL DEF Spec

\* The tables, the lists and the record in hand keep their types.
THEOREM RetentionTypes == Spec => []TypeOK
  <1>1. Sound => TypeOK
    BY DEF Sound
  <1> QED BY <1>1, SoundAlways, PTL

\* However many failures a deletion takes to finish, and however the writer renews the
\* record meanwhile, an admission has one attempt at a receipt at most, and a deletion has
\* a receipt or one attempt that failed (durable.py:186-221).
THEOREM OnceReceipted == Spec => []ReceiptsMatchDeletions
  <1>1. Sound => ReceiptsMatchDeletions
    <2> SUFFICES ASSUME Sound PROVE ReceiptsMatchDeletions
      OBVIOUS
    <2>1. \A i \in Id : /\ receipts[i] \in Nat /\ admits[i] \in Nat /\ deletes[i] \in Nat
                         /\ unreceipted[i] \in Nat
      BY DEF Sound, TypeOK
    <2>2. \A holds \in BOOLEAN : One(holds) \in Nat
      BY DEF One
    <2> QED BY <2>1 DEF Sound, Accounts, ReceiptsMatchDeletions, One, Tried
  <1> QED BY <1>1, SoundAlways, PTL

\* A blob on disk has the row that will get it deleted, or lost it to a renewal.
THEOREM MediaKeepsItsRow == Spec => []BlobKeepsItsRow
  <1>1. Sound => BlobKeepsItsRow
    BY DEF Sound
  <1> QED BY <1>1, SoundAlways, PTL

\* A sweep deletes what has expired, and a record renewed since it was read as expired.
THEOREM DeletesOnlyExpired == Spec => NothingDeletedEarly
  <1> DEFINE Gone == \A i \in DOMAIN rows :
                       i \notin DOMAIN rows' => rows[i].until <= now \/ i \in overtaken
  <1>1. Sound /\ [Next]_vars => [Gone]_vars
    <2> SUFFICES ASSUME Sound, Next, NEW i \in DOMAIN rows, i \notin DOMAIN rows'
                 PROVE  rows[i].until <= now \/ i \in overtaken
      OBVIOUS
    <2>1. ASSUME Mark PROVE DOMAIN rows' = DOMAIN rows
      BY <2>1 DEF Mark
    <2>2. ASSUME NEW j \in Id, NEW asked \in 1..(Ceiling + 1), NEW b \in Blob \cup {NoBlob},
                 Admit(j, asked, b)
          PROVE  DOMAIN rows \subseteq DOMAIN rows'
      BY <2>2, AdmitWritesOneRow DEF Sound, Renews
    <2>3. Delete \/ DOMAIN rows \subseteq DOMAIN rows'
      BY <2>1, <2>2 DEF Next, SweepStep, Tick, BeginSweep, SelectDue, FinishNext, DeleteNext,
         WriteReceipt, ReceiptRaises, Unlink, EndSweep, OthersAppend, Crash, Forgotten, disk
    <2>4. i = id
      BY <2>3 DEF Delete, Without
    <2> QED BY <2>4 DEF Sound, ListsExpired, OnAList
  <1> QED BY <1>1, SoundAlways, PTL DEF Spec, NothingDeletedEarly

=============================================================================
